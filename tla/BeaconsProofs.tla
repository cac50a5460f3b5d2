--------------------------- MODULE BeaconsProofs ---------------------------
(***************************************************************************)
(* The accessories of an account, for any records, however they are        *)
(* protected, and whatever other devices write: a rename changes the one   *)
(* field it is given, however late its save arrives (RenamesOnlyGiven); a  *)
(* listing and a rename are made from what the zone says, also where it    *)
(* changed between the pages (ListsNewest, RenameFindsRecord).             *)
(***************************************************************************)
EXTENDS Beacons, TLAPS, FiniteSetTheorems, FunctionTheorems

\* what the zone has of a record
Kept(name, records, now) ==
  LET r == records[name].record
  IN /\ records[name].serial \in Nat
     /\ r # None => /\ DOMAIN r = {"name", "fields", "wrapped", "tag"}
                    /\ r.name = name /\ r.tag \in Nat /\ r.tag <= now

\* a record read from the zone is the zone's while it has the tag it was read with
Copy(r, records, now) ==
  /\ r.name \in Names /\ r.tag \in Nat /\ r.tag <= now
  /\ records[r.name].record # None /\ records[r.name].record.tag = r.tag
       => records[r.name].record = r

\* the fields with the one that is given encrypted anew
Renamed(name, fields, given) ==
  [fields EXCEPT ![given] = EncryptField("ours", FieldKey(name), Context(Zone, name, given))]

\* a save says no more than that of the record whose tag it has
Intended(save, records, now) ==
  /\ save.name \in Names /\ save.tag \in Nat /\ save.tag <= now
  /\ records[save.name].record # None /\ records[save.name].record.tag = save.tag =>
       /\ save.given \in DOMAIN records[save.name].record.fields
       /\ save.fields = Renamed(save.name, records[save.name].record.fields, save.given)

ServerInv ==
  /\ clock \in Nat /\ DOMAIN store = Names
  /\ \A name \in Names : Kept(name, store, clock)

Fields == {"op", "target", "given", "begun", "keys", "fetched", "token", "pages", "complete",
           "readAt", "naming"}

CallInv ==
  /\ DOMAIN call = Fields /\ call.fetched \in Seq(Range(call.fetched))
  /\ \A i \in DOMAIN call.fetched :
       call.fetched[i] # None => Copy(call.fetched[i], store, clock)
  /\ call.naming # None => Copy(call.naming, store, clock)
  /\ pc = "tag" => call.naming # None

HeldInv == held # None => Copy(held, store, clock)

SaveInv == \A save \in network : Intended(save, store, clock)

RenameInv == ServerInv /\ CallInv /\ HeldInv /\ SaveInv

\* A finite sequence's positions have a last one.
LEMMA LastExists ==
  ASSUME NEW m \in Nat, NEW S \in SUBSET (1 .. m), S # {}
  PROVE  \E i \in S : \A j \in S : j <= i
<1> DEFINE T == {m - i : i \in S}
<1>1. T # {} /\ T \subseteq Nat
  <2>1. \A i \in S : m - i \in Nat /\ m - i \in T
    OBVIOUS
  <2>2. PICK i \in S : TRUE
    OBVIOUS
  <2> QED BY <2>1, <2>2
<1>2. PICK k \in T : \A n \in T : ~(<<n, k>> \in OpToRel(<, Nat))
  <2> HIDE DEF T
  <2> QED BY <1>1, NatLessThanWellFounded, WFMin
<1>3. PICK i \in S : k = m - i
  OBVIOUS
<1>4. ASSUME NEW j \in S PROVE j <= i
  <2>1. m - j \in T /\ m - j \in Nat /\ k \in Nat
    BY <1>1
  <2>2. ~(m - j < k)
    <3> HIDE DEF T
    <3> QED BY <1>2, <2>1 DEF OpToRel
  <2> QED BY <1>3, <2>1, <2>2
<1> QED BY <1>4

\* The last of some records is one of them.
LEMMA LastOfThem ==
  ASSUME NEW feed, feed \in Seq(Range(feed)), NEW S \in SUBSET DOMAIN feed, S # {}
  PROVE  \E i \in S : LastOf(feed, S) = feed[i]
<1>1. Len(feed) \in Nat /\ DOMAIN feed = 1 .. Len(feed)
  OBVIOUS
<1>2. \E i \in S : \A j \in S : j <= i
  BY <1>1, LastExists
<1> QED BY <1>2 DEF LastOf

USE NameAssumption, FormAssumption, BoundAssumption, FieldKeyAssumption

-----------------------------------------------------------------------------
(* What a step may do to the zone *)

\* a record that changes has a tag that none had before
Moved ==
  /\ clock' \in Nat /\ clock <= clock' /\ DOMAIN store' = Names
  /\ \A name \in Names :
       /\ Kept(name, store', clock')
       /\ \/ store'[name].record \in {store[name].record, None}
          \/ store'[name].record.tag > clock

\* What was read is still the zone's while its tag is, and a save as intended.
LEMMA MovedKeeps ==
  ASSUME ServerInv, Moved
  PROVE  /\ ServerInv'
         /\ \A r : Copy(r, store, clock) => Copy(r, store', clock')
         /\ \A save : Intended(save, store, clock) => Intended(save, store', clock')
<1>1. ServerInv'
  BY DEF Moved, ServerInv
<1>2. ASSUME NEW name \in Names, NEW n \in Nat, n <= clock,
             store'[name].record # None, store'[name].record.tag = n
      PROVE  store'[name].record = store[name].record /\ n <= clock'
  <2>1. ~(store'[name].record.tag > clock)
    BY <1>2 DEF ServerInv
  <2> QED BY <1>2, <2>1 DEF Moved, ServerInv
<1>3. ASSUME NEW r, Copy(r, store, clock) PROVE Copy(r, store', clock')
  <2>1. r.tag <= clock'
    BY <1>3 DEF Copy, Moved, ServerInv
  <2> QED BY <1>2, <1>3, <2>1 DEF Copy
<1>4. ASSUME NEW save, Intended(save, store, clock) PROVE Intended(save, store', clock')
  <2>1. save.tag <= clock'
    BY <1>4 DEF Intended, Moved, ServerInv
  <2> QED BY <1>2, <1>4, <2>1 DEF Intended
<1> QED BY <1>1, <1>3, <1>4

\* A step of the zone alone.
LEMMA ZoneStep ==
  ASSUME RenameInv, Moved, Others
  PROVE  RenameInv'
<1>1. UNCHANGED <<network, pc, call, held>>
  BY DEF Others
<1>2. /\ ServerInv'
      /\ \A r : Copy(r, store, clock) => Copy(r, store', clock')
      /\ \A save : Intended(save, store, clock) => Intended(save, store', clock')
  BY MovedKeeps DEF RenameInv
<1> QED BY <1>1, <1>2 DEF RenameInv, CallInv, HeldInv, SaveInv

\* One record is put in place of another, or away.
LEMMA PutMoves ==
  ASSUME ServerInv, NEW name \in Names, NEW STATE record, Put(name, record),
         record = None \/ /\ DOMAIN record = {"name", "fields", "wrapped", "tag"}
                          /\ record.name = name /\ record.tag = clock + 1
  PROVE  Moved
<1>1. /\ clock' = clock + 1 /\ clock \in Nat /\ DOMAIN store' = Names
      /\ store'[name].serial = clock + 1 /\ store'[name].record = record
      /\ \A other \in Names \ {name} : store'[other] = store[other]
  BY DEF Put, ServerInv
<1>2. ASSUME NEW other \in Names
      PROVE  /\ Kept(other, store', clock')
             /\ \/ store'[other].record \in {store[other].record, None}
                \/ store'[other].record.tag > clock
  <2>1. Kept(other, store, clock)
    BY DEF ServerInv
  <2>2. CASE other = name
    BY <1>1, <2>2 DEF Kept
  <2>3. CASE other # name
    BY <1>1, <2>1, <2>3 DEF Kept
  <2> QED BY <2>2, <2>3
<1> QED BY <1>1, <1>2 DEF Moved

\* The records there are can be counted, and so can those before one of them.
LEMMA LiveCounted == IsFiniteSet(Live) /\ Cardinality(Live) \in Nat /\ Live \subseteq Names
BY FS_Subset, FS_CardinalityType DEF Live

LEMMA EarlierBelow ==
  ASSUME ServerInv, NEW name \in Live
  PROVE  Earlier(Live, name) \in Nat /\ Earlier(Live, name) < Cardinality(Live)
<1> DEFINE Below == {n \in Live : store[n].serial < store[name].serial}
<1>1. store[name].serial \in Nat
  BY LiveCounted DEF ServerInv, Kept
<1>2. Below \subseteq Live \ {name}
  BY <1>1
<1>3. /\ IsFiniteSet(Live \ {name})
      /\ Cardinality(Live \ {name}) = Cardinality(Live) - 1
  BY LiveCounted, FS_RemoveElement
<1>4. Cardinality(Below) <= Cardinality(Live \ {name}) /\ IsFiniteSet(Below)
  <2> HIDE DEF Below
  <2> QED BY <1>2, <1>3, FS_Subset
<1>5. Earlier(Live, name) = Cardinality(Below)
  BY DEF Earlier
<1>6. Cardinality(Below) \in Nat
  BY <1>4, FS_CardinalityType
<1> HIDE DEF Below
<1> QED BY LiveCounted, <1>3, <1>4, <1>5, <1>6

\* All records are wrapped to a new key, in an order that is kept.
LEMMA RollMoves == ASSUME ServerInv, Roll PROVE Moved
<1>1. Cardinality(Live) \in Nat /\ Live \subseteq Names
  BY LiveCounted
<1>2. \A name \in Live : Earlier(Live, name) \in Nat /\ Earlier(Live, name) < Cardinality(Live)
  BY EarlierBelow
<1> DEFINE serial(name) == clock + 1 + Earlier(Live, name)
<1>3. /\ clock' = clock + Cardinality(Live) /\ clock \in Nat
      /\ store' = [name \in Names |->
             IF name \notin Live THEN store[name]
             ELSE [serial |-> serial(name),
                   record |-> Record(name, store[name].record.fields, rolls + 1, serial(name))]]
  BY DEF Roll, ServerInv
<1>4. \A name \in Live : serial(name) \in Nat /\ serial(name) <= clock' /\ serial(name) > clock
  BY <1>1, <1>2, <1>3
<1> HIDE DEF serial
<1>5. ASSUME NEW name \in Names
      PROVE  /\ Kept(name, store', clock')
             /\ \/ store'[name].record \in {store[name].record, None}
                \/ store'[name].record.tag > clock
  <2>1. CASE name \notin Live
    BY <1>1, <1>3, <2>1 DEF Live, ServerInv, Kept
  <2>2. CASE name \in Live
    <3>1. /\ store'[name].serial = serial(name)
          /\ store'[name].record = Record(name, store[name].record.fields, rolls + 1, serial(name))
      BY <1>3, <2>2
    <3> QED BY <1>4, <2>2, <3>1 DEF Kept, Record
  <2> QED BY <2>1, <2>2
<1>6. clock' \in Nat /\ clock <= clock' /\ DOMAIN store' = Names
  <2>1. Cardinality(Live) \in Nat
    BY <1>1
  <2>2. clock' \in Nat /\ clock <= clock'
    <3> DEFINE n == Cardinality(Live)
    <3>1. clock' = clock + n /\ n \in Nat /\ clock \in Nat
      BY <1>3, <2>1
    <3> HIDE DEF n
    <3> QED BY ONLY <3>1
  <2>3. DOMAIN store' = Names
    BY <1>3
  <2> QED BY <2>2, <2>3
<1> QED BY <1>5, <1>6 DEF Moved

\* What other devices do moves the zone so.
LEMMA OthersMove ==
  ASSUME RenameInv, Edit \/ Appear \/ Vanish \/ Roll
  PROVE  RenameInv'
<1>0. ServerInv
  BY DEF RenameInv
<1>1. CASE Edit
  <2>1. PICK name \in Live : \E f \in Changing(name) \cap DOMAIN store[name].record.fields :
          Put(name, Record(name,
            [store[name].record.fields EXCEPT ![f] =
               EncryptField("theirs", FieldKey(name), Context(Zone, name, f))], rolls, clock + 1))
    BY <1>1 DEF Edit
  <2>2. name \in Names
    BY DEF Live
  <2>3. Moved
    BY <1>0, <2>1, <2>2, PutMoves DEF Record
  <2> QED BY <1>1, <2>3, ZoneStep DEF Edit, Change
<1>2. CASE Appear
  <2>1. PICK name \in Names :
          Put(name, Record(name, Written(name, FirstValues(name)), rolls, clock + 1))
    BY <1>2 DEF Appear
  <2>2. Moved
    BY <1>0, <2>1, PutMoves DEF Record
  <2> QED BY <1>2, <2>2, ZoneStep DEF Appear, Change
<1>3. CASE Vanish
  <2>1. PICK name \in Names : Put(name, None)
    BY <1>3 DEF Vanish, Live
  <2>2. Moved
    BY <1>0, <2>1, PutMoves
  <2> QED BY <1>3, <2>2, ZoneStep DEF Vanish, Change
<1>4. CASE Roll
  BY <1>0, <1>4, RollMoves, ZoneStep DEF Roll, Change
<1> QED BY <1>1, <1>2, <1>3, <1>4

-----------------------------------------------------------------------------
(* The steps of a call *)

\* no call
LEMMA NothingFits ==
  /\ DOMAIN Nothing = Fields /\ Nothing.fetched = <<>> /\ Nothing.naming = None
  /\ <<>> \in Seq(Range(<<>>)) /\ DOMAIN <<>> = {}
BY DEF Nothing, Fields

\* A call that starts has read nothing, but a record the caller kept.
LEMMA BeginFits ==
  ASSUME RenameInv, NEW STATE c, Begin(c), DOMAIN c = Fields, c.fetched = <<>>,
         c.naming \in {None, held}, c.naming # None => c.op = "rename"
  PROVE  RenameInv'
<1>1. /\ pc' = IF opened THEN Start(c) ELSE "opening"
      /\ call' = [c EXCEPT !.keys = IF c.op = "rename" /\ zoneKeys # None THEN zoneKeys ELSE {}]
      /\ UNCHANGED <<store, clock, network, held>>
  BY DEF Begin, server
<1>2. DOMAIN call' = Fields /\ call'.fetched = <<>> /\ call'.naming = c.naming
  BY <1>1 DEF Fields
<1>3. pc' = "tag" => c.naming # None
  BY <1>1 DEF Start
<1>4. CallInv'
  BY <1>1, <1>2, <1>3, NothingFits DEF CallInv, RenameInv, HeldInv
<1> QED BY <1>1, <1>4 DEF RenameInv, ServerInv, HeldInv, SaveInv

\* A step that neither reads nor writes a record.
LEMMA CallStep ==
  ASSUME RenameInv, UNCHANGED <<store, clock, network, held>>,
         \/ Done
         \/ /\ DOMAIN call' = Fields /\ UNCHANGED <<call.fetched, call.naming>>
            /\ pc' = "tag" => call.naming # None
  PROVE  RenameInv'
<1>1. CallInv'
  <2>1. CASE Done
    BY <2>1, NothingFits DEF Done, CallInv
  <2>2. CASE /\ DOMAIN call' = Fields /\ UNCHANGED <<call.fetched, call.naming>>
             /\ pc' = "tag" => call.naming # None
    BY <2>2 DEF CallInv, RenameInv
  <2> QED BY <2>1, <2>2
<1> QED BY <1>1 DEF RenameInv, ServerInv, HeldInv, SaveInv

\* What a page brings is the zone's.
LEMMA PageFits == ASSUME RenameInv, Page PROVE RenameInv'
<1>1. PICK n \in 0 .. PageSize, complete \in BOOLEAN, named \in BOOLEAN, nth \in {0, 1} :
      \E page \in Oldest(n) :
       LET token == IF ~named THEN None
                    ELSE Token(IF n = 0 THEN Since ELSE store[page[n]].serial, nth)
       IN /\ complete => Range(page) = Pending
          /\ n > 0 => nth = 0
          /\ call' = [call EXCEPT !.fetched = @ \o [i \in 1 .. n |-> FromProto(page[i])],
                        !.complete = complete,
                        !.token = IF Ends(page, complete, token) THEN None ELSE token,
                        !.pages = IF Ends(page, complete, token) THEN 0 ELSE Counted(page),
                        !.readAt = clock]
          /\ pc' = IF ~Ends(page, complete, token) THEN "paging"
                   ELSE IF call.op = "records" THEN "have" ELSE "defaults"
  BY DEF Page
<1>2. PICK page \in Oldest(n) :
       LET token == IF ~named THEN None
                    ELSE Token(IF n = 0 THEN Since ELSE store[page[n]].serial, nth)
       IN /\ complete => Range(page) = Pending
          /\ n > 0 => nth = 0
          /\ call' = [call EXCEPT !.fetched = @ \o [i \in 1 .. n |-> FromProto(page[i])],
                        !.complete = complete,
                        !.token = IF Ends(page, complete, token) THEN None ELSE token,
                        !.pages = IF Ends(page, complete, token) THEN 0 ELSE Counted(page),
                        !.readAt = clock]
          /\ pc' = IF ~Ends(page, complete, token) THEN "paging"
                   ELSE IF call.op = "records" THEN "have" ELSE "defaults"
  BY <1>1
<1> DEFINE new == [i \in 1 .. n |-> FromProto(page[i])]
<1>3. /\ DOMAIN call = Fields /\ call.fetched \in Seq(Range(call.fetched))
      /\ \A i \in DOMAIN call.fetched :
           call.fetched[i] # None => Copy(call.fetched[i], store, clock)
      /\ call.naming # None => Copy(call.naming, store, clock)
  BY DEF RenameInv, CallInv
<1>4. /\ DOMAIN call' = Fields /\ call'.fetched = call.fetched \o new
      /\ call'.naming = call.naming /\ pc' # "tag"
  BY <1>2, <1>3 DEF Fields
<1>5. UNCHANGED <<store, clock, network, held>>
  BY DEF Page, Keep, server
<1>6. n \in Nat /\ page \in [1 .. n -> Pending]
  BY <1>1, <1>2 DEF Oldest
<1>7. \A i \in 1 .. n : new[i] # None => Copy(new[i], store, clock)
  <2> SUFFICES ASSUME NEW i \in 1 .. n, new[i] # None PROVE Copy(new[i], store, clock)
    OBVIOUS
  <2>1. page[i] \in Names /\ new[i] = store[page[i]].record
    BY <1>6 DEF Pending, FromProto
  <2>2. Kept(page[i], store, clock)
    BY <2>1 DEF RenameInv, ServerInv
  <2> QED BY <2>1, <2>2 DEF Kept, Copy
<1>8. /\ call'.fetched \in Seq(Range(call'.fetched))
      /\ \A i \in DOMAIN call'.fetched :
           call'.fetched[i] # None => Copy(call'.fetched[i], store, clock)
  <2> DEFINE old == call.fetched
             both == old \o new
  <2>1. new \in Seq(Range(new)) /\ Len(new) = n /\ DOMAIN new = 1 .. n
    BY <1>6 DEF Range
  <2>2. Len(old) \in Nat /\ DOMAIN old = 1 .. Len(old)
    BY <1>3
  <2> HIDE DEF old, new
  <2>3. old \in Seq(Range(old) \cup Range(new)) /\ new \in Seq(Range(old) \cup Range(new))
    BY <1>3, <2>1, <2>2 DEF Range, old
  <2>4. /\ DOMAIN both = 1 .. Len(old) + n /\ both \in Seq(Range(old) \cup Range(new))
        /\ \A i \in 1 .. Len(old) + n :
             both[i] = IF i <= Len(old) THEN old[i] ELSE new[i - Len(old)]
    BY <2>1, <2>2, <2>3, <1>6
  <2>5. both \in Seq(Range(both))
    <3>1. Len(old) + n \in Nat /\ both \in [1 .. Len(old) + n -> Range(both)]
      <4>1. Len(both) = Len(old) + n
        BY <2>1, <2>3
      <4> HIDE DEF both
      <4>2. both \in [1 .. Len(both) -> Range(old) \cup Range(new)]
        BY <2>4
      <4>3. both = [i \in 1 .. Len(old) + n |-> both[i]]
        BY <4>1, <4>2
      <4>4. \A i \in 1 .. Len(old) + n : both[i] \in Range(both)
        BY <2>4 DEF Range
      <4> QED BY <2>2, <1>6, <4>3, <4>4
    <3> HIDE DEF both
    <3> QED BY <3>1
  <2>6. \A i \in DOMAIN both : both[i] # None => Copy(both[i], store, clock)
    <3> SUFFICES ASSUME NEW i \in 1 .. Len(old) + n, both[i] # None
                 PROVE  Copy(both[i], store, clock)
      BY <2>4
    <3>1. CASE i <= Len(old)
      BY <1>3, <2>2, <2>4, <3>1, <1>6 DEF old
    <3>2. CASE ~(i <= Len(old))
      <4>1. i - Len(old) \in 1 .. n
        BY <2>2, <3>2, <1>6
      <4> QED BY <1>7, <2>4, <3>2, <4>1
    <3> QED BY <3>1, <3>2
  <2> HIDE DEF both
  <2> QED BY <1>4, <2>5, <2>6 DEF old, both
<1>9. CallInv'
  BY <1>3, <1>4, <1>5, <1>8 DEF CallInv
<1> QED BY <1>5, <1>9 DEF RenameInv, ServerInv, HeldInv, SaveInv

\* The record that is found was read.
LEMMA FindFits == ASSUME RenameInv, Find PROVE RenameInv'
<1>1. UNCHANGED <<store, clock, network, held>>
  BY DEF Find, Keep, server
<1> DEFINE reader  == Reader(call.keys, Defaults)
           matches == Naming(call.fetched, Namings, "associatedBeacon", call.target, reader)
           named   == {i \in RecordsOf(call.fetched) :
                         \E j \in matches : call.fetched[i].name = call.fetched[j].name}
<1>2. CASE Done
  BY <1>1, <1>2, CallStep
<1>3. CASE /\ Cardinality(matches) = 1
           /\ call' = [call EXCEPT !.fetched = <<>>, !.naming = LastOf(call.fetched, named)]
  <2>1. matches # {} /\ matches \subseteq RecordsOf(call.fetched)
    <3>1. matches # {}
      <4>1. Cardinality({}) = 0
        BY FS_EmptySet
      <4>2. Cardinality(matches) = 1
        BY <1>3
      <4> HIDE DEF matches, named, reader
      <4> QED BY ONLY <4>1, <4>2
    <3> QED BY <3>1 DEF Naming, Decrypted
  <2>2. RecordsOf(call.fetched) \subseteq DOMAIN call.fetched
    BY DEF RecordsOf
  <2>3. named # {} /\ named \subseteq RecordsOf(call.fetched)
    <3> HIDE DEF matches
    <3> QED BY <2>1
  <2> HIDE DEF named, matches
  <2>4. PICK i \in RecordsOf(call.fetched) : LastOf(call.fetched, named) = call.fetched[i]
    BY <2>2, <2>3, LastOfThem DEF RenameInv, CallInv
  <2>5. call.fetched[i] # None /\ Copy(call.fetched[i], store, clock)
    BY <2>2, <2>4 DEF RecordsOf, RenameInv, CallInv
  <2>6. DOMAIN call' = Fields /\ call'.fetched = <<>> /\ call'.naming = call.fetched[i]
    BY <1>3, <2>4 DEF RenameInv, CallInv, Fields
  <2>7. CallInv'
    BY <1>1, <2>5, <2>6, NothingFits DEF CallInv
  <2> QED BY <1>1, <2>7 DEF RenameInv, ServerInv, HeldInv, SaveInv
<1> QED BY <1>2, <1>3 DEF Find

-----------------------------------------------------------------------------
(* Why the fields are encrypted under the right key *)

\* A structure that names its key opens to that key or not at all.
LEMMA OpensToItsKey ==
  ASSUME NEW naming, naming.name \in Names, NEW keys, NEW field,
         NEW master, master = MasterFor(naming, Reader(keys, <<>>)),
         Writable(naming, field, master)
  PROVE  master = FieldKey(naming.name)
<1> DEFINE protection == ProtectionInfo(naming)
<1>1. protection \notin {None, Garbled} /\ master # None
  BY DEF Writable
<1>2. protection.keyId = FieldKey(naming.name)
  BY <1>1 DEF ProtectionInfo, ProtectionOf, Protection, KeyId, Forms
<1> HIDE DEF protection
<1>3. master = Unwrap(protection, keys)
  BY <1>1 DEF MasterFor, Reader, protection
<1>4. protection.keyId \in {None, master}
  BY <1>1, <1>3 DEF Unwrap, KeyId
<1> QED BY <1>2, <1>4

\* A save has the fields of its record, with one encrypted under their key.
LEMMA SendFits == ASSUME RenameInv, Send PROVE RenameInv'
<1>1. UNCHANGED <<store, clock, held>>
  BY DEF Send, Keep, server
<1> DEFINE naming == call.naming
           master == MasterFor(naming, Reader(call.keys, <<>>))
           value  == EncryptField("ours", master, Context(Zone, naming.name, call.given))
           save   == [name |-> naming.name, tag |-> ProtectionTag(naming), zoneTag |-> rolls,
                      fields |-> [naming.fields EXCEPT ![call.given] = value],
                      given |-> call.given, of |-> renames]
<1>2. CASE Done /\ UNCHANGED network
  BY <1>1, <1>2, CallStep
<1>3. CASE /\ Writable(naming, call.given, master) /\ network' = network \cup {save}
           /\ pc' = "saving" /\ UNCHANGED call
  <2>1. naming # None /\ Copy(naming, store, clock)
    BY DEF Send, RenameInv, CallInv
  <2>2. master = FieldKey(naming.name)
    <3>1. naming.name \in Names
      BY <2>1 DEF Copy
    <3> HIDE DEF naming, master
    <3>2. master = MasterFor(naming, Reader(call.keys, <<>>))
      BY DEF master
    <3> QED BY <1>3, <3>1, <3>2, OpensToItsKey
  <2>3. Intended(save, store, clock)
    <3>1. /\ save.name = naming.name /\ save.tag = naming.tag /\ save.given = call.given
          /\ save.fields = Renamed(naming.name, naming.fields, call.given)
      <4> HIDE DEF master, naming
      <4> QED BY <2>2 DEF Renamed, ProtectionTag
    <3>2. call.given \in DOMAIN naming.fields
      <4> HIDE DEF master
      <4> QED BY <1>3 DEF Writable
    <3> HIDE DEF save, naming
    <3> QED BY <2>1, <3>1, <3>2 DEF Intended, Copy
  <2>4. SaveInv'
    <3> HIDE DEF save
    <3> QED BY <1>1, <1>3, <2>3 DEF SaveInv, RenameInv
  <2>5. CallInv'
    BY <1>1, <1>3 DEF CallInv, RenameInv
  <2> QED BY <1>1, <2>4, <2>5 DEF RenameInv, ServerInv, HeldInv
<1> QED BY <1>2, <1>3 DEF Send

\* A save that is accepted finds the record it was made from.
LEMMA SavedAsIntended ==
  ASSUME RenameInv, NEW save \in network, Accepts(save)
  PROVE  LET name == save.name
             old  == store[name].record
         IN /\ name \in Names /\ old # None
            /\ DOMAIN old = {"name", "fields", "wrapped", "tag"} /\ old.name = name
            /\ save.given \in DOMAIN old.fields
            /\ save.fields = Renamed(name, old.fields, save.given)
            /\ Saved(save).name = name /\ Saved(save).tag = clock + 1
            /\ Saved(save).wrapped = old.wrapped
            /\ DOMAIN Saved(save) = {"name", "fields", "wrapped", "tag"}
            /\ DOMAIN Saved(save).fields = DOMAIN old.fields
            /\ \A f \in DOMAIN old.fields : Saved(save).fields[f] = save.fields[f]
<1> DEFINE name == save.name
           old == store[name].record
<1>1. /\ name \in Names /\ old # None /\ old.tag = save.tag
      /\ Intended(save, store, clock)
  BY DEF Accepts, Live, RenameInv, SaveInv
<1>2. Kept(name, store, clock)
  BY <1>1 DEF RenameInv, ServerInv
<1>3. DOMAIN old = {"name", "fields", "wrapped", "tag"} /\ old.name = name
  BY <1>1, <1>2 DEF Kept
<1>4. /\ save.given \in DOMAIN old.fields
      /\ save.fields = Renamed(name, old.fields, save.given)
  BY <1>1 DEF Intended
<1>5. DOMAIN save.fields = DOMAIN old.fields
  BY <1>4 DEF Renamed
<1>6. /\ Saved(save).name = name /\ Saved(save).tag = clock + 1
      /\ Saved(save).wrapped = old.wrapped
      /\ DOMAIN Saved(save) = {"name", "fields", "wrapped", "tag"}
      /\ Saved(save).fields = Merged(old.fields, save.fields)
  BY <1>3 DEF Saved
<1>7. /\ DOMAIN Merged(old.fields, save.fields) = DOMAIN old.fields
      /\ \A f \in DOMAIN old.fields : Merged(old.fields, save.fields)[f] = save.fields[f]
  <2> HIDE DEF old
  <2> QED BY <1>5 DEF Merged
<1> HIDE DEF name, old
<1> QED BY <1>1, <1>3, <1>4, <1>6, <1>7 DEF name, old

\* What the call returns is the record as it was saved.
LEMMA ServeFits == ASSUME RenameInv, Serve PROVE RenameInv'
<1>0. ServerInv /\ clock \in Nat
  BY DEF RenameInv, ServerInv
<1>1. PICK save \in network :
       /\ network' = network \ {save}
       /\ IF Accepts(save) THEN Put(save.name, Saved(save)) ELSE UNCHANGED <<store, clock>>
       /\ IF Waits(save)
          THEN Done /\ (held' = IF Accepts(save) THEN Saved(save) ELSE held)
          ELSE UNCHANGED <<pc, call, held>>
  BY DEF Serve
<1>2. /\ ServerInv'
      /\ \A r : Copy(r, store, clock) => Copy(r, store', clock')
      /\ \A s : Intended(s, store, clock) => Intended(s, store', clock')
      /\ Accepts(save) => Copy(Saved(save), store', clock')
  <2>1. CASE Accepts(save)
    <3>1. Put(save.name, Saved(save))
      BY <1>1, <2>1
    <3>2. /\ save.name \in Names /\ Saved(save).name = save.name /\ Saved(save).tag = clock + 1
          /\ DOMAIN Saved(save) = {"name", "fields", "wrapped", "tag"}
      BY <2>1, SavedAsIntended
    <3>3. Moved
      BY <1>0, <3>1, <3>2, PutMoves
    <3>4. clock' = clock + 1 /\ store'[save.name].record = Saved(save)
      BY <1>0, <3>1, <3>2 DEF Put, ServerInv
    <3>5. Copy(Saved(save), store', clock')
      BY <1>0, <3>2, <3>4 DEF Copy
    <3> QED BY <1>0, <3>3, <3>5, MovedKeeps
  <2>2. CASE ~Accepts(save)
    BY <1>0, <1>1, <2>2 DEF ServerInv
  <2> QED BY <2>1, <2>2
<1>3. SaveInv'
  BY <1>1, <1>2 DEF SaveInv, RenameInv
<1>4. CallInv' /\ HeldInv'
  <2>1. CASE Waits(save)
    <3>1. Done /\ (held' = IF Accepts(save) THEN Saved(save) ELSE held)
      BY <1>1, <2>1
    <3>2. CallInv'
      BY <3>1, NothingFits DEF Done, CallInv
    <3>3. HeldInv'
      BY <1>2, <3>1 DEF HeldInv, RenameInv
    <3> QED BY <3>2, <3>3
  <2>2. CASE ~Waits(save)
    BY <1>1, <1>2, <2>2 DEF CallInv, HeldInv, RenameInv
  <2> QED BY <2>1, <2>2
<1> QED BY <1>2, <1>3, <1>4 DEF RenameInv

-----------------------------------------------------------------------------
(* The invariant *)

\* The records of a finite set can be numbered.
LEMMA NumberedIs ==
  ASSUME NEW names, IsFiniteSet(names)
  PROVE  Numbered(names) \in [names -> 1 .. Cardinality(names)]
<1>1. PICK n \in Nat : ExistsBijection(1 .. n, names)
  BY FS_NatBijection
<1>2. n = Cardinality(names)
  BY <1>1, FS_CountingElements
<1>3. ExistsBijection(names, 1 .. Cardinality(names))
  BY <1>1, <1>2, Fun_ExistsBijSymmetric
<1>4. \E f \in [names -> 1 .. Cardinality(names)] : IsInjective(f)
  BY <1>3 DEF ExistsBijection, Bijection, Injection
<1> QED BY <1>4 DEF Numbered

\* The zone's first records have the numbers of some order, and nobody read any.
LEMMA RenameInvAtFirst == Init => RenameInv
<1> SUFFICES ASSUME Init PROVE RenameInv
  OBVIOUS
<1>1. PICK absent \in Absences :
        LET serial == Numbered(Names \ absent)
        IN /\ clock = Cardinality(Names \ absent)
           /\ store = [name \in Names |->
                IF name \in absent THEN [serial |-> 0, record |-> None]
                ELSE [serial |-> serial[name],
                      record |-> Record(name, Written(name, FirstValues(name)), 0, serial[name])]]
  BY DEF Init
<1> DEFINE names == Names \ absent
           serial == Numbered(names)
<1>2. IsFiniteSet(names) /\ Cardinality(names) \in Nat
  BY FS_Subset, FS_CardinalityType
<1>3. serial \in [names -> 1 .. Cardinality(names)]
  BY <1>2, NumberedIs
<1> HIDE DEF serial
<1>4. store = [name \in Names |->
                IF name \in absent THEN [serial |-> 0, record |-> None]
                ELSE [serial |-> serial[name],
                      record |-> Record(name, Written(name, FirstValues(name)), 0, serial[name])]]
  BY <1>1 DEF serial
<1>c. clock = Cardinality(names)
  BY <1>1
<1>5. ASSUME NEW name \in Names PROVE Kept(name, store, clock)
  <2>1. CASE name \in absent
    BY <1>4, <2>1 DEF Kept
  <2>2. CASE name \notin absent
    <3>1. serial[name] \in Nat /\ serial[name] <= clock
      <4>1. name \in names /\ serial[name] \in 1 .. Cardinality(names)
        BY <1>3, <2>2
      <4> HIDE DEF names
      <4> QED BY <1>c, <1>2, <4>1
    <3>2. /\ store[name].serial = serial[name]
          /\ store[name].record = Record(name, Written(name, FirstValues(name)), 0, serial[name])
      BY <1>4, <2>2
    <3> QED BY <3>1, <3>2 DEF Kept, Record
  <2> QED BY <2>1, <2>2
<1>6. ServerInv
  BY <1>c, <1>2, <1>4, <1>5 DEF ServerInv
<1>7. CallInv
  <2>1. call = Nothing /\ pc = "idle"
    BY DEF Init
  <2> QED BY <2>1, NothingFits DEF CallInv
<1>8. HeldInv /\ SaveInv
  BY DEF Init, HeldInv, SaveInv
<1> QED BY <1>6, <1>7, <1>8 DEF RenameInv

\* Every step keeps it.
LEMMA RenameInvStays == RenameInv /\ [Next]_vars => RenameInv'
<1> SUFFICES ASSUME RenameInv, [Next]_vars PROVE RenameInv'
  OBVIOUS
<1>0. DOMAIN call = Fields
  BY DEF RenameInv, CallInv
<1>1. CASE Edit \/ Appear \/ Vanish \/ Roll
  BY <1>1, OthersMove
<1>2. CASE UseKeys \/ UNCHANGED vars
  <2>1. UNCHANGED <<store, clock, network, held, pc, call>>
    BY <1>2 DEF UseKeys, server, vars
  <2> QED BY <2>1 DEF RenameInv, ServerInv, CallInv, HeldInv, SaveInv
<1>3. CASE Read
  <2>1. PICK op \in {"records", "list"} : Begin([Nothing EXCEPT !.op = op, !.begun = clock])
    BY <1>3 DEF Read
  <2> DEFINE c == [Nothing EXCEPT !.op = op, !.begun = clock]
  <2>2. DOMAIN c = Fields /\ c.fetched = <<>> /\ c.naming = None
    BY DEF Nothing, Fields
  <2>3. Begin(c)
    BY <2>1
  <2> HIDE DEF c
  <2> QED BY <2>2, <2>3, BeginFits
<1>4. CASE Rename
  <2> DEFINE asked(f) == [Nothing EXCEPT !.op = "rename", !.begun = clock, !.given = f]
  <2>1. PICK field \in {"name", "emoji"} :
          \/ \E id \in Beacons : Begin([asked(field) EXCEPT !.target = id])
          \/ held # None /\ Begin([asked(field) EXCEPT !.naming = held])
    BY <1>4 DEF Rename
  <2>2. ASSUME NEW id \in Beacons, Begin([asked(field) EXCEPT !.target = id]) PROVE RenameInv'
    <3> DEFINE c == [asked(field) EXCEPT !.target = id]
    <3>1. DOMAIN c = Fields /\ c.fetched = <<>> /\ c.naming = None
      BY DEF Nothing, Fields
    <3>2. Begin(c)
      BY <2>2
    <3> HIDE DEF c
    <3> QED BY <3>1, <3>2, BeginFits
  <2>3. CASE held # None /\ Begin([asked(field) EXCEPT !.naming = held])
    <3> DEFINE c == [asked(field) EXCEPT !.naming = held]
    <3>1. DOMAIN c = Fields /\ c.fetched = <<>> /\ c.naming = held /\ c.op = "rename"
      BY DEF Nothing, Fields
    <3>2. held # None /\ Begin(c)
      BY <2>3
    <3> HIDE DEF c
    <3> QED BY <3>1, <3>2, BeginFits
  <2> QED BY <2>1, <2>2, <2>3
<1>5. CASE Fail
  BY <1>5, CallStep DEF Fail, Keep, server
<1>6. CASE Open
  <2>1. UNCHANGED <<store, clock, network, held, call>> /\ pc' = Start(call)
    BY <1>6 DEF Open, Keep, server
  <2> QED BY <1>0, <2>1, CallStep DEF Start
<1>7. CASE ReadZone
  <2>1. UNCHANGED <<store, clock, network, held>>
    BY <1>7 DEF ReadZone, Keep, server
  <2>2. PICK keys : \/ Done
                    \/ /\ call' = [call EXCEPT !.keys = keys]
                       /\ pc' = IF call.naming # None THEN "tag" ELSE "paging"
    BY <1>7 DEF ReadZone
  <2>3. \/ Done
        \/ /\ DOMAIN call' = Fields /\ UNCHANGED <<call.fetched, call.naming>>
           /\ pc' = "tag" => call.naming # None
    BY <1>0, <2>2 DEF Fields
  <2> QED BY <2>1, <2>3, CallStep
<1>8. CASE Page
  BY <1>8, PageFits
<1>9. CASE Return
  <2>1. UNCHANGED <<store, clock, network>> /\ Done
    BY <1>9 DEF Return, Keep, server
  <2>2. held' = None \/ \E i \in DOMAIN call.fetched : call.fetched[i] # None /\ held' = call.fetched[i]
    BY <1>9 DEF Return, RecordsOf
  <2>3. HeldInv'
    BY <2>1, <2>2 DEF HeldInv, RenameInv, CallInv
  <2>4. CallInv'
    BY <2>1, NothingFits DEF Done, CallInv
  <2> QED BY <2>1, <2>3, <2>4 DEF RenameInv, ServerInv, SaveInv
<1>10. CASE List
  BY <1>10, CallStep DEF List, Keep, server
<1>11. CASE Find
  BY <1>11, FindFits
<1>12. CASE Send
  BY <1>12, SendFits
<1>13. CASE Serve
  BY <1>13, ServeFits
<1>14. CASE Lose
  <2>1. UNCHANGED <<store, clock, held, pc, call>> /\ network' \subseteq network
    BY <1>14 DEF Lose, Keep, server
  <2> QED BY <2>1 DEF RenameInv, ServerInv, CallInv, HeldInv, SaveInv
<1> QED BY <1>1, <1>2, <1>3, <1>4, <1>5, <1>6, <1>7, <1>8, <1>9, <1>10, <1>11, <1>12, <1>13, <1>14
        DEF Next, Step

-----------------------------------------------------------------------------
(* The theorem *)

\* A save that arrives, however late and whatever was written since its record
\* was read, gives one field the new value, leaves every other as it is, and
\* takes the record from nobody who could read it (save_naming_record).
THEOREM RenamesOnlyGiven == Spec => RenameChangesOnlyGiven
<1>1. ASSUME RenameInv PROVE OnlyGiven
  <2> SUFFICES ASSUME NEW save \in network, Serve, network' = network \ {save}, Accepts(save)
               PROVE  /\ DOMAIN store'[save.name].record.fields = DOMAIN store[save.name].record.fields
                      /\ store'[save.name].record.wrapped = store[save.name].record.wrapped
                      /\ \A f \in DOMAIN store[save.name].record.fields :
                           Plain(save.name, f)' = IF f = save.given THEN "ours"
                                                  ELSE Plain(save.name, f)
    BY DEF OnlyGiven
  <2> DEFINE name == save.name
             old  == store[name].record
  <2>1. Put(name, Saved(save))
    <3>1. PICK other \in network :
            /\ network' = network \ {other}
            /\ IF Accepts(other) THEN Put(other.name, Saved(other)) ELSE UNCHANGED <<store, clock>>
      BY DEF Serve
    <3>2. other = save
      BY <3>1
    <3> QED BY <3>1, <3>2
  <2>2. /\ name \in Names
        /\ save.fields = Renamed(name, old.fields, save.given)
        /\ save.given \in DOMAIN old.fields
        /\ Saved(save).wrapped = old.wrapped
        /\ DOMAIN Saved(save).fields = DOMAIN old.fields
        /\ \A f \in DOMAIN old.fields : Saved(save).fields[f] = save.fields[f]
    BY <1>1, SavedAsIntended
  <2>3. store'[name].record = Saved(save)
    BY <1>1, <2>1, <2>2 DEF Put, RenameInv, ServerInv
  <2>4. ASSUME NEW f \in DOMAIN old.fields
        PROVE  Plain(name, f)' = IF f = save.given THEN "ours" ELSE Plain(name, f)
    <3>1. Plain(name, f)' =
            DecryptField(Saved(save).fields[f], FieldKey(name), Context(Zone, name, f))
      BY <2>3 DEF Plain
    <3>2. Saved(save).fields[f] = IF f = save.given
            THEN EncryptField("ours", FieldKey(name), Context(Zone, name, f)) ELSE old.fields[f]
      <4> HIDE DEF old, name
      <4> QED BY <2>2 DEF Renamed
    <3>3. CASE f = save.given
      BY <3>1, <3>2, <3>3 DEF DecryptField, EncryptField, KeyId
    <3>4. CASE f # save.given
      BY <3>1, <3>2, <3>4 DEF Plain
    <3> QED BY <3>3, <3>4
  <2> QED BY <2>2, <2>3, <2>4
<1>2. RenameInv /\ [Next]_vars => [OnlyGiven]_vars
  BY <1>1
<1> QED BY <1>2, RenameInvAtFirst, RenameInvStays, PTL DEF Spec, RenameChangesOnlyGiven

-----------------------------------------------------------------------------
(* What opens a record *)

\* Of one or two positions there is a first.
LEMMA ForemostIn == ASSUME NEW S \in SUBSET (1 .. 2), S # {} PROVE Foremost(S) \in S
<1>1. \E i \in S : \A j \in S : i <= j
  <2>1. CASE 1 \in S
    BY <2>1
  <2>2. CASE 1 \notin S
    <3>1. \A i \in S : i = 2
      BY <2>2
    <3>2. PICK i \in S : TRUE
      OBVIOUS
    <3>3. \A j \in S : i <= j
      BY <3>1
    <3> QED BY <3>3
  <2> QED BY <2>1, <2>2
<1> QED BY <1>1 DEF Foremost

\* opened by who has the key of one of its readers
OpensTo(protection, keys, key) ==
  Unwrap(protection, keys) =
    IF \E i \in DOMAIN protection.shares : protection.shares[i].to \in keys THEN key ELSE None

\* A structure whose shares all lead to the key it names opens to that key for
\* whoever holds one of its readers' keys, and for nobody else.
LEMMA UnwrapIs ==
  ASSUME NEW protection, NEW key, NEW keys, protection.keyId \in {None, key},
         DOMAIN protection.shares \subseteq 1 .. 2,
         \A i \in DOMAIN protection.shares : MasterOf(protection, protection.shares[i]) = key
  PROVE  OpensTo(protection, keys, key)
<1> DEFINE ours == OurShares(protection, keys)
<1>1. ours \subseteq DOMAIN protection.shares /\ ours \subseteq 1 .. 2
  BY DEF OurShares
<1>2. (ours # {}) <=> \E i \in DOMAIN protection.shares : protection.shares[i].to \in keys
  BY DEF OurShares
<1>3. ours # {} => Foremost(ours) \in DOMAIN protection.shares
  <2> HIDE DEF ours
  <2> QED BY <1>1, ForemostIn
<1>4. Unwrap(protection, keys) =
        IF ours # {} /\ protection.keyId \in {None, MasterOf(protection, protection.shares[Foremost(ours)])}
        THEN MasterOf(protection, protection.shares[Foremost(ours)]) ELSE None
  BY DEF Unwrap, KeyId
<1> HIDE DEF ours
<1> QED BY <1>2, <1>3, <1>4 DEF OpensTo

\* A record's own structure opens to the key of its fields, for who has the
\* zone's key it was wrapped to, unless it is somebody else's or garbled.
LEMMA OwnOpens ==
  ASSUME NEW name \in Names, NEW n, NEW keys, FormOf[name] \notin {"default", "namedDefault"}
  PROVE  LET master == Unwrap(ProtectionOf(name, n), keys)
         IN /\ master \in {None, FieldKey(name)}
            /\ FormOf[name] = "garbled" => master = None
            /\ FormOf[name] = "foreign" /\ Stranger \notin keys => master = None
            /\ FormOf[name] \notin {"foreign", "garbled"} /\ ZoneKey(n) \in keys
                 => master = FieldKey(name)
<1> DEFINE protection == ProtectionOf(name, n)
           shares == protection.shares
           mine == Share(ZoneKey(n), FALSE, Own(name))
           other == Share(Stranger, FALSE, Own(name))
           readOnly == Share(ZoneKey(n), TRUE, FieldKey(name))
<1>1. FormOf[name] \in {"own", "several", "readOnly", "noShareKey", "foreign", "garbled"}
  BY DEF Forms
<1>2. CASE FormOf[name] = "garbled"
  <2>1. shares = <<>>
    BY <1>2 DEF ProtectionOf, Garbled, Protection
  <2>2. OurShares(protection, keys) = {}
    <3> HIDE DEF protection
    <3> QED BY <2>1 DEF OurShares
  <2>3. Unwrap(protection, keys) = None
    <3> HIDE DEF protection
    <3> QED BY <2>2 DEF Unwrap
  <2> QED BY <1>2, <2>3
<1>3. CASE FormOf[name] # "garbled"
  <2>1. /\ protection.keyId = FieldKey(name) /\ protection.version \in {1, NoShareKey}
        /\ protection.version = NoShareKey <=> FormOf[name] = "noShareKey"
        /\ shares = IF FormOf[name] = "several" THEN <<other, mine>>
                    ELSE IF FormOf[name] = "readOnly" THEN <<readOnly>>
                    ELSE IF FormOf[name] = "foreign" THEN <<other>> ELSE <<mine>>
    BY <1>1, <1>3 DEF ProtectionOf, Protection, KeyId, NoShareKey
  <2>2. /\ FormOf[name] = "noShareKey" => FieldKey(name) = Own(name)
        /\ FormOf[name] # "noShareKey" => FieldKey(name) = Derive(Own(name))
    BY DEF FieldKey
  <2>3. /\ mine.to = ZoneKey(n) /\ ~mine.readOnly /\ mine.carries = Own(name)
        /\ other.to = Stranger /\ ~other.readOnly /\ other.carries = Own(name)
        /\ readOnly.to = ZoneKey(n) /\ readOnly.readOnly /\ mine # other /\ readOnly.carries = FieldKey(name)
    <3>1. ZoneKey(n).name # Stranger.name
      BY DEF ZoneKey, Stranger, Private, Secret
    <3> QED BY <3>1 DEF Share
  <2> HIDE DEF protection, mine, other, readOnly
  <2>4. /\ DOMAIN shares \subseteq 1 .. 2
        /\ \A i \in DOMAIN shares : shares[i] \in {mine, other, readOnly}
        /\ FormOf[name] # "readOnly" => \A i \in DOMAIN shares : shares[i] \in {mine, other}
        /\ FormOf[name] = "readOnly" => \A i \in DOMAIN shares : shares[i] = readOnly
        /\ FormOf[name] = "foreign" => \A i \in DOMAIN shares : shares[i] = other
        /\ FormOf[name] # "foreign" => \E i \in DOMAIN shares : shares[i] \in {mine, readOnly}
    <3> HIDE DEF shares
    <3>1. CASE FormOf[name] = "several"
      <4>1. shares = <<other, mine>>
        BY <2>1, <3>1
      <4>2. DOMAIN shares = 1 .. 2 /\ shares[1] = other /\ shares[2] = mine
        BY <4>1
      <4> QED BY <3>1, <4>2
    <3>2. CASE FormOf[name] # "several"
      <4>1. PICK share : /\ shares = <<share>> /\ share \in {mine, other, readOnly}
                         /\ share = readOnly <=> FormOf[name] = "readOnly"
                         /\ share = other <=> FormOf[name] = "foreign"
        BY <1>1, <1>3, <2>1, <2>3, <3>2
      <4>2. DOMAIN shares = {1} /\ shares[1] = share
        BY <4>1
      <4> QED BY <3>2, <4>1, <4>2
    <3> QED BY <3>1, <3>2
  <2>5. \A i \in DOMAIN shares : MasterOf(protection, shares[i]) = FieldKey(name)
    BY <2>1, <2>2, <2>3, <2>4 DEF MasterOf
  <2>6. Unwrap(protection, keys) =
          IF \E i \in DOMAIN shares : shares[i].to \in keys THEN FieldKey(name) ELSE None
    <3>1. protection.keyId \in {None, FieldKey(name)}
      BY <2>1
    <3>2. OpensTo(protection, keys, FieldKey(name))
      BY <2>4, <2>5, <3>1, UnwrapIs
    <3> QED BY <3>2 DEF OpensTo
  <2>7. FormOf[name] = "foreign" /\ Stranger \notin keys => Unwrap(protection, keys) = None
    BY <2>3, <2>4, <2>6
  <2>8. FormOf[name] # "foreign" /\ ZoneKey(n) \in keys => Unwrap(protection, keys) = FieldKey(name)
    BY <2>3, <2>4, <2>6
  <2> QED BY <1>3, <2>6, <2>7, <2>8 DEF protection
<1> QED BY <1>2, <1>3

\* The default key of a zone's records is the one they are wrapped with.
LEMMA DefaultsAre ==
  ASSUME NEW n, NEW keys
  PROVE  /\ ZoneDefaults(RecordProtection(n), keys) \in {<<>>, <<Derive(Default)>>}
         /\ ZoneKey(n) \in keys /\ RecordProtection(n) # None /\ Derive(Default) # None
              => ZoneDefaults(RecordProtection(n), keys) = <<Derive(Default)>>
<1> DEFINE protection == RecordProtection(n)
           share == Share(ZoneKey(n), FALSE, Default)
<1>1. /\ protection.keyId = None /\ protection.version = 1 /\ protection.shares = <<share>>
      /\ protection.meta = None
  BY DEF RecordProtection, Protection
<1>2. share.to = ZoneKey(n) /\ ~share.readOnly /\ share.carries = Default
  BY DEF Share
<1> HIDE DEF protection, share
<1>3. DOMAIN protection.shares = {1} /\ protection.shares[1] = share
  BY <1>1
<1>4. MasterOf(protection, share) = Derive(Default)
  BY <1>1, <1>2 DEF MasterOf, NoShareKey
<1>5. Unwrap(protection, keys) = IF ZoneKey(n) \in keys THEN Derive(Default) ELSE None
  <2> DEFINE key == Derive(Default)
  <2>1. /\ protection.keyId \in {None, key} /\ DOMAIN protection.shares \subseteq 1 .. 2
        /\ \A i \in DOMAIN protection.shares : MasterOf(protection, protection.shares[i]) = key
    BY <1>1, <1>3, <1>4
  <2>2. (\E i \in DOMAIN protection.shares : protection.shares[i].to \in keys) <=> ZoneKey(n) \in keys
    BY <1>2, <1>3
  <2> HIDE DEF key
  <2>3. OpensTo(protection, keys, key)
    BY <2>1, UnwrapIs
  <2> QED BY <2>2, <2>3 DEF key, OpensTo
<1>6. MasterKeys(protection, Derive(Default)) = <<Derive(Default)>>
  <2>1. ReadMeta(protection, Derive(Default)).symmetric = <<>>
    BY <1>1 DEF ReadMeta, Meta
  <2> QED BY <2>1 DEF MasterKeys
<1> QED BY <1>5, <1>6 DEF ZoneDefaults, protection

\* What a reader's keys make of a record of the zone.
Opened(r, reader) ==
  /\ MasterFor(r, reader) \in {None, FieldKey(r.name)}
  /\ FormOf[r.name] \in {"foreign", "garbled"} => MasterFor(r, reader) = None

LEMMA ReaderOpens ==
  ASSUME NEW r, r.name \in Names, r.wrapped \in 0 .. MaxChanges, NEW keys, Stranger \notin keys,
         NEW n \in 0 .. MaxChanges
  PROVE  LET reader == Reader(keys, ZoneDefaults(RecordProtection(n), keys))
         IN /\ Opened(r, reader)
            /\ /\ ZoneKey(n) \in keys /\ r.wrapped = n
               /\ FormOf[r.name] \notin {"foreign", "garbled"}
               => MasterFor(r, reader) = FieldKey(r.name)
<1> DEFINE defaults == ZoneDefaults(RecordProtection(n), keys)
           reader == Reader(keys, defaults)
           protection == ProtectionOf(r.name, r.wrapped)
<1>1. reader.keys = keys /\ reader.defaults = defaults
  BY DEF Reader
<1> HIDE DEF reader, defaults
<1>2. MasterFor(r, reader) = IF protection = None THEN SelectDefault(defaults, PcsKey(r.name))
                             ELSE Unwrap(protection, keys)
  BY <1>1 DEF MasterFor, ProtectionInfo
<1>3. CASE FormOf[r.name] \in {"default", "namedDefault"}
  <2>1. protection = None /\ FieldKey(r.name) = Derive(Default)
    BY <1>3 DEF ProtectionOf, FieldKey
  <2>2. Derive(Default) # None
    BY <2>1
  <2>3. /\ defaults \in {<<>>, <<Derive(Default)>>}
        /\ ZoneKey(n) \in keys => defaults = <<Derive(Default)>>
    BY <2>2, DefaultsAre, ProtectionAssumption DEF defaults
  <2>4. PcsKey(r.name) \in {None, Derive(Default)}
    BY <2>1 DEF PcsKey, KeyId
  <2>5. SelectDefault(<<>>, PcsKey(r.name)) = None
    <3>1. DOMAIN <<>> = {} /\ Len(<<>>) = 0
      OBVIOUS
    <3> QED BY <3>1 DEF SelectDefault
  <2>6. SelectDefault(<<Derive(Default)>>, PcsKey(r.name)) = Derive(Default)
    <3>1. PICK key : key = Derive(Default)
      OBVIOUS
    <3>2. DOMAIN <<key>> = {1} /\ <<key>>[1] = key /\ Len(<<key>>) = 1
      OBVIOUS
    <3>3. CASE PcsKey(r.name) = None
      <4>1. SelectDefault(<<key>>, PcsKey(r.name)) = key
        BY <3>2, <3>3 DEF SelectDefault
      <4> QED BY <3>1, <4>1
    <3>4. CASE PcsKey(r.name) # None
      <4>1. PcsKey(r.name) = key
        BY <2>4, <3>1, <3>4
      <4>2. {i \in DOMAIN <<key>> : KeyId(<<key>>[i]) = PcsKey(r.name)} = {1}
        BY <3>2, <4>1 DEF KeyId
      <4>3. Foremost({1}) = 1
        BY DEF Foremost
      <4>4. SelectDefault(<<key>>, PcsKey(r.name)) = key
        BY <3>2, <3>4, <4>2, <4>3 DEF SelectDefault
      <4> QED BY <3>1, <4>4
    <3> QED BY <3>3, <3>4
  <2> HIDE DEF protection
  <2> QED BY <1>2, <1>3, <2>1, <2>3, <2>5, <2>6 DEF Opened, reader, defaults
<1>4. CASE FormOf[r.name] \notin {"default", "namedDefault"}
  <2>1. protection # None
    BY <1>4, ProtectionAssumption
  <2>2. MasterFor(r, reader) = Unwrap(protection, keys)
    <3> HIDE DEF protection
    <3> QED BY <1>2, <2>1
  <2>3. LET master == Unwrap(protection, keys)
        IN /\ master \in {None, FieldKey(r.name)}
           /\ FormOf[r.name] = "garbled" => master = None
           /\ FormOf[r.name] = "foreign" /\ Stranger \notin keys => master = None
           /\ FormOf[r.name] \notin {"foreign", "garbled"} /\ ZoneKey(r.wrapped) \in keys
                => master = FieldKey(r.name)
    BY <1>4, OwnOpens
  <2> HIDE DEF protection
  <2> QED BY <2>2, <2>3 DEF Opened, reader, defaults
<1> QED BY <1>3, <1>4

\* The keys of a zone are not a stranger's.
LEMMA ZoneKeysOurs ==
  ASSUME NEW n, NEW keys
  PROVE  Stranger \notin UnwrapZone(ZoneProtection(n), keys)
<1> DEFINE protection == ZoneProtection(n)
           key == Derive(ZoneSecret)
           first == Share(Stranger, FALSE, ZoneSecret)
           second == Share(Service, FALSE, ZoneSecret)
<1>1. /\ protection.keyId = key /\ protection.version = 1 /\ protection.shares = <<first, second>>
      /\ protection.meta = Meta(key, <<>>, {ZoneKey(n)})
  BY DEF ZoneProtection, Protection, KeyId
<1>2. ~first.readOnly /\ first.carries = ZoneSecret /\ ~second.readOnly /\ second.carries = ZoneSecret
  BY DEF Share
<1> HIDE DEF protection, first, second
<1>3. /\ DOMAIN protection.shares = 1 .. 2
      /\ \A i \in 1 .. 2 : protection.shares[i] \in {first, second}
  BY <1>1
<1>4. \A i \in 1 .. 2 : MasterOf(protection, protection.shares[i]) = key
  BY <1>1, <1>2, <1>3 DEF MasterOf, NoShareKey
<1>5. Unwrap(protection, keys) \in {None, key}
  <2>1. /\ protection.keyId \in {None, key} /\ DOMAIN protection.shares \subseteq 1 .. 2
        /\ \A i \in DOMAIN protection.shares : MasterOf(protection, protection.shares[i]) = key
    BY <1>1, <1>3, <1>4
  <2> HIDE DEF key
  <2>2. OpensTo(protection, keys, key)
    BY <2>1, UnwrapIs
  <2> QED BY <2>2 DEF OpensTo
<1>6. /\ ReadMeta(protection, key).symmetric = <<>>
      /\ ReadMeta(protection, key).identities \subseteq {ZoneKey(n)}
  BY <1>1 DEF ReadMeta, Meta
<1>7. MasterKeys(protection, key) = <<key>>
  BY <1>6 DEF MasterKeys
<1>8. MasterEcKeys(<<key>>) = {MasterEcKey(key)}
  BY DEF MasterEcKeys
<1>9. Stranger # ZoneKey(n) /\ Stranger # MasterEcKey(key)
  <2>1. Stranger.name = <<"stranger", 0>> /\ Stranger.derived = 0
    BY DEF Stranger, Private, Secret
  <2>2. ZoneKey(n).name = <<"zone", n>> /\ MasterEcKey(key).derived = 1
    BY DEF ZoneKey, Private, Secret, MasterEcKey, Derive, ZoneSecret
  <2>3. <<"stranger", 0>>[1] # <<"zone", n>>[1]
    OBVIOUS
  <2> QED BY <2>1, <2>2, <2>3
<1>10. UnwrapZone(protection, keys) \subseteq {ZoneKey(n), MasterEcKey(key)}
  <2> HIDE DEF key
  <2> QED BY <1>5, <1>6, <1>7, <1>8 DEF UnwrapZone
<1> QED BY <1>9, <1>10 DEF protection

-----------------------------------------------------------------------------
(* What a record says, and how it is wrapped *)

Changed == {"model", "name", "emoji", "lastIndexObserved"}

\* its fields are encrypted under its key, each for its place, and those that
\* nobody changes are as they were written first
Worded(name, fields) ==
  /\ DOMAIN fields = DOMAIN FirstValues(name)
  /\ \A f \in DOMAIN fields :
       /\ fields[f] = EncryptField(fields[f].value, FieldKey(name), Context(Zone, name, f))
       /\ f \notin Changed => fields[f].value = FirstValues(name)[f]

\* what the zone has of a record is wrapped to its key of now
Fit(name, records, n, now) ==
  /\ records[name].serial <= now
  /\ records[name].record # None => /\ records[name].serial > 0
                                    /\ records[name].record.wrapped = n
                                    /\ Worded(name, records[name].record.fields)

StoreInv ==
  /\ changes \in 0 .. MaxChanges /\ rolls \in 0 .. changes
  /\ \A name \in Names : Fit(name, store, rolls, clock)
  /\ \A save \in network : save.given \in {"name", "emoji"}

\* what changes is numbered later than all there was
Newer ==
  /\ clock' >= clock /\ clock' \in Nat
  /\ \A name \in Names : store'[name] = store[name] \/ store'[name].serial > clock

LEMMA WrittenWorded == ASSUME NEW name PROVE Worded(name, Written(name, FirstValues(name)))
BY DEF Worded, Written, EncryptField

LEMMA EncryptedWorded ==
  ASSUME NEW name, NEW fields, Worded(name, fields), NEW f \in DOMAIN fields,
         f \in Changed, NEW value
  PROVE  Worded(name, [fields EXCEPT ![f] = EncryptField(value, FieldKey(name), Context(Zone, name, f))])
<1> DEFINE new == EncryptField(value, FieldKey(name), Context(Zone, name, f))
<1>1. new = EncryptField(new.value, FieldKey(name), Context(Zone, name, f))
  BY DEF EncryptField
<1> HIDE DEF new
<1>2. Worded(name, [fields EXCEPT ![f] = new])
  BY <1>1 DEF Worded
<1> QED BY <1>2 DEF new

\* One record is put in place of another, or away.
LEMMA PutFits ==
  ASSUME ServerInv, StoreInv, NEW name \in Names, NEW STATE record, Put(name, record),
         record = None \/ (record.wrapped = rolls /\ Worded(name, record.fields)),
         rolls' = rolls
  PROVE  Newer /\ \A other \in Names : (Fit(other, store, rolls, clock))'
<1>1. /\ clock' = clock + 1 /\ clock \in Nat
      /\ store'[name].serial = clock + 1 /\ store'[name].record = record
      /\ \A other \in Names \ {name} : store'[other] = store[other]
  BY DEF Put, ServerInv
<1>2. ASSUME NEW other \in Names PROVE (Fit(other, store, rolls, clock))'
  <2>1. Fit(other, store, rolls, clock) /\ store[other].serial \in Nat
    BY DEF StoreInv, ServerInv, Kept
  <2>2. CASE other = name
    BY <1>1, <2>2 DEF Fit
  <2>3. CASE other # name
    BY <1>1, <2>1, <2>3 DEF Fit
  <2> QED BY <2>2, <2>3
<1>3. Newer
  BY <1>1 DEF Newer
<1> QED BY <1>2, <1>3

\* The fields others change are among those that are changed.
LEMMA ChangingIs ==
  ASSUME NEW name \in Names
  PROVE  Changing(name) \subseteq Changed
BY DEF Changing, Changed

\* All records are wrapped to a new key.
LEMMA RollFits ==
  ASSUME ServerInv, StoreInv, Roll
  PROVE  Newer /\ \A name \in Names : (Fit(name, store, rolls, clock))'
<1>1. Cardinality(Live) \in Nat
  BY LiveCounted
<1>2. \A name \in Live : Earlier(Live, name) \in Nat /\ Earlier(Live, name) < Cardinality(Live)
  BY EarlierBelow
<1> DEFINE serial(name) == clock + 1 + Earlier(Live, name)
<1>3. /\ clock' = clock + Cardinality(Live) /\ clock \in Nat /\ rolls' = rolls + 1
      /\ store' = [name \in Names |->
             IF name \notin Live THEN store[name]
             ELSE [serial |-> serial(name),
                   record |-> Record(name, store[name].record.fields, rolls + 1, serial(name))]]
  BY DEF Roll, ServerInv
<1>4. \A name \in Live : serial(name) \in Nat /\ serial(name) <= clock' /\ serial(name) > clock
  BY <1>1, <1>2, <1>3
<1>5. clock' \in Nat /\ clock <= clock'
  <2> DEFINE n == Cardinality(Live)
  <2>1. clock' = clock + n /\ n \in Nat /\ clock \in Nat
    BY <1>1, <1>3
  <2> HIDE DEF n
  <2> QED BY ONLY <2>1
<1> HIDE DEF serial
<1>6. ASSUME NEW name \in Names
      PROVE  /\ (Fit(name, store, rolls, clock))'
             /\ store'[name] = store[name] \/ store'[name].serial > clock
  <2>1. Fit(name, store, rolls, clock) /\ store[name].serial \in Nat
    BY DEF StoreInv, ServerInv, Kept
  <2>2. CASE name \notin Live
    <3>1. store'[name] = store[name] /\ store[name].record = None
      BY <1>3, <2>2 DEF Live
    <3> QED BY <1>3, <1>5, <2>1, <3>1 DEF Fit
  <2>3. CASE name \in Live
    <3>1. /\ store'[name].serial = serial(name)
          /\ store'[name].record = Record(name, store[name].record.fields, rolls + 1, serial(name))
      BY <1>3, <2>3
    <3>2. /\ store'[name].record.wrapped = rolls'
          /\ store'[name].record.fields = store[name].record.fields
      BY <1>3, <3>1 DEF Record
    <3>3. Worded(name, store[name].record.fields)
      BY <2>1, <2>3 DEF Fit, Live
    <3> QED BY <1>3, <1>4, <2>3, <3>1, <3>2, <3>3 DEF Fit
  <2> QED BY <2>2, <2>3
<1> QED BY <1>5, <1>6 DEF Newer

\* A step of the zone alone.
LEMMA ZoneFits ==
  ASSUME ServerInv, StoreInv, Edit \/ Appear \/ Vanish \/ Roll
  PROVE  Newer /\ StoreInv'
<1>1. /\ changes' \in 0 .. MaxChanges /\ changes' = changes + 1 /\ rolls \in 0 .. changes
      /\ changes \in Nat /\ network' = network
  BY DEF Edit, Appear, Vanish, Roll, Change, Others, StoreInv
<1>2. CASE Edit
  <2>1. PICK name \in Live : \E f \in Changing(name) \cap DOMAIN store[name].record.fields :
          Put(name, Record(name,
            [store[name].record.fields EXCEPT ![f] =
               EncryptField("theirs", FieldKey(name), Context(Zone, name, f))], rolls, clock + 1))
    BY <1>2 DEF Edit
  <2>2. PICK f \in Changing(name) \cap DOMAIN store[name].record.fields :
          Put(name, Record(name,
            [store[name].record.fields EXCEPT ![f] =
               EncryptField("theirs", FieldKey(name), Context(Zone, name, f))], rolls, clock + 1))
    BY <2>1
  <2> DEFINE fields == [store[name].record.fields EXCEPT ![f] =
                          EncryptField("theirs", FieldKey(name), Context(Zone, name, f))]
  <2>3. name \in Names /\ Worded(name, store[name].record.fields)
    BY DEF StoreInv, Fit, Live
  <2>4. Worded(name, fields)
    BY <2>2, <2>3, EncryptedWorded, ChangingIs
  <2>5. Put(name, Record(name, fields, rolls, clock + 1)) /\ rolls' = rolls
    BY <1>2, <2>2 DEF Edit
  <2> HIDE DEF fields
  <2>6. Newer /\ \A other \in Names : (Fit(other, store, rolls, clock))'
    BY <2>3, <2>4, <2>5, PutFits DEF Record
  <2> QED BY <1>1, <2>5, <2>6 DEF StoreInv
<1>3. CASE Appear
  <2>1. PICK name \in Names :
          Put(name, Record(name, Written(name, FirstValues(name)), rolls, clock + 1))
    BY <1>3 DEF Appear
  <2>2. rolls' = rolls
    BY <1>3 DEF Appear
  <2>3. Newer /\ \A other \in Names : (Fit(other, store, rolls, clock))'
    BY <2>1, <2>2, WrittenWorded, PutFits DEF Record
  <2> QED BY <1>1, <2>2, <2>3 DEF StoreInv
<1>4. CASE Vanish
  <2>1. PICK name \in Names : Put(name, None)
    BY <1>4 DEF Vanish, Live
  <2>2. rolls' = rolls
    BY <1>4 DEF Vanish
  <2>3. Newer /\ \A other \in Names : (Fit(other, store, rolls, clock))'
    BY <2>1, <2>2, PutFits
  <2> QED BY <1>1, <2>2, <2>3 DEF StoreInv
<1>5. CASE Roll
  <2>1. rolls' \in 0 .. changes'
    BY <1>1, <1>5 DEF Roll
  <2> QED BY <1>1, <1>5, <2>1, RollFits DEF StoreInv
<1> QED BY <1>2, <1>3, <1>4, <1>5

\* A save that arrives.
LEMMA ServeStored ==
  ASSUME RenameInv, StoreInv, Serve
  PROVE  Newer /\ StoreInv'
<1>1. PICK save \in network :
       /\ network' = network \ {save}
       /\ IF Accepts(save) THEN Put(save.name, Saved(save)) ELSE UNCHANGED <<store, clock>>
  BY DEF Serve
<1>2. /\ UNCHANGED <<rolls, changes>> /\ ServerInv /\ clock \in Nat
      /\ save.given \in {"name", "emoji"}
  BY DEF Serve, RenameInv, ServerInv, StoreInv
<1>3. CASE Accepts(save)
  <2> DEFINE name == save.name
             old == store[name].record
  <2>1. /\ name \in Names /\ old # None
        /\ save.given \in DOMAIN old.fields
        /\ save.fields = Renamed(name, old.fields, save.given)
        /\ Saved(save).wrapped = old.wrapped
        /\ DOMAIN Saved(save).fields = DOMAIN old.fields
        /\ \A f \in DOMAIN old.fields : Saved(save).fields[f] = save.fields[f]
    BY <1>3, SavedAsIntended
  <2>2. old.wrapped = rolls /\ Worded(name, old.fields)
    BY <2>1 DEF StoreInv, Fit
  <2>3. Worded(name, save.fields)
    <3> HIDE DEF name, old
    <3> QED BY <1>2, <2>1, <2>2, EncryptedWorded DEF Renamed, Changed
  <2>4. DOMAIN save.fields = DOMAIN old.fields
    <3> HIDE DEF name, old
    <3> QED BY <2>1 DEF Renamed
  <2>5. Worded(name, Saved(save).fields)
    <3> HIDE DEF name, old
    <3> QED BY <2>1, <2>3, <2>4 DEF Worded
  <2>6. Put(name, Saved(save)) /\ Saved(save).wrapped = rolls
    BY <1>1, <1>3, <2>1, <2>2
  <2>7. Newer /\ \A other \in Names : (Fit(other, store, rolls, clock))'
    <3> HIDE DEF name, old
    <3> QED BY <1>2, <2>1, <2>5, <2>6, PutFits
  <2> QED BY <1>1, <1>2, <2>7 DEF StoreInv
<1>4. CASE ~Accepts(save)
  BY <1>1, <1>2, <1>4 DEF StoreInv, Newer
<1> QED BY <1>3, <1>4

-----------------------------------------------------------------------------
(* What a call has read *)

\* of each record up to this place of the feed, the version the zone has; and
\* nothing of that record after it
Known(upto) ==
  \A name \in Live : store[name].serial <= upto =>
    \E i \in DOMAIN call.fetched :
      /\ call.fetched[i] = store[name].record
      /\ \A j \in RecordsOf(call.fetched) : j > i => call.fetched[j].name # name

\* a version the zone had, of a record that was not removed before the call
WasRead(r) ==
  /\ r.wrapped \in 0 .. MaxChanges /\ Worded(r.name, r.fields)
  /\ store[r.name].record # None \/ store[r.name].serial > call.begun

ReadOnce ==
  \A i, j \in RecordsOf(call.fetched) : call.fetched[i].name = call.fetched[j].name => i = j

ReadUpTo(upto) == \A i \in RecordsOf(call.fetched) : store[call.fetched[i].name].serial <= upto

Asked ==
  /\ pc # "idle" => /\ call.op \in {"records", "list", "rename"}
                    /\ call.op = "rename" => call.given \in {"name", "emoji"}
                    /\ pc = "tag" \/ call.naming # None => call.op = "rename"
  /\ call.begun \in 0 .. clock /\ call.readAt \in 0 .. clock
  /\ call.complete => call.begun <= call.readAt

FeedInv ==
  /\ pc \in {"opening", "keys"} => call.fetched = <<>> /\ call.token = None
  /\ pc = "paging" => Since \in 0 .. clock /\ Known(Since)
  /\ pc \in {"have", "defaults"} /\ call.complete /\ call.readAt = clock => Known(clock)
  /\ \A i \in RecordsOf(call.fetched) : WasRead(call.fetched[i])
  /\ call.begun = clock => ReadOnce /\ (pc = "paging" => ReadUpTo(Since))

KeysInv == Stranger \notin call.keys /\ (zoneKeys # None => Stranger \notin zoneKeys)

\* Nothing that other devices do takes this from what was read.
LEMMA ZoneKeepsFeed ==
  ASSUME RenameInv, StoreInv, Asked, FeedInv, RenameInv', StoreInv', Newer, UNCHANGED <<pc, call>>
  PROVE  Asked' /\ FeedInv'
<1>1. /\ clock \in Nat /\ clock' \in Nat /\ clock <= clock'
      /\ call' = call /\ pc' = pc
      /\ \A name \in Names : store'[name].serial \in Nat
  BY DEF RenameInv, ServerInv, Newer, Kept
<1>2. \A name \in Names : store'[name].serial <= clock => store'[name] = store[name]
  BY <1>1 DEF Newer
<1>3. clock' = clock => \A name \in Names : store'[name] = store[name]
  BY <1>2 DEF StoreInv, Fit
<1>4. Asked'
  BY <1>1 DEF Asked
<1>5. \A i \in RecordsOf(call.fetched) : call.fetched[i].name \in Names
  BY DEF RecordsOf, RenameInv, CallInv, Copy
<1>6. ASSUME NEW upto \in 0 .. clock, Known(upto)
      PROVE  \A name \in Live' : store'[name].serial <= upto =>
               \E i \in DOMAIN call.fetched :
                  /\ call.fetched[i] = store'[name].record
                  /\ \A j \in RecordsOf(call.fetched) : j > i => call.fetched[j].name # name
  <2> SUFFICES ASSUME NEW name \in Live', store'[name].serial <= upto
               PROVE  \E i \in DOMAIN call.fetched :
                        /\ call.fetched[i] = store'[name].record
                        /\ \A j \in RecordsOf(call.fetched) : j > i => call.fetched[j].name # name
    OBVIOUS
  <2>1. name \in Names /\ store'[name].record # None
    BY DEF Live
  <2>2. store'[name].serial \in Int /\ store'[name].serial <= clock
    BY <1>1, <2>1
  <2>3. store'[name] = store[name] /\ name \in Live
    BY <1>2, <2>1, <2>2 DEF Live
  <2> QED BY <1>6, <2>3 DEF Known
<1>7. ASSUME NEW i \in RecordsOf(call.fetched) PROVE WasRead(call.fetched[i])'
  <2> DEFINE r == call.fetched[i]
  <2>1. WasRead(r) /\ r.name \in Names
    BY <1>5 DEF FeedInv
  <2>2. call.begun \in 0 .. clock
    BY DEF Asked
  <2> HIDE DEF r
  <2>3. store'[r.name].record # None \/ store'[r.name].serial > call.begun
    BY <1>1, <2>1, <2>2 DEF WasRead, Newer
  <2>4. call'.fetched[i] = r
    BY <1>1 DEF r
  <2> QED BY <1>1, <2>1, <2>3, <2>4 DEF WasRead, r
<1>8. /\ pc' = "paging" => Since' \in 0 .. clock' /\ Known(Since)'
      /\ pc' \in {"have", "defaults"} /\ call'.complete /\ call'.readAt = clock' => Known(clock)'
  <2>1. Since' = Since
    BY <1>1 DEF Since
  <2>2. ASSUME pc = "paging" PROVE Since \in 0 .. clock /\ Known(Since)'
    <3>1. Since \in 0 .. clock /\ Known(Since)
      BY <2>2 DEF FeedInv
    <3> QED BY <1>1, <1>6, <2>1, <3>1 DEF Known, RecordsOf
  <2>3. ASSUME pc \in {"have", "defaults"}, call.complete, call.readAt = clock' PROVE Known(clock)'
    <3>1. clock' = clock /\ clock \in 0 .. clock
      BY <1>1, <2>3 DEF Asked
    <3>2. Known(clock)
      BY <2>3, <3>1 DEF FeedInv
    <3> QED BY <1>1, <1>6, <3>1, <3>2 DEF Known, RecordsOf
  <2> QED BY <1>1, <2>1, <2>2, <2>3
<1>9. ASSUME call.begun = clock' PROVE ReadOnce' /\ (pc' = "paging" => ReadUpTo(Since)')
  <2>1. clock' = clock /\ call.begun = clock
    BY <1>1, <1>9 DEF Asked
  <2>2. ReadOnce /\ (pc = "paging" => ReadUpTo(Since))
    BY <2>1 DEF FeedInv
  <2>3. ReadOnce'
    BY <1>1, <2>2 DEF ReadOnce, RecordsOf
  <2>4. Since' = Since /\ RecordsOf(call'.fetched) = RecordsOf(call.fetched)
    BY <1>1 DEF Since
  <2>5. pc' = "paging" => ReadUpTo(Since)'
    BY <1>1, <1>3, <1>5, <2>1, <2>2, <2>4 DEF ReadUpTo
  <2> QED BY <2>3, <2>5
<1>10. \A i \in RecordsOf(call'.fetched) : WasRead(call.fetched[i])'
  BY <1>1, <1>7
<1>11. pc' \in {"opening", "keys"} => call'.fetched = <<>> /\ call'.token = None
  BY <1>1 DEF FeedInv
<1>12. FeedInv'
  BY <1>1, <1>8, <1>9, <1>10, <1>11 DEF FeedInv
<1> QED BY <1>4, <1>12

\* A call that has read nothing has all of nothing.
LEMMA EmptyFeed ==
  ASSUME ServerInv', StoreInv', call'.fetched = <<>>, pc' \notin {"have", "defaults"},
         pc' \in {"opening", "keys", "paging"} => call'.token = None
  PROVE  FeedInv'
<1>1. RecordsOf(call'.fetched) = {}
  BY DEF RecordsOf
<1>2. ASSUME pc' = "paging" PROVE Since' \in 0 .. clock' /\ Known(Since)' /\ ReadUpTo(Since)'
  <2>1. Since' = 0
    BY <1>2 DEF Since
  <2>2. \A name \in Live' : ~(store'[name].serial <= 0)
    BY DEF Live, ServerInv, Kept, StoreInv, Fit
  <2> QED BY <1>1, <2>1, <2>2 DEF Known, ReadUpTo, ServerInv
<1> QED BY <1>1, <1>2 DEF FeedInv, ReadOnce

\* What was read stays what it is.
LEMMA SameFeed ==
  ASSUME FeedInv, UNCHANGED <<store, clock, call>>,
         pc' = pc \/ pc' \notin {"opening", "keys", "paging", "have", "defaults"}
  PROVE  FeedInv'
BY DEF FeedInv, Known, WasRead, ReadOnce, ReadUpTo, Since, Live, RecordsOf

\* Where the elements of two sequences are in one after the other.
LEMMA Appended ==
  ASSUME NEW old, old \in Seq(Range(old)), NEW n \in Nat, NEW new,
         DOMAIN new = 1 .. n, new = [i \in 1 .. n |-> new[i]]
  PROVE  /\ Len(old) \in Nat /\ DOMAIN old = 1 .. Len(old)
         /\ DOMAIN (old \o new) = 1 .. Len(old) + n
         /\ \A i \in 1 .. Len(old) + n :
              (old \o new)[i] = IF i <= Len(old) THEN old[i] ELSE new[i - Len(old)]
<1>1. new \in Seq(Range(new)) /\ Len(new) = n
  <2>1. \A i \in 1 .. n : new[i] \in Range(new)
    BY DEF Range
  <2>2. PICK S : S = Range(new)
    OBVIOUS
  <2>3. new \in [1 .. n -> S]
    BY <2>1, <2>2
  <2>4. new \in Seq(S) /\ Len(new) = n
    BY <2>3
  <2> QED BY <2>2, <2>4
<1>2. Len(old) \in Nat /\ DOMAIN old = 1 .. Len(old)
  OBVIOUS
<1>3. old \in Seq(Range(old) \cup Range(new)) /\ new \in Seq(Range(old) \cup Range(new))
  BY <1>1, <1>2 DEF Range
<1> QED BY <1>1, <1>2, <1>3

\* A page brings every change up to its last, each record once, and the last
\* page all there is.
LEMMA PageKeepsFeed ==
  ASSUME RenameInv, StoreInv, Asked, FeedInv, Page
  PROVE  Asked' /\ FeedInv'
<1>1. PICK n \in 0 .. PageSize, complete \in BOOLEAN, named \in BOOLEAN, nth \in {0, 1} :
      \E page \in Oldest(n) :
       LET token == IF ~named THEN None
                    ELSE Token(IF n = 0 THEN Since ELSE store[page[n]].serial, nth)
       IN /\ complete => Range(page) = Pending
          /\ n > 0 => nth = 0
          /\ call' = [call EXCEPT !.fetched = @ \o [i \in 1 .. n |-> FromProto(page[i])],
                        !.complete = complete,
                        !.token = IF Ends(page, complete, token) THEN None ELSE token,
                        !.pages = IF Ends(page, complete, token) THEN 0 ELSE Counted(page),
                        !.readAt = clock]
          /\ pc' = IF ~Ends(page, complete, token) THEN "paging"
                   ELSE IF call.op = "records" THEN "have" ELSE "defaults"
  BY DEF Page
<1>2. PICK page \in Oldest(n) :
       LET token == IF ~named THEN None
                    ELSE Token(IF n = 0 THEN Since ELSE store[page[n]].serial, nth)
       IN /\ complete => Range(page) = Pending
          /\ n > 0 => nth = 0
          /\ call' = [call EXCEPT !.fetched = @ \o [i \in 1 .. n |-> FromProto(page[i])],
                        !.complete = complete,
                        !.token = IF Ends(page, complete, token) THEN None ELSE token,
                        !.pages = IF Ends(page, complete, token) THEN 0 ELSE Counted(page),
                        !.readAt = clock]
          /\ pc' = IF ~Ends(page, complete, token) THEN "paging"
                   ELSE IF call.op = "records" THEN "have" ELSE "defaults"
  BY <1>1
<1> DEFINE old == call.fetched
           new == [i \in 1 .. n |-> FromProto(page[i])]
           both == old \o new
           upto == IF complete THEN clock ELSE IF n = 0 THEN Since ELSE store[page[n]].serial
<1>3. /\ DOMAIN call = Fields /\ old \in Seq(Range(old)) /\ pc = "paging"
      /\ Since \in 0 .. clock /\ Known(Since) /\ clock \in Nat
      /\ \A name \in Names : store[name].serial \in Nat /\ store[name].serial <= clock
  BY DEF RenameInv, ServerInv, CallInv, FeedInv, Page, StoreInv, Fit, Kept
<1>4. /\ call'.fetched = both /\ call'.complete = complete /\ call'.readAt = clock
      /\ call'.op = call.op /\ call'.given = call.given /\ call'.naming = call.naming
      /\ call'.begun = call.begun /\ DOMAIN call' = Fields
  BY <1>2, <1>3 DEF Fields
<1>5. UNCHANGED <<store, clock>>
  BY DEF Page, Keep, server
<1>6. /\ n \in Nat /\ page \in [1 .. n -> Pending] /\ Pending \subseteq Names
      /\ \A i, j \in 1 .. n : i < j => store[page[i]].serial < store[page[j]].serial
      /\ \A name \in Pending \ Range(page), i \in 1 .. n :
           store[page[i]].serial < store[name].serial
  BY <1>1, <1>2 DEF Oldest, Pending
<1>7. /\ pc' \in {"paging", "have", "defaults"}
      /\ pc' = "paging" => Since' = upto /\ ~complete
      /\ pc' # "paging" /\ complete => upto = clock
  <2> DEFINE token == IF ~named THEN None
                      ELSE Token(IF n = 0 THEN Since ELSE store[page[n]].serial, nth)
             ends == Ends(page, complete, token)
  <2>1. /\ call'.token = IF ends THEN None ELSE token
        /\ pc' = IF ~ends THEN "paging" ELSE IF call.op = "records" THEN "have" ELSE "defaults"
    BY <1>2, <1>3 DEF Fields
  <2>2. ASSUME ~ends
        PROVE  ~complete /\ call'.token = token /\ token # None
    BY <2>1, <2>2 DEF Ends
  <2>3. ASSUME ~ends PROVE Since' = upto
    <3>1. named /\ token = Token(IF n = 0 THEN Since ELSE store[page[n]].serial, nth)
      BY <2>2, <2>3
    <3>2. token.serial = upto
      <4> HIDE DEF token, ends
      <4> QED BY <2>2, <2>3, <3>1 DEF Token
    <3> HIDE DEF token, ends, upto
    <3> QED BY <2>2, <2>3, <3>2 DEF Since
  <2> HIDE DEF token, ends
  <2> QED BY <2>1, <2>2, <2>3
<1>8. \A k \in 1 .. n : /\ page[k] \in Names /\ store[page[k]].serial > Since
                        /\ store[page[k]].serial <= upto
  <2> SUFFICES ASSUME NEW k \in 1 .. n
               PROVE  /\ page[k] \in Names /\ store[page[k]].serial > Since
                      /\ store[page[k]].serial <= upto
    OBVIOUS
  <2>1. page[k] \in Names /\ store[page[k]].serial > Since
    BY <1>6 DEF Pending
  <2>2. n \in 1 .. n /\ (k = n \/ k < n) /\ n # 0
    BY <1>6
  <2>3. page[n] \in Names /\ store[page[k]].serial <= store[page[n]].serial
    BY <1>3, <1>6, <2>1, <2>2
  <2> QED BY <1>3, <2>1, <2>2, <2>3
<1>9. \A name \in Names : store[name].serial > Since /\ store[name].serial <= upto
                            => \E k \in 1 .. n : page[k] = name
  <2> SUFFICES ASSUME NEW name \in Names, store[name].serial > Since, store[name].serial <= upto
               PROVE  name \in Range(page)
    BY <1>6 DEF Range
  <2>1. name \in Pending
    BY DEF Pending
  <2>2. CASE complete
    BY <1>2, <2>1, <2>2
  <2>3. CASE ~complete
    <3>1. n # 0 /\ n \in 1 .. n /\ upto = store[page[n]].serial
      BY <1>3, <1>6, <2>3
    <3>2. page[n] \in Names /\ ~(store[page[n]].serial < store[name].serial)
      BY <1>3, <1>8, <3>1
    <3> QED BY <1>6, <2>1, <3>1, <3>2
  <2> QED BY <2>2, <2>3
<1>10. \A k \in 1 .. n :
         /\ new[k] = store[page[k]].record
         /\ new[k] # None => new[k].name = page[k] /\ WasRead(new[k])
  <2> SUFFICES ASSUME NEW k \in 1 .. n
               PROVE  /\ new[k] = store[page[k]].record
                      /\ new[k] # None => new[k].name = page[k] /\ WasRead(new[k])
    OBVIOUS
  <2>1. page[k] \in Names /\ new[k] = store[page[k]].record
    BY <1>8 DEF FromProto
  <2>2. /\ Kept(page[k], store, clock) /\ Fit(page[k], store, rolls, clock)
        /\ rolls \in 0 .. MaxChanges
    BY <2>1 DEF RenameInv, ServerInv, StoreInv
  <2> HIDE DEF new
  <2> QED BY <2>1, <2>2 DEF Kept, Fit, WasRead
<1>11. /\ Len(old) \in Nat /\ DOMAIN old = 1 .. Len(old) /\ DOMAIN both = 1 .. Len(old) + n
       /\ \A i \in 1 .. Len(old) + n :
            both[i] = IF i <= Len(old) THEN old[i] ELSE new[i - Len(old)]
  <2>1. DOMAIN new = 1 .. n /\ new = [i \in 1 .. n |-> new[i]]
    OBVIOUS
  <2> HIDE DEF old, new
  <2> QED BY <1>3, <1>6, <2>1, Appended
<1> HIDE DEF new, both
\* of the records read, those that were there and those the page brought
<1>12. ASSUME NEW i \in RecordsOf(both)
       PROVE  \/ /\ i \in RecordsOf(old) /\ both[i] = old[i] /\ i <= Len(old)
              \/ /\ i - Len(old) \in 1 .. n /\ both[i] = new[i - Len(old)] /\ ~(i <= Len(old))
                 /\ both[i].name = page[i - Len(old)] /\ WasRead(both[i])
  <2>1. i \in 1 .. Len(old) + n /\ both[i] # None
    BY <1>11 DEF RecordsOf
  <2>2. CASE i <= Len(old)
    <3> HIDE DEF old
    <3> QED BY <1>11, <2>1, <2>2 DEF RecordsOf
  <2>3. CASE ~(i <= Len(old))
    <3>1. i - Len(old) \in 1 .. n
      <4> HIDE DEF old
      <4> QED BY <1>6, <1>11, <2>1, <2>3
    <3> HIDE DEF old
    <3> QED BY <1>10, <1>11, <2>1, <2>3, <3>1
  <2> QED BY <2>2, <2>3
<1>13. \A i \in RecordsOf(old) : old[i].name \in Names
  BY DEF RecordsOf, RenameInv, CallInv, Copy
<1> HIDE DEF upto
<1>14. Since <= upto /\ upto <= clock /\ upto \in Nat
  <2>1. n # 0 => n \in 1 .. n /\ page[n] \in Names /\ store[page[n]].serial > Since
    BY <1>6, <1>8
  <2> QED BY <1>3, <2>1 DEF upto
<1>15. ASSUME NEW name \in Live, store[name].serial <= upto
       PROVE  \E i \in DOMAIN both :
                /\ both[i] = store[name].record
                /\ \A j \in RecordsOf(both) : j > i => both[j].name # name
  <2>1. name \in Names /\ store[name].record # None
    BY DEF Live
  <2>2. CASE store[name].serial <= Since
    <3>1. PICK i \in DOMAIN old :
            /\ old[i] = store[name].record
            /\ \A j \in RecordsOf(old) : j > i => old[j].name # name
      BY <1>3, <2>2 DEF Known
    <3>2. i \in DOMAIN both /\ both[i] = old[i]
      <4> HIDE DEF old
      <4> QED BY <1>6, <1>11
    <3>3. ASSUME NEW j \in RecordsOf(both), j > i PROVE both[j].name # name
      <4>1. CASE j \in RecordsOf(old) /\ both[j] = old[j]
        BY <3>1, <3>3, <4>1
      <4>2. CASE j - Len(old) \in 1 .. n /\ both[j].name = page[j - Len(old)]
        BY <1>3, <1>8, <2>1, <2>2, <4>2
      <4> QED BY <1>12, <4>1, <4>2
    <3> QED BY <3>1, <3>2, <3>3
  <2>3. CASE ~(store[name].serial <= Since)
    <3>1. PICK k \in 1 .. n : page[k] = name
      BY <1>3, <1>9, <1>15, <2>1, <2>3
    <3>2. Len(old) + k \in DOMAIN both /\ both[Len(old) + k] = new[k]
      <4> HIDE DEF old
      <4> QED BY <1>6, <1>11
    <3>3. ASSUME NEW j \in RecordsOf(both), j > Len(old) + k PROVE both[j].name # name
      <4>1. j - Len(old) \in 1 .. n /\ both[j].name = page[j - Len(old)]
        <5> HIDE DEF old
        <5>1. j \in Nat
          BY <1>6, <1>11 DEF RecordsOf
        <5>2. ~(j <= Len(old))
          BY <1>11, <3>3, <5>1
        <5> QED BY <1>12, <5>2
      <4>2. k < j - Len(old)
        <5> HIDE DEF old
        <5>1. j \in Nat
          BY <1>6, <1>11 DEF RecordsOf
        <5> QED BY <1>11, <3>3, <5>1
      <4>3. store[page[k]].serial < store[page[j - Len(old)]].serial
        BY <1>6, <4>1, <4>2
      <4> QED BY <1>3, <2>1, <3>1, <4>1, <4>3
    <3> QED BY <1>10, <3>1, <3>2, <3>3
  <2> QED BY <2>2, <2>3
<1>16. ASSUME NEW i \in RecordsOf(both)
       PROVE  WasRead(both[i]) /\ both[i].name \in Names
  <2>1. CASE i \in RecordsOf(old) /\ both[i] = old[i]
    BY <1>13, <2>1 DEF FeedInv
  <2>2. CASE /\ i - Len(old) \in 1 .. n /\ both[i].name = page[i - Len(old)] /\ WasRead(both[i])
    BY <1>8, <2>2
  <2> QED BY <1>12, <2>1, <2>2
<1>17. ASSUME call.begun = clock
       PROVE  /\ \A i, j \in RecordsOf(both) : both[i].name = both[j].name => i = j
              /\ \A i \in RecordsOf(both) : store[both[i].name].serial <= upto
  <2>1. /\ \A i, j \in RecordsOf(old) : old[i].name = old[j].name => i = j
        /\ \A i \in RecordsOf(old) : store[old[i].name].serial <= Since
    BY <1>3, <1>17 DEF FeedInv, ReadOnce, ReadUpTo
  <2>2. \A i \in RecordsOf(both) : i \in Nat
    BY <1>6, <1>11 DEF RecordsOf
  <2>3. ASSUME NEW i \in RecordsOf(both), NEW j \in RecordsOf(both), i < j
        PROVE  both[i].name # both[j].name
    <3>1. CASE j <= Len(old)
      <4>1. ~(i - Len(old) \in 1 .. n) /\ j \in RecordsOf(old) /\ both[j] = old[j]
        BY <1>6, <1>11, <1>12, <2>2, <2>3, <3>1
      <4> QED BY <1>12, <2>1, <2>2, <2>3, <4>1
    <3>2. CASE ~(j <= Len(old))
      <4>1. j - Len(old) \in 1 .. n /\ both[j].name = page[j - Len(old)]
        BY <1>12, <3>2
      <4>2. CASE i \in RecordsOf(old) /\ both[i] = old[i]
        <5>1. store[both[i].name].serial <= Since /\ both[i].name \in Names
          BY <1>13, <2>1, <4>2
        <5> QED BY <1>3, <1>8, <4>1, <5>1
      <4>3. CASE i - Len(old) \in 1 .. n /\ both[i].name = page[i - Len(old)]
        <5>1. i - Len(old) < j - Len(old)
          BY <1>11, <2>2, <2>3
        <5>2. store[page[i - Len(old)]].serial < store[page[j - Len(old)]].serial
          BY <1>6, <4>1, <4>3, <5>1
        <5> QED BY <1>3, <1>8, <4>1, <4>3, <5>2
      <4> QED BY <1>12, <4>2, <4>3
    <3> QED BY <3>1, <3>2
  <2>4. ASSUME NEW i \in RecordsOf(both), NEW j \in RecordsOf(both), both[i].name = both[j].name
        PROVE  i = j
    BY <2>2, <2>3, <2>4
  <2>5. ASSUME NEW i \in RecordsOf(both) PROVE store[both[i].name].serial <= upto
    <3>1. CASE i \in RecordsOf(old) /\ both[i] = old[i]
      BY <1>3, <1>13, <1>14, <2>1, <3>1
    <3>2. CASE i - Len(old) \in 1 .. n /\ both[i].name = page[i - Len(old)]
      BY <1>8, <3>2
    <3> QED BY <1>12, <3>1, <3>2
  <2> QED BY <2>4, <2>5
<1>18. Live' = Live
  BY <1>5 DEF Live
\* a constant, for the next state
<1>19. PICK place \in 0 .. clock : place = upto
  BY <1>14
<1>20. Known(place)'
  <2>1. \A name \in Live : store[name].serial <= place =>
          \E i \in DOMAIN both :
                /\ both[i] = store[name].record
                /\ \A j \in RecordsOf(both) : j > i => both[j].name # name
    BY <1>15, <1>19
  <2> QED BY <1>4, <1>5, <1>18, <2>1 DEF Known
<1>21. Asked'
  BY <1>3, <1>4, <1>5, <1>7 DEF Asked
<1>22. /\ pc' = "paging" => Since' \in 0 .. clock' /\ Known(Since)'
       /\ pc' \in {"have", "defaults"} /\ call'.complete /\ call'.readAt = clock' => Known(clock)'
  <2>1. pc' = "paging" => Since' = place
    BY <1>7, <1>19
  <2>2. pc' # "paging" /\ call'.complete => clock' = place
    BY <1>4, <1>5, <1>7, <1>19
  <2>3. Since' = place => Known(Since)'
    BY <1>20 DEF Known
  <2>4. clock' = place => Known(clock)'
    BY <1>20 DEF Known
  <2> QED BY <1>5, <2>1, <2>2, <2>3, <2>4
<1>23. \A i \in RecordsOf(call'.fetched) : WasRead(call.fetched[i])'
  BY <1>4, <1>5, <1>16 DEF WasRead
<1>24. ASSUME call'.begun = clock' PROVE ReadOnce' /\ (pc' = "paging" => ReadUpTo(Since)')
  <2>1. call.begun = clock
    BY <1>4, <1>5, <1>24
  <2>2. ReadOnce'
    BY <1>4, <1>17, <2>1 DEF ReadOnce
  <2>3. ReadUpTo(place)'
    BY <1>4, <1>5, <1>17, <1>19, <2>1 DEF ReadUpTo
  <2>4. pc' = "paging" => ReadUpTo(Since)'
    BY <1>7, <1>19, <2>3 DEF ReadUpTo
  <2> QED BY <2>2, <2>4
<1>25. FeedInv'
  BY <1>7, <1>22, <1>23, <1>24 DEF FeedInv
<1> QED BY <1>21, <1>25

-----------------------------------------------------------------------------
(* The invariant of what is read *)

ReadInv == RenameInv /\ StoreInv /\ KeysInv /\ Asked /\ FeedInv

LEMMA ReadInvAtFirst == Init => ReadInv
<1> SUFFICES ASSUME Init PROVE ReadInv
  OBVIOUS
<1>1. PICK absent \in Absences :
        LET serial == Numbered(Names \ absent)
        IN /\ clock = Cardinality(Names \ absent)
           /\ store = [name \in Names |->
                IF name \in absent THEN [serial |-> 0, record |-> None]
                ELSE [serial |-> serial[name],
                      record |-> Record(name, Written(name, FirstValues(name)), 0, serial[name])]]
  BY DEF Init
<1> DEFINE names == Names \ absent
           serial == Numbered(names)
<1>2. IsFiniteSet(names) /\ Cardinality(names) \in Nat
  BY FS_Subset, FS_CardinalityType
<1>3. serial \in [names -> 1 .. Cardinality(names)]
  BY <1>2, NumberedIs
<1> HIDE DEF serial
<1>4. store = [name \in Names |->
                IF name \in absent THEN [serial |-> 0, record |-> None]
                ELSE [serial |-> serial[name],
                      record |-> Record(name, Written(name, FirstValues(name)), 0, serial[name])]]
  BY <1>1 DEF serial
<1>5. clock = Cardinality(names) /\ rolls = 0 /\ changes = 0 /\ network = {}
  BY <1>1 DEF Init
<1>6. ASSUME NEW name \in Names PROVE Fit(name, store, rolls, clock)
  <2>1. CASE name \in absent
    BY <1>2, <1>4, <1>5, <2>1 DEF Fit
  <2>2. CASE name \notin absent
    <3>1. serial[name] \in Nat /\ serial[name] > 0 /\ serial[name] <= clock
      <4>1. name \in names /\ serial[name] \in 1 .. Cardinality(names)
        BY <1>3, <2>2
      <4> HIDE DEF names
      <4> QED BY <1>2, <1>5, <4>1
    <3>2. /\ store[name].serial = serial[name]
          /\ store[name].record = Record(name, Written(name, FirstValues(name)), 0, serial[name])
      BY <1>4, <2>2
    <3> QED BY <1>5, <3>1, <3>2, WrittenWorded DEF Fit, Record
  <2> QED BY <2>1, <2>2
<1>7. StoreInv
  <2>1. changes \in 0 .. MaxChanges /\ rolls \in 0 .. changes
    BY <1>5
  <2>2. \A save \in network : save.given \in {"name", "emoji"}
    BY <1>5
  <2> QED BY <1>6, <2>1, <2>2 DEF StoreInv
<1>8. call = Nothing /\ pc = "idle" /\ zoneKeys = None /\ clock \in Nat
  BY <1>2, <1>5 DEF Init
<1>9. KeysInv /\ Asked
  BY <1>8 DEF KeysInv, Asked, Nothing
<1>10. FeedInv
  BY <1>8 DEF FeedInv, Nothing, RecordsOf, ReadOnce
<1> QED BY <1>7, <1>9, <1>10, RenameInvAtFirst DEF ReadInv

\* A call that is over has read nothing.
LEMMA DoneReads ==
  ASSUME RenameInv', StoreInv', KeysInv, Done, zoneKeys' \in {None, zoneKeys}
  PROVE  ReadInv'
<1>1. /\ call'.fetched = <<>> /\ call'.keys = {} /\ call'.begun = 0 /\ call'.readAt = 0
      /\ call'.complete = FALSE /\ call'.token = None /\ pc' = "idle"
  BY DEF Done, Nothing
<1>2. clock' \in Nat /\ ServerInv'
  BY DEF RenameInv, ServerInv
<1>3. FeedInv'
  BY <1>1, <1>2, EmptyFeed
<1>4. Asked' /\ KeysInv'
  BY <1>1, <1>2 DEF Asked, KeysInv
<1> QED BY <1>3, <1>4 DEF ReadInv

\* A call that begins has read nothing yet.
LEMMA BeginReads ==
  ASSUME ReadInv, RenameInv', NEW STATE c, Begin(c), DOMAIN c = Fields,
         c.op \in {"records", "list", "rename"}, c.op = "rename" => c.given \in {"name", "emoji"},
         c.op # "rename" => c.naming = None, c.begun = clock, c.fetched = <<>>,
         c.token = None, c.complete = FALSE, c.readAt = 0
  PROVE  ReadInv'
<1>1. /\ UNCHANGED <<store, clock, rolls, changes, network, zoneKeys>>
      /\ call' = [c EXCEPT !.keys = IF c.op = "rename" /\ zoneKeys # None THEN zoneKeys ELSE {}]
      /\ pc' = IF opened THEN Start(c) ELSE "opening"
  BY DEF Begin, server, kept
<1>2. /\ call'.op = c.op /\ call'.given = c.given /\ call'.naming = c.naming
      /\ call'.begun = clock /\ call'.fetched = <<>> /\ call'.token = None
      /\ call'.complete = FALSE /\ call'.readAt = 0
      /\ call'.keys = IF c.op = "rename" /\ zoneKeys # None THEN zoneKeys ELSE {}
  BY <1>1 DEF Fields
<1>3. pc' \in {"opening", "keys", "paging", "tag"} /\ (pc' = "tag" => c.op = "rename")
  BY <1>1 DEF Start
<1>4. clock \in Nat /\ ServerInv' /\ clock' = clock
  BY <1>1 DEF ReadInv, RenameInv, ServerInv
<1>5. StoreInv'
  BY <1>1 DEF ReadInv, StoreInv
<1>6. FeedInv'
  BY <1>2, <1>3, <1>4, <1>5, EmptyFeed
<1>7. Asked'
  BY <1>2, <1>3, <1>4 DEF Asked
<1>8. KeysInv'
  BY <1>1, <1>2 DEF KeysInv, ReadInv
<1> QED BY <1>5, <1>6, <1>7, <1>8 DEF ReadInv

\* Every step keeps it.
LEMMA ReadInvStays == ReadInv /\ [Next]_vars => ReadInv'
<1> SUFFICES ASSUME ReadInv, [Next]_vars PROVE ReadInv'
  OBVIOUS
<1>0. /\ RenameInv /\ StoreInv /\ KeysInv /\ Asked /\ FeedInv
      /\ clock \in Nat /\ DOMAIN call = Fields
  BY DEF ReadInv, RenameInv, ServerInv, CallInv
<1>r. RenameInv'
  BY <1>0, RenameInvStays
<1>s. RenameInv' => ServerInv'
  BY DEF RenameInv
\* the zone as it was
<1>z. ASSUME UNCHANGED <<store, clock, rolls, changes>>, network' \subseteq network PROVE StoreInv'
  BY <1>0, <1>z DEF StoreInv
<1>1. CASE Edit \/ Appear \/ Vanish \/ Roll
  <2>1. Newer /\ StoreInv'
    BY <1>0, <1>1, ZoneFits DEF RenameInv
  <2>2. UNCHANGED <<pc, call, zoneKeys>>
    BY <1>1 DEF Edit, Appear, Vanish, Roll, Change, Others, kept
  <2>3. Asked' /\ FeedInv'
    BY <1>0, <1>r, <2>1, <2>2, ZoneKeepsFeed
  <2> QED BY <1>0, <1>r, <2>1, <2>2, <2>3 DEF ReadInv, KeysInv
<1>2. CASE UseKeys \/ UNCHANGED vars
  <2>1. /\ UNCHANGED <<store, clock, rolls, changes, network, pc, call>>
        /\ zoneKeys' \in {None, zoneKeys}
    BY <1>2 DEF UseKeys, server, kept, vars
  <2>2. StoreInv'
    BY <1>z, <2>1
  <2>3. FeedInv'
    BY <1>0, <2>1, SameFeed
  <2> QED BY <1>0, <1>r, <2>1, <2>2, <2>3 DEF ReadInv, KeysInv, Asked
<1>3. CASE Read
  <2>1. PICK op \in {"records", "list"} : Begin([Nothing EXCEPT !.op = op, !.begun = clock])
    BY <1>3 DEF Read
  <2> DEFINE c == [Nothing EXCEPT !.op = op, !.begun = clock]
  <2>2. /\ DOMAIN c = Fields /\ c.fetched = <<>> /\ c.naming = None /\ c.op = op /\ c.begun = clock
        /\ c.token = None /\ c.complete = FALSE /\ c.readAt = 0
    BY DEF Nothing, Fields
  <2>3. Begin(c)
    BY <2>1
  <2> HIDE DEF c
  <2> QED BY <1>r, <2>2, <2>3, BeginReads
<1>4. CASE Rename
  <2> DEFINE asked(f) == [Nothing EXCEPT !.op = "rename", !.begun = clock, !.given = f]
  <2>1. PICK field \in {"name", "emoji"} :
          \/ \E id \in Beacons : Begin([asked(field) EXCEPT !.target = id])
          \/ held # None /\ Begin([asked(field) EXCEPT !.naming = held])
    BY <1>4 DEF Rename
  <2>2. ASSUME NEW id \in Beacons, Begin([asked(field) EXCEPT !.target = id]) PROVE ReadInv'
    <3> DEFINE c == [asked(field) EXCEPT !.target = id]
    <3>1. /\ DOMAIN c = Fields /\ c.fetched = <<>> /\ c.op = "rename" /\ c.given = field
          /\ c.begun = clock /\ c.token = None /\ c.complete = FALSE /\ c.readAt = 0
      BY DEF Nothing, Fields
    <3>2. Begin(c)
      BY <2>2
    <3> HIDE DEF c
    <3> QED BY <1>r, <3>1, <3>2, BeginReads
  <2>3. CASE held # None /\ Begin([asked(field) EXCEPT !.naming = held])
    <3> DEFINE c == [asked(field) EXCEPT !.naming = held]
    <3>1. /\ DOMAIN c = Fields /\ c.fetched = <<>> /\ c.op = "rename" /\ c.given = field
          /\ c.begun = clock /\ c.token = None /\ c.complete = FALSE /\ c.readAt = 0
      BY DEF Nothing, Fields
    <3>2. Begin(c)
      BY <2>3
    <3> HIDE DEF c
    <3> QED BY <1>r, <3>1, <3>2, BeginReads
  <2> QED BY <2>1, <2>2, <2>3
<1>5. CASE Fail \/ Return \/ List
  <2>1. /\ UNCHANGED <<store, clock, rolls, changes, network, zoneKeys>> /\ Done
    BY <1>5 DEF Fail, Return, List, Keep, server, kept
  <2>2. StoreInv'
    BY <1>z, <2>1
  <2> QED BY <1>0, <1>r, <2>1, <2>2, DoneReads
<1>6. CASE Open
  <2>1. /\ UNCHANGED <<store, clock, rolls, changes, network, call, zoneKeys>>
        /\ pc = "opening" /\ pc' = Start(call)
    BY <1>6 DEF Open, Keep, server
  <2>2. /\ pc' \in {"keys", "paging", "tag"} /\ (pc' = "tag" => call.op = "rename")
        /\ call.fetched = <<>> /\ call.token = None
    BY <1>0, <2>1 DEF Start, Asked, FeedInv
  <2>3. StoreInv'
    BY <1>z, <2>1
  <2>4. FeedInv'
    <3>1. call'.fetched = <<>> /\ call'.token = None
      BY <2>1, <2>2
    <3> QED BY <1>r, <1>s, <2>2, <2>3, <3>1, EmptyFeed
  <2>5. Asked' /\ KeysInv'
    BY <1>0, <2>1, <2>2 DEF Asked, KeysInv
  <2> QED BY <1>r, <2>3, <2>4, <2>5 DEF ReadInv
<1>7. CASE ReadZone
  <2> DEFINE keys == UnwrapZone(ZoneProtection(rolls), keychain)
  <2>1. /\ UNCHANGED <<store, clock, rolls, changes, network>> /\ pc = "keys"
        /\ IF keys = {} THEN Done /\ UNCHANGED zoneKeys
           ELSE /\ call' = [call EXCEPT !.keys = keys]
                /\ pc' = IF call.naming # None THEN "tag" ELSE "paging"
                /\ zoneKeys' = IF call.op = "rename" THEN keys ELSE zoneKeys
    BY <1>7 DEF ReadZone, Keep, server
  <2>2. Stranger \notin keys
    BY ZoneKeysOurs
  <2> HIDE DEF keys
  <2>3. StoreInv'
    BY <1>z, <2>1
  <2>4. CASE keys = {}
    BY <1>0, <1>r, <2>1, <2>3, <2>4, DoneReads
  <2>5. CASE keys # {}
    <3>1. /\ call'.keys = keys /\ zoneKeys' \in {keys, zoneKeys}
          /\ UNCHANGED <<call.op, call.given, call.naming, call.begun, call.readAt,
                         call.complete, call.fetched, call.token>>
          /\ pc' = IF call.naming # None THEN "tag" ELSE "paging"
      BY <1>0, <2>1, <2>5 DEF Fields
    <3>2. call'.fetched = <<>> /\ call'.token = None
      BY <1>0, <2>1, <3>1 DEF FeedInv
    <3>3. FeedInv'
      BY <1>r, <1>s, <2>3, <3>1, <3>2, EmptyFeed
    <3>4. Asked' /\ KeysInv'
      BY <1>0, <2>1, <2>2, <3>1 DEF Asked, KeysInv
    <3> QED BY <1>r, <2>3, <3>3, <3>4 DEF ReadInv
  <2> QED BY <2>4, <2>5
<1>8. CASE Page
  <2>1. Asked' /\ FeedInv'
    BY <1>0, <1>8, PageKeepsFeed
  <2>2. UNCHANGED <<store, clock, rolls, changes, network, zoneKeys>>
    BY <1>8 DEF Page, Keep, server, kept
  <2>3. call'.keys = call.keys
    BY <1>0, <1>8 DEF Page, Fields
  <2>4. StoreInv'
    BY <1>z, <2>2
  <2> QED BY <1>0, <1>r, <2>1, <2>2, <2>3, <2>4 DEF ReadInv, KeysInv
<1>9. CASE Find
  <2>1. /\ UNCHANGED <<store, clock, rolls, changes, network, zoneKeys>>
        /\ pc = "defaults" /\ call.op = "rename"
    BY <1>9 DEF Find, Decrypt, Keep, server, kept
  <2>2. StoreInv'
    BY <1>z, <2>1
  <2>3. PICK naming : \/ Done
                      \/ /\ call' = [call EXCEPT !.fetched = <<>>, !.naming = naming]
                         /\ pc' = "tag"
    BY <1>9 DEF Find
  <2>4. CASE Done
    BY <1>0, <1>r, <2>1, <2>2, <2>4, DoneReads
  <2>5. CASE /\ call' = [call EXCEPT !.fetched = <<>>, !.naming = naming]
             /\ pc' = "tag"
    <3>1. /\ UNCHANGED <<call.op, call.given, call.begun, call.readAt, call.complete, call.keys>>
          /\ call'.fetched = <<>>
      BY <1>0, <2>5 DEF Fields
    <3>2. FeedInv'
      BY <1>r, <1>s, <2>2, <2>5, <3>1, EmptyFeed
    <3>3. Asked' /\ KeysInv'
      BY <1>0, <2>1, <2>5, <3>1 DEF Asked, KeysInv
    <3> QED BY <1>r, <2>2, <3>2, <3>3 DEF ReadInv
  <2> QED BY <2>3, <2>4, <2>5
<1>10. CASE Send
  <2>1. /\ UNCHANGED <<store, clock, rolls, changes, zoneKeys>> /\ pc = "tag"
    BY <1>10 DEF Send, Keep, server, kept
  <2>2. PICK save : \/ Done /\ UNCHANGED network
                    \/ /\ network' = network \cup {save} /\ save.given = call.given
                       /\ pc' = "saving" /\ UNCHANGED call
    BY <1>10 DEF Send
  <2>3. CASE Done /\ UNCHANGED network
    BY <1>0, <1>r, <1>z, <2>1, <2>3, DoneReads
  <2>4. CASE /\ network' = network \cup {save} /\ save.given = call.given
             /\ pc' = "saving" /\ UNCHANGED call
    <3>1. StoreInv'
      BY <1>0, <2>1, <2>4 DEF StoreInv, Asked
    <3>2. FeedInv'
      BY <1>0, <2>1, <2>4, SameFeed
    <3>3. Asked' /\ KeysInv'
      BY <1>0, <2>1, <2>4 DEF Asked, KeysInv
    <3> QED BY <1>r, <3>1, <3>2, <3>3 DEF ReadInv
  <2> QED BY <2>2, <2>3, <2>4
<1>11. CASE Serve
  <2>1. Newer /\ StoreInv'
    BY <1>0, <1>11, ServeStored
  <2>2. zoneKeys' = zoneKeys /\ (Done \/ UNCHANGED <<pc, call>>)
    BY <1>11 DEF Serve, kept
  <2>3. CASE Done
    BY <1>0, <1>r, <2>1, <2>2, <2>3, DoneReads
  <2>4. CASE UNCHANGED <<pc, call>>
    <3>1. Asked' /\ FeedInv'
      BY <1>0, <1>r, <2>1, <2>4, ZoneKeepsFeed
    <3> QED BY <1>0, <1>r, <2>1, <2>2, <2>4, <3>1 DEF ReadInv, KeysInv
  <2> QED BY <2>2, <2>3, <2>4
<1>12. CASE Lose
  <2>1. /\ UNCHANGED <<store, clock, rolls, changes, zoneKeys, pc, call>>
        /\ network' \subseteq network
    BY <1>12 DEF Lose, Keep, server, kept
  <2>2. StoreInv' /\ FeedInv'
    BY <1>0, <1>z, <2>1, SameFeed
  <2> QED BY <1>0, <1>r, <2>1, <2>2 DEF ReadInv, KeysInv, Asked
<1> QED BY <1>1, <1>2, <1>3, <1>4, <1>5, <1>6, <1>7, <1>8, <1>9, <1>10, <1>11, <1>12 DEF Next, Step

-----------------------------------------------------------------------------
(* What is made of what was read *)

Here == Reader(call.keys, Defaults)

\* A record that opens says what its fields were written with.
LEMMA HereOpens ==
  ASSUME ReadInv, NEW i \in RecordsOf(call.fetched)
  PROVE  LET r == call.fetched[i]
         IN /\ r.name \in Names /\ WasRead(r)
            /\ i \in Decrypted(call.fetched, Here) =>
                 /\ FormOf[r.name] \notin {"foreign", "garbled"}
                 /\ \A f \in DOMAIN r.fields : Value(r, f, Here) = r.fields[f].value
            /\ /\ ZoneKey(rolls) \in call.keys /\ r.wrapped = rolls
               /\ FormOf[r.name] \notin {"foreign", "garbled"}
               => i \in Decrypted(call.fetched, Here)
<1> DEFINE r == call.fetched[i]
<1>1. r.name \in Names /\ WasRead(r)
  BY DEF RecordsOf, ReadInv, RenameInv, CallInv, FeedInv, Copy
<1>2. Stranger \notin call.keys /\ rolls \in 0 .. MaxChanges
  BY DEF ReadInv, KeysInv, StoreInv
<1>3. r.wrapped \in 0 .. MaxChanges
  BY <1>1 DEF WasRead
<1>4. Here = Reader(call.keys, ZoneDefaults(RecordProtection(rolls), call.keys))
  BY DEF Here, Defaults
<1> HIDE DEF r
<1>5. /\ Opened(r, Here)
      /\ /\ ZoneKey(rolls) \in call.keys /\ r.wrapped = rolls
         /\ FormOf[r.name] \notin {"foreign", "garbled"}
         => MasterFor(r, Here) = FieldKey(r.name)
  BY <1>1, <1>2, <1>3, <1>4, ReaderOpens
<1>6. (i \in Decrypted(call.fetched, Here)) <=> MasterFor(r, Here) # None
  BY DEF Decrypted, r
<1>7. ASSUME MasterFor(r, Here) # None
      PROVE  /\ FormOf[r.name] \notin {"foreign", "garbled"}
             /\ \A f \in DOMAIN r.fields : Value(r, f, Here) = r.fields[f].value
  <2>1. MasterFor(r, Here) = FieldKey(r.name) /\ FormOf[r.name] \notin {"foreign", "garbled"}
    BY <1>5, <1>7 DEF Opened
  <2>2. ASSUME NEW f \in DOMAIN r.fields PROVE Value(r, f, Here) = r.fields[f].value
    <3>1. r.fields[f] = EncryptField(r.fields[f].value, FieldKey(r.name), Context(Zone, r.name, f))
      BY <1>1 DEF WasRead, Worded
    <3>2. /\ r.fields[f].keyId = KeyId(FieldKey(r.name)) /\ r.fields[f].under = FieldKey(r.name)
          /\ r.fields[f].context = Context(Zone, r.name, f)
      BY <3>1 DEF EncryptField
    <3>3. Value(r, f, Here) = DecryptField(r.fields[f], FieldKey(r.name), Context(Zone, r.name, f))
      BY <2>1 DEF Value
    <3> QED BY <3>2, <3>3 DEF DecryptField
  <2> QED BY <2>1, <2>2
<1>8. /\ ZoneKey(rolls) \in call.keys /\ r.wrapped = rolls
      /\ FormOf[r.name] \notin {"foreign", "garbled"}
      => i \in Decrypted(call.fetched, Here)
  BY <1>1, <1>5, <1>6
<1> QED BY <1>1, <1>6, <1>7, <1>8 DEF r

\* a kind of record, and the field that names its accessory
Telling(kind, f) ==
  \/ kind = Namings /\ f = "associatedBeacon"
  \/ kind = Alignments /\ f = "beaconIdentifier"

LEMMA TellingFields ==
  ASSUME NEW kind, NEW f, Telling(kind, f), NEW name \in kind
  PROVE  /\ name \in Names /\ f \in DOMAIN FirstValues(name)
         /\ f \notin Changed /\ FirstValues(name)[f] = About[name]
<1>1. name \in Names /\ name \notin Beacons
  BY DEF Telling, Names
<1>2. CASE kind = Namings /\ f = "associatedBeacon"
  <2>1. name \notin Alignments /\ name \notin Undated
    BY <1>2
  <2> QED BY <1>1, <1>2, <2>1 DEF FirstValues, Changed
<1>3. CASE kind = Alignments /\ f = "beaconIdentifier"
  BY <1>1, <1>3 DEF FirstValues, Changed
<1> QED BY <1>1, <1>2, <1>3 DEF Telling

\* The records that name an accessory are those that are of it.
LEMMA NamingIs ==
  ASSUME ReadInv, NEW kind, NEW f, Telling(kind, f), NEW id
  PROVE  Naming(call.fetched, kind, f, id, Here) =
           {i \in Decrypted(call.fetched, Here) :
              call.fetched[i].name \in kind /\ About[call.fetched[i].name] = id}
<1> SUFFICES ASSUME NEW i \in Decrypted(call.fetched, Here), call.fetched[i].name \in kind
             PROVE  Value(call.fetched[i], f, Here) = About[call.fetched[i].name]
  BY DEF Naming
<1> DEFINE r == call.fetched[i]
<1>1. i \in RecordsOf(call.fetched)
  BY DEF Decrypted
<1>2. WasRead(r) /\ \A h \in DOMAIN r.fields : Value(r, h, Here) = r.fields[h].value
  BY <1>1, HereOpens
<1> HIDE DEF r
<1>3. /\ f \in DOMAIN FirstValues(r.name) /\ f \notin Changed
      /\ FirstValues(r.name)[f] = About[r.name]
  BY TellingFields DEF r
<1>4. f \in DOMAIN r.fields /\ r.fields[f].value = About[r.name]
  BY <1>2, <1>3 DEF WasRead, Worded
<1>5. Value(r, f, Here) = About[r.name]
  BY <1>2, <1>4
<1> QED BY <1>5 DEF r

\* A record the zone has now, that can be read, was read and opens, and no
\* other version of it was read later.
LEMMA CurrentIsRead ==
  ASSUME ReadInv, Known(clock), ZoneKey(rolls) \in call.keys, NEW name \in Readable
  PROVE  \E i \in Decrypted(call.fetched, Here) :
           /\ call.fetched[i] = store[name].record /\ call.fetched[i].name = name
           /\ \A j \in RecordsOf(call.fetched) : j > i => call.fetched[j].name # name
<1>1. name \in Live /\ name \in Names /\ FormOf[name] \notin {"foreign", "garbled"}
  BY DEF Readable, Live
<1>2. /\ store[name].serial <= clock /\ store[name].record # None
      /\ store[name].record.name = name /\ store[name].record.wrapped = rolls
  BY <1>1 DEF ReadInv, RenameInv, ServerInv, StoreInv, Kept, Fit, Live
<1>3. PICK i \in DOMAIN call.fetched :
        /\ call.fetched[i] = store[name].record
        /\ \A j \in RecordsOf(call.fetched) : j > i => call.fetched[j].name # name
  BY <1>1, <1>2 DEF Known
<1>4. i \in RecordsOf(call.fetched)
  BY <1>2, <1>3 DEF RecordsOf
<1>5. i \in Decrypted(call.fetched, Here)
  BY <1>1, <1>2, <1>3, <1>4, HereOpens
<1> QED BY <1>2, <1>3, <1>5

\* what a version of a record says is what it says now
SaysNow(r, name) ==
  /\ r = store[name].record /\ r.name = name /\ DOMAIN r.fields = DOMAIN FirstValues(name)
  /\ \A g \in DOMAIN r.fields : Value(r, g, Here) = Plain(name, g)

\* Any version of a record that the zone still has, and that is the last read
\* of it, says what the record says now.
LEMMA CurrentSays ==
  ASSUME ReadInv, NEW i \in Decrypted(call.fetched, Here), NEW name,
         call.fetched[i] = store[name].record, call.fetched[i].name = name
  PROVE  SaysNow(call.fetched[i], name)
<1> DEFINE r == call.fetched[i]
<1>1. i \in RecordsOf(call.fetched)
  BY DEF Decrypted
<1>2. WasRead(r) /\ \A g \in DOMAIN r.fields : Value(r, g, Here) = r.fields[g].value
  BY <1>1, HereOpens
<1> HIDE DEF r
<1>3. DOMAIN r.fields = DOMAIN FirstValues(name)
  BY <1>2 DEF WasRead, Worded, r
<1>4. ASSUME NEW g \in DOMAIN r.fields PROVE Value(r, g, Here) = Plain(name, g)
  <2>1. r.fields[g] = EncryptField(r.fields[g].value, FieldKey(name), Context(Zone, name, g))
    BY <1>2 DEF WasRead, Worded, r
  <2>2. /\ r.fields[g].keyId = KeyId(FieldKey(name)) /\ r.fields[g].under = FieldKey(name)
        /\ r.fields[g].context = Context(Zone, name, g)
    BY <2>1 DEF EncryptField
  <2> QED BY <1>2, <2>2 DEF Plain, DecryptField, r
<1> QED BY <1>3, <1>4 DEF SaysNow, r

\* The last of the records of a kind that are of an accessory is one of these
\* as it is now, unless there is none now.
LEMMA LastSays ==
  ASSUME ReadInv, Known(clock), ZoneKey(rolls) \in call.keys,
         NEW kind, NEW f, Telling(kind, f), NEW id,
         NEW last, last = LastOf(call.fetched, Naming(call.fetched, kind, f, id, Here))
  PROVE  \/ last = None /\ Of(id, kind) = {}
         \/ \E name \in kind : About[name] = id /\ Removed(name)
         \/ last # None /\ \E name \in Of(id, kind) : SaysNow(last, name)
<1> DEFINE S == Naming(call.fetched, kind, f, id, Here)
<1>1. S = {i \in Decrypted(call.fetched, Here) :
             call.fetched[i].name \in kind /\ About[call.fetched[i].name] = id}
  BY NamingIs
<1>2. Decrypted(call.fetched, Here) \subseteq RecordsOf(call.fetched)
      /\ RecordsOf(call.fetched) \subseteq DOMAIN call.fetched
  BY DEF Decrypted, RecordsOf
<1>3. kind \subseteq Names
  BY TellingFields
<1> HIDE DEF S
<1>4. CASE S = {}
  <2>1. last = None
    BY <1>4 DEF LastOf, S
  <2>2. ASSUME NEW name \in Of(id, kind) PROVE FALSE
    <3>1. name \in Readable /\ name \in kind /\ About[name] = id
      BY DEF Of
    <3>2. PICK i \in Decrypted(call.fetched, Here) : call.fetched[i].name = name
      BY <3>1, CurrentIsRead
    <3> QED BY <1>1, <1>4, <3>1, <3>2
  <2> QED BY <2>1, <2>2
<1>5. CASE S # {}
  <2>1. PICK k \in S : last = call.fetched[k] /\ \A j \in S : j <= k
    <3>1. Len(call.fetched) \in Nat /\ DOMAIN call.fetched = 1 .. Len(call.fetched)
      BY DEF ReadInv, RenameInv, CallInv
    <3>2. S \subseteq 1 .. Len(call.fetched)
      BY <1>1, <1>2, <3>1
    <3>3. \E i \in S : \A j \in S : j <= i
      BY <1>5, <3>1, <3>2, LastExists
    <3> QED BY <1>5, <3>3 DEF LastOf, S
  <2> DEFINE name == last.name
  <2>2. /\ k \in Decrypted(call.fetched, Here) /\ k \in RecordsOf(call.fetched)
        /\ name \in kind /\ About[name] = id /\ last # None /\ name \in Names
    BY <1>1, <1>2, <1>3, <2>1 DEF RecordsOf
  <2>3. /\ FormOf[name] \notin {"foreign", "garbled"} /\ WasRead(last)
        /\ \A h \in DOMAIN last.fields : Value(last, h, Here) = last.fields[h].value
    BY <2>1, <2>2, HereOpens
  <2> HIDE DEF name
  <2>4. CASE store[name].record = None
    <3>1. Removed(name)
      BY <2>3, <2>4 DEF WasRead, Removed, name
    <3> QED BY <2>2, <3>1
  <2>5. CASE store[name].record # None
    <3>1. name \in Readable /\ name \in Of(id, kind)
      BY <2>2, <2>3, <2>5 DEF Readable, Live, Of
    <3>2. PICK i \in Decrypted(call.fetched, Here) :
            /\ call.fetched[i] = store[name].record /\ call.fetched[i].name = name
            /\ \A j \in RecordsOf(call.fetched) : j > i => call.fetched[j].name # name
      BY <3>1, CurrentIsRead
    <3>3. i \in S
      BY <1>1, <2>2, <3>2
    <3>4. i = k
      <4>1. i \in Nat /\ k \in Nat
        BY <1>2, <2>2 DEF ReadInv, RenameInv, CallInv
      <4>2. i <= k /\ ~(k > i)
        BY <2>1, <2>2, <3>2, <3>3 DEF name
      <4> QED BY <4>1, <4>2
    <3>5. last = store[name].record
      BY <2>1, <3>2, <3>4
    <3>6. SaysNow(last, name)
      <4>1. SaysNow(call.fetched[k], name)
        BY <2>1, <2>2, <3>5, CurrentSays DEF name
      <4> QED BY <2>1, <4>1
    <3> QED BY <2>2, <3>1, <3>6
  <2> QED BY <2>4, <2>5
<1> QED BY <1>4, <1>5

-----------------------------------------------------------------------------
(* The theorems about what was read *)

\* What a naming record gives an accessory.
LEMMA NamesSaid ==
  ASSUME ReadInv, Known(clock), ZoneKey(rolls) \in call.keys, NEW id, NEW last,
         last = LastOf(call.fetched, Naming(call.fetched, Namings, "associatedBeacon", id, Here))
  PROVE  Says(id, Namings, IF last = None THEN None ELSE Value(last, "name", Here))
<1>1. Telling(Namings, "associatedBeacon")
  BY DEF Telling
<1>2. \/ last = None /\ Of(id, Namings) = {}
      \/ \E name \in Namings : About[name] = id /\ Removed(name)
      \/ last # None /\ \E name \in Of(id, Namings) : SaysNow(last, name)
  BY <1>1, LastSays
<1>3. ASSUME last # None, NEW name \in Of(id, Namings), SaysNow(last, name)
      PROVE  Value(last, "name", Here) = Tells(name)
  <2>1. name \in Namings /\ name \notin Beacons /\ name \notin Alignments /\ name \notin Undated
    BY DEF Of
  <2>2. "name" \in DOMAIN FirstValues(name)
    BY <2>1 DEF FirstValues
  <2> QED BY <1>3, <2>1, <2>2 DEF SaysNow, Tells
<1> QED BY <1>2, <1>3 DEF Says

\* What an alignment record gives an accessory.
LEMMA AlignmentsSaid ==
  ASSUME ReadInv, Known(clock), ZoneKey(rolls) \in call.keys, NEW id, NEW last,
         last = LastOf(call.fetched, Naming(call.fetched, Alignments, "beaconIdentifier", id, Here))
  PROVE  Says(id, Alignments, Aligned(last, Here))
<1>1. Telling(Alignments, "beaconIdentifier")
  BY DEF Telling
<1>2. \/ last = None /\ Of(id, Alignments) = {}
      \/ \E name \in Alignments : About[name] = id /\ Removed(name)
      \/ last # None /\ \E name \in Of(id, Alignments) : SaysNow(last, name)
  BY <1>1, LastSays
<1>3. ASSUME last # None, NEW name \in Of(id, Alignments), SaysNow(last, name)
      PROVE  Aligned(last, Here) = Tells(name)
  <2>1. name \in Alignments /\ name \notin Beacons /\ name \notin Namings /\ name \in Readable
    BY DEF Of
  <2>2. last = store[name].record /\ last.name = name /\ DOMAIN last.fields = DOMAIN FirstValues(name)
        /\ \A g \in DOMAIN last.fields : Value(last, g, Here) = Plain(name, g)
    BY <1>3 DEF SaysNow
  <2>3. CASE name \in Undated
    <3>1. "lastIndexObservationDate" \notin DOMAIN FirstValues(name)
      BY <2>1, <2>3 DEF FirstValues
    <3>2. Value(last, "lastIndexObservationDate", Here) = None
      BY <2>2, <3>1 DEF Value
    <3> QED BY <2>1, <2>3, <3>2 DEF Aligned, Tells
  <2>4. CASE name \notin Undated
    <3>1. /\ {"lastIndexObservationDate", "lastIndexObserved"} \subseteq DOMAIN FirstValues(name)
          /\ FirstValues(name)["lastIndexObservationDate"] = "old"
      BY <2>1, <2>4 DEF FirstValues
    <3>2. name \in Names /\ Worded(name, last.fields)
      BY <2>1, <2>2 DEF ReadInv, StoreInv, Fit, Readable, Live
    <3>3. last.fields["lastIndexObservationDate"] =
            EncryptField("old", FieldKey(name), Context(Zone, name, "lastIndexObservationDate"))
      BY <2>2, <3>1, <3>2 DEF Worded, Changed
    <3>4. Plain(name, "lastIndexObservationDate") = "old"
      BY <2>2, <3>3 DEF Plain, DecryptField, EncryptField
    <3> QED BY <1>3, <2>1, <2>2, <2>4, <3>1, <3>4 DEF Aligned, Tells
  <2> QED BY <2>3, <2>4
<1> QED BY <1>2, <1>3 DEF Says, Aligned

\* The fields a master record cannot do without are there if it has them.
LEMMA MasterTaken ==
  ASSUME ReadInv, NEW i \in Decrypted(call.fetched, Here), call.fetched[i].name \in Beacons
  PROVE  ~Refused(call.fetched[i], Here) <=> call.fetched[i].name \in Complete
<1> DEFINE r == call.fetched[i]
           b == r.name
<1>1. i \in RecordsOf(call.fetched)
  BY DEF Decrypted
<1>2. WasRead(r) /\ \A g \in DOMAIN r.fields : Value(r, g, Here) = r.fields[g].value
  BY <1>1, HereOpens
<1>3. DOMAIN FirstValues(b) = Given[b] /\ \A f \in Given[b] : FirstValues(b)[f] = b
  BY DEF FirstValues
<1> HIDE DEF r, b
<1>4. ASSUME NEW f \in Required \cup Secondary
      PROVE  Value(r, f, Here) # None <=> f \in Given[b]
  <2>1. DOMAIN r.fields = Given[b]
    BY <1>2, <1>3 DEF WasRead, Worded, b
  <2>2. f \in Given[b] => r.fields[f].value = b
    BY <1>2, <1>3, <1>4, <2>1 DEF WasRead, Worded, b, Changed, Required, Secondary
  <2>3. b # None
    BY DEF b, r, Names
  <2>4. f \notin Given[b] => Value(r, f, Here) = None
    BY <2>1 DEF Value
  <2> QED BY <1>2, <2>1, <2>2, <2>3, <2>4
<1>5. b \in Beacons
  BY DEF b, r
<1> QED BY <1>4, <1>5 DEF Refused, Complete, r, b

\* A listing that was read to the end, with nothing written since its last
\* page, has every accessory that can be read and used, the last entry of each
\* as its master record is now, and each entry with what a naming and an
\* alignment record of it say now, and nothing that no record says, but for
\* what was removed between the pages (fetch_accessories, group_records).
THEOREM ListsNewest == Spec => ListingIsNewest
<1>1. ASSUME ReadInv PROVE Newest
  <2> SUFFICES ASSUME List, call.complete, call.readAt = clock, ZoneKey(rolls) \in call.keys
               PROVE  /\ \A b \in Complete \cap Readable :
                           \E i \in DOMAIN listed' : LastEntry(b, i) /\ listed'[i].model = Model(b)
                      /\ \A i \in DOMAIN listed' :
                           /\ listed'[i].identifier \in Complete
                           /\ listed'[i].identifier \in Readable \/ Removed(listed'[i].identifier)
                           /\ Says(listed'[i].identifier, Namings, listed'[i].name)
                           /\ Says(listed'[i].identifier, Alignments, listed'[i].index)
    BY DEF Newest
  <2> DEFINE feed == call.fetched
             taken == {j \in Decrypted(feed, Here) :
                         feed[j].name \in Beacons /\ ~Refused(feed[j], Here)}
  <2>1. /\ DOMAIN listed' = taken
        /\ \A i \in taken : listed'[i] = Accessory(feed, feed[i], Here)
    BY DEF List, Accessories, Here
  <2>2. pc = "defaults" /\ Known(clock)
    BY <1>1 DEF List, Decrypt, ReadInv, FeedInv
  <2>3. \A i \in taken : /\ listed'[i].identifier = feed[i].name
                          /\ listed'[i].model = Value(feed[i], "model", Here)
    <3>1. \A master : /\ Accessory(feed, master, Here).identifier = master.name
                      /\ Accessory(feed, master, Here).model = Value(master, "model", Here)
      <4> HIDE DEF feed
      <4> QED BY DEF Accessory
    <3> HIDE DEF taken, feed
    <3> QED BY <2>1, <3>1
  <2>4. ASSUME NEW b \in Complete \cap Readable
        PROVE  \E i \in DOMAIN listed' : LastEntry(b, i) /\ listed'[i].model = Model(b)
    <3>1. PICK i \in Decrypted(feed, Here) :
            /\ feed[i] = store[b].record /\ feed[i].name = b
            /\ \A j \in RecordsOf(feed) : j > i => feed[j].name # b
      BY <1>1, <2>2, CurrentIsRead
    <3>2. b \in Beacons /\ b \in Complete
      BY DEF Complete
    <3>3. i \in taken
      BY <1>1, <3>1, <3>2, MasterTaken
    <3>4. taken \subseteq RecordsOf(feed)
      BY DEF Decrypted
    <3>5. LastEntry(b, i)
      <4> HIDE DEF taken
      <4> QED BY <2>1, <2>3, <3>1, <3>3, <3>4 DEF LastEntry
    <3>6. SaysNow(feed[i], b)
      BY <1>1, <3>1, CurrentSays
    <3>7. DOMAIN FirstValues(b) = Given[b]
      BY <3>2 DEF FirstValues
    <3>8. Value(feed[i], "model", Here) = Model(b)
      <4>1. CASE "model" \in Given[b]
        BY <3>6, <3>7, <4>1 DEF SaysNow, Model
      <4>2. CASE "model" \notin Given[b]
        BY <3>6, <3>7, <4>2 DEF SaysNow, Model, Value
      <4> QED BY <4>1, <4>2
    <3> HIDE DEF taken
    <3> QED BY <2>1, <2>3, <3>3, <3>5, <3>8
  <2>5. ASSUME NEW i \in DOMAIN listed'
        PROVE  /\ listed'[i].identifier \in Complete
               /\ listed'[i].identifier \in Readable \/ Removed(listed'[i].identifier)
               /\ Says(listed'[i].identifier, Namings, listed'[i].name)
               /\ Says(listed'[i].identifier, Alignments, listed'[i].index)
    <3>1. i \in Decrypted(feed, Here) /\ feed[i].name \in Beacons /\ ~Refused(feed[i], Here)
      BY <2>1
    <3> DEFINE id == feed[i].name
    <3>2. listed'[i] = Accessory(feed, feed[i], Here) /\ listed'[i].identifier = id
      BY <2>1, <2>3
    <3>3. id \in Complete
      BY <1>1, <3>1, MasterTaken
    <3>4. id \in Names /\ FormOf[id] \notin {"foreign", "garbled"} /\ WasRead(feed[i])
      <4>1. i \in RecordsOf(feed)
        BY <3>1 DEF Decrypted
      <4> QED BY <1>1, <3>1, <4>1, HereOpens
    <3>5. id \in Readable \/ Removed(id)
      BY <3>4 DEF WasRead, Removed, Readable, Live
    <3> HIDE DEF id
    <3>6. Says(id, Namings, listed'[i].name)
      <4> DEFINE last == LastOf(feed, Naming(feed, Namings, "associatedBeacon", id, Here))
      <4>1. listed'[i].name = IF last = None THEN None ELSE Value(last, "name", Here)
        BY <3>2 DEF Accessory, id
      <4>2. last = LastOf(feed, Naming(feed, Namings, "associatedBeacon", id, Here))
        OBVIOUS
      <4> HIDE DEF last
      <4>3. Says(id, Namings, IF last = None THEN None ELSE Value(last, "name", Here))
        BY <1>1, <2>2, <4>2, NamesSaid
      <4> QED BY <4>1, <4>3
    <3>7. Says(id, Alignments, listed'[i].index)
      <4> DEFINE last == LastOf(feed, Naming(feed, Alignments, "beaconIdentifier", id, Here))
      <4>1. listed'[i].index = Aligned(last, Here)
        BY <3>2 DEF Accessory, id
      <4>2. last = LastOf(feed, Naming(feed, Alignments, "beaconIdentifier", id, Here))
        OBVIOUS
      <4> HIDE DEF last
      <4>3. Says(id, Alignments, Aligned(last, Here))
        BY <1>1, <2>2, <4>2, AlignmentsSaid
      <4> QED BY <4>1, <4>3
    <3> QED BY <3>2, <3>3, <3>5, <3>6, <3>7
  <2> QED BY <2>4, <2>5
<1>2. ReadInv /\ [Next]_vars => [Newest]_vars
  BY <1>1
<1> QED BY <1>2, ReadInvAtFirst, ReadInvStays, PTL DEF Spec, ListingIsNewest

\* Renaming by identifier finds the accessory if nothing was written since the
\* call began and one readable record names it; and what it is about to save is
\* the record as of the last page (find_naming_record).
THEOREM RenameFindsRecord == Spec => RenameFinds
<1>1. ASSUME ReadInv PROVE Found
  <2> SUFFICES ASSUME Find
               PROVE  /\ call.begun = clock /\ call.complete /\ ZoneKey(rolls) \in call.keys
                           /\ Cardinality(Of(call.target, Namings)) = 1 => pc' = "tag"
                      /\ pc' = "tag" /\ call.complete /\ call.readAt = clock
                           /\ call'.naming.name \in Live
                           => call'.naming = store[call'.naming.name].record
    BY DEF Found
  <2> DEFINE feed    == call.fetched
             matches == Naming(feed, Namings, "associatedBeacon", call.target, Here)
             named   == {i \in RecordsOf(feed) : \E j \in matches : feed[i].name = feed[j].name}
  <2>1. /\ pc = "defaults"
        /\ IF Cardinality(matches) # 1 THEN Done
           ELSE /\ call' = [call EXCEPT !.fetched = <<>>, !.naming = LastOf(feed, named)]
                /\ pc' = "tag"
    BY DEF Find, Decrypt, Here
  <2>2. matches = {i \in Decrypted(feed, Here) :
                     feed[i].name \in Namings /\ About[feed[i].name] = call.target}
    BY <1>1, NamingIs DEF Telling
  <2>3. Decrypted(feed, Here) \subseteq RecordsOf(feed) /\ RecordsOf(feed) \subseteq DOMAIN feed
    BY DEF Decrypted, RecordsOf
  <2>4. /\ clock \in Nat /\ call.begun \in 0 .. clock /\ call.readAt \in 0 .. clock
        /\ call.complete => call.begun <= call.readAt
        /\ DOMAIN call = Fields
        /\ Len(feed) \in Nat /\ DOMAIN feed = 1 .. Len(feed)
    BY <1>1 DEF ReadInv, RenameInv, ServerInv, CallInv, Asked
  <2>5. call.complete /\ call.readAt = clock => Known(clock)
    BY <1>1, <2>1 DEF ReadInv, FeedInv
  <2> HIDE DEF matches
  <2>6. ASSUME call.begun = clock, call.complete, ZoneKey(rolls) \in call.keys,
               Cardinality(Of(call.target, Namings)) = 1
        PROVE  Cardinality(matches) = 1
    <3>1. Known(clock)
      BY <2>4, <2>5, <2>6
    <3>2. PICK name : Of(call.target, Namings) = {name}
      <4>1. Of(call.target, Namings) \subseteq Names
        BY DEF Of, Names
      <4>2. IsFiniteSet(Of(call.target, Namings))
        BY <4>1, FS_Subset
      <4> QED BY <2>6, <4>2, FS_Singleton
    <3>3. name \in Readable /\ name \in Namings /\ About[name] = call.target
      BY <3>2 DEF Of
    <3>4. PICK i \in Decrypted(feed, Here) : feed[i].name = name
      BY <1>1, <2>6, <3>1, <3>3, CurrentIsRead
    <3>5. ASSUME NEW j \in matches PROVE j = i
      <4>1. j \in Decrypted(feed, Here) /\ j \in RecordsOf(feed) /\ i \in RecordsOf(feed)
        BY <2>2, <2>3
      <4>2. WasRead(feed[j]) /\ FormOf[feed[j].name] \notin {"foreign", "garbled"}
            /\ feed[j].name \in Names
        BY <1>1, <4>1, HereOpens
      <4>3. store[feed[j].name].record # None
        BY <1>1, <2>6, <4>2 DEF WasRead, ReadInv, StoreInv, Fit, RenameInv, ServerInv, Kept
      <4>4. feed[j].name \in Of(call.target, Namings)
        BY <2>2, <4>2, <4>3 DEF Of, Readable, Live
      <4>5. feed[j].name = feed[i].name
        BY <3>2, <3>4, <4>4
      <4>6. ReadOnce
        BY <1>1, <2>6 DEF ReadInv, FeedInv
      <4> QED BY <4>1, <4>5, <4>6 DEF ReadOnce
    <3>6. i \in matches
      BY <2>2, <3>3, <3>4
    <3>7. matches = {i}
      BY <3>5, <3>6
    <3> QED BY <3>7, FS_Singleton
  <2>7. ASSUME pc' = "tag", call.complete, call.readAt = clock, call'.naming.name \in Live
        PROVE  call'.naming = store[call'.naming.name].record
    <3>1. Cardinality(matches) = 1 /\ call'.naming = LastOf(feed, named)
      BY <2>1, <2>4, <2>7 DEF Done, Fields
    <3>2. PICK m : matches = {m}
      <4>1. matches \subseteq 1 .. Len(feed) /\ IsFiniteSet(1 .. Len(feed))
        BY <2>2, <2>3, <2>4, FS_Interval
      <4>2. IsFiniteSet(matches)
        BY <4>1, FS_Subset
      <4> QED BY <3>1, <4>2, FS_Singleton
    <3>3. /\ m \in RecordsOf(feed) /\ m \in named
          /\ \A i : i \in named <=> i \in RecordsOf(feed) /\ feed[i].name = feed[m].name
      BY <2>2, <2>3, <3>2
    <3> HIDE DEF named
    <3>4. named \subseteq 1 .. Len(feed) /\ named # {}
      BY <2>3, <2>4, <3>3
    <3>5. PICK k \in named : LastOf(feed, named) = feed[k] /\ \A j \in named : j <= k
      <4>1. \E i \in named : \A j \in named : j <= i
        BY <2>4, <3>4, LastExists
      <4> QED BY <3>4, <4>1 DEF LastOf
    <3>6. /\ feed[k].name = feed[m].name /\ feed[m].name \in Live /\ k \in RecordsOf(feed)
      BY <2>7, <3>1, <3>3, <3>5
    <3>7. store[feed[m].name].serial <= clock /\ store[feed[m].name].record # None
          /\ store[feed[m].name].record.name = feed[m].name
      BY <1>1, <3>6 DEF ReadInv, RenameInv, ServerInv, StoreInv, Kept, Fit, Live
    <3>8. PICK i \in DOMAIN feed :
            /\ feed[i] = store[feed[m].name].record
            /\ \A j \in RecordsOf(feed) : j > i => feed[j].name # feed[m].name
      BY <2>5, <2>7, <3>6, <3>7 DEF Known
    <3>9. i \in named
      BY <3>3, <3>7, <3>8 DEF RecordsOf
    <3>10. i = k
      <4>1. i \in Nat /\ k \in Nat
        BY <2>4, <3>4, <3>8
      <4>2. i <= k /\ ~(k > i)
        BY <3>5, <3>6, <3>8, <3>9
      <4> QED BY <4>1, <4>2
    <3> QED BY <3>1, <3>5, <3>6, <3>8, <3>10
  <2> QED BY <2>1, <2>6, <2>7
<1>2. ReadInv /\ [Next]_vars => [Found]_vars
  BY <1>1
<1> QED BY <1>2, ReadInvAtFirst, ReadInvStays, PTL DEF Spec, RenameFinds
=============================================================================
