------------------------------ MODULE Beacons ------------------------------
(***************************************************************************)
(* The accessories of an account, read from and written to iCloud: records,*)
(* accessories and rename of the Find My client (findmy/icloud.py), over   *)
(* the beacon store (cloudkit/beacons.py, records.py) and the CloudKit     *)
(* client (cloudkit/client.py).                                            *)
(*                                                                         *)
(* The zone is CloudKit's, as the client uses it: a feed of changes, each  *)
(* record at its last change, and saves that a record's protection tag     *)
(* serialises.  Other devices change records between any two awaits, and   *)
(* a save this client gave up on may still arrive.                         *)
(***************************************************************************)
EXTENDS Pcs, FiniteSets, Functions

CONSTANTS
  Beacons,      \* accessories, by identifier: the names of their master records
  Namings,      \* the names of naming records
  Alignments,   \* and of key alignment records
  About,        \* the accessory a naming or alignment record is of
  FormOf,       \* how each record is protected
  Given,        \* the fields each accessory's master record has
  Plainest,     \* the naming records without an emoji
  Undated,      \* the alignment records without a readable observation date
  Absences,     \* which records may be missing at first
  MaxPages,     \* iter_records' bound
  PageSize,     \* the most changes in one page
  MaxChanges,   \* bounds the changes other devices make
  MaxRenames    \* and the renames that are started

Names == Beacons \cup Namings \cup Alignments
Forms == {"own", "several", "readOnly", "noShareKey", "default", "namedDefault", "foreign", "garbled"}

\* what accessory_from_record cannot do without, and of which it needs one
Required  == {"privateKey", "sharedSecret", "pairingDate"}
Secondary == {"sharedSecret2", "secureLocationsSharedSecret"}
MasterFields == Required \cup Secondary \cup {"model"}

ASSUME NameAssumption ==
  /\ None \notin Names \cup {"old"} /\ Beacons \cap (Namings \cup Alignments) = {} /\ Namings \cap Alignments = {}
  /\ About \in [Namings \cup Alignments -> Beacons] /\ IsFiniteSet(Names)
ASSUME FormAssumption ==
  FormOf \in [Names -> Forms] /\ Given \in [Beacons -> SUBSET MasterFields]
  /\ Plainest \subseteq Namings /\ Undated \subseteq Alignments /\ Absences \subseteq SUBSET Names
ASSUME BoundAssumption ==
  MaxPages \in Nat \ {0} /\ PageSize \in Nat \ {0} /\ MaxChanges \in Nat /\ MaxRenames \in Nat

VARIABLES
  store,        \* the zone's records, those that were removed as well
  clock,        \* serial of the last change; tags are serials
  rolls,        \* how often the zone's key was replaced
  changes,      \* how many changes others made
  network,      \* saves on their way to CloudKit
  opened,       \* _info: the container has been opened
  keychain,     \* _keychain_keys
  zoneKeys,     \* _zone_keys: None or the keys
  pc,           \* what the call under way awaits
  call,         \* and its locals
  renames,      \* how many renames were started
  held,         \* a naming record the caller keeps
  listed        \* what accessories returned last, by the place in the feed of
                \* the master record each is made of

server == <<store, clock, rolls, changes>>
kept   == <<opened, keychain, zoneKeys>>
vars   == <<server, network, kept, pc, call, renames, held, listed>>

-----------------------------------------------------------------------------
(* What other devices write *)

Service  == Private(<<"service", 0>>)     \* the keychain key of the zone
Stranger == Private(<<"stranger", 0>>)    \* a key that is not
ZoneKey(n) == Private(<<"zone", n>>)
ZoneSecret == Secret(<<"zone secret", 0>>)
Default  == Secret(<<"default", 0>>)
Own(name) == Secret(<<name, 0>>)

ZoneProtection(n) ==
  Protection(<<Share(Stranger, FALSE, ZoneSecret), Share(Service, FALSE, ZoneSecret)>>,
             1, KeyId(Derive(ZoneSecret)), Meta(Derive(ZoneSecret), <<>>, {ZoneKey(n)}))

RecordProtection(n) ==
  Protection(<<Share(ZoneKey(n), FALSE, Default)>>, 1, None, None)

\* the key the fields of a record are encrypted under
FieldKey(name) ==
  CASE FormOf[name] \in {"default", "namedDefault"} -> Derive(Default)
    [] FormOf[name] = "noShareKey" -> Own(name)
    [] OTHER                       -> Derive(Own(name))

ASSUME FieldKeyAssumption == \A name \in Names : FieldKey(name) # None

Garbled == Protection(<<>>, 0, None, None)

ProtectionOf(name, n) ==
  LET of(shares, version) == Protection(shares, version, KeyId(FieldKey(name)), None)
      mine == Share(ZoneKey(n), FALSE, Own(name))
      other == Share(Stranger, FALSE, Own(name))
  IN CASE FormOf[name] = "own"        -> of(<<mine>>, 1)
       [] FormOf[name] = "several"    -> of(<<other, mine>>, 1)
       [] FormOf[name] = "readOnly"   -> of(<<Share(ZoneKey(n), TRUE, FieldKey(name))>>, 1)
       [] FormOf[name] = "noShareKey" -> of(<<mine>>, NoShareKey)
       [] FormOf[name] = "foreign"    -> of(<<other>>, 1)
       [] FormOf[name] = "garbled"    -> Garbled
       [] OTHER                       -> None

\* a structure is not None: only what has no protection of its own has none
ASSUME ProtectionAssumption ==
  \A n \in 0 .. MaxChanges :
    /\ RecordProtection(n) # None
    /\ \A name \in Names :
         ProtectionOf(name, n) = None => FormOf[name] \in {"default", "namedDefault"}

\* pcsKey, which may say which of the zone's default keys a record is under
PcsKey(name) == IF FormOf[name] = "namedDefault" THEN KeyId(FieldKey(name)) ELSE None

Zone == "BeaconStore"

\* the encrypted fields of a record that says these values
Written(name, values) ==
  [f \in DOMAIN values |-> EncryptField(values[f], FieldKey(name), Context(Zone, name, f))]

FirstValues(name) ==
  CASE name \in Beacons -> [f \in Given[name] |-> name]
    [] name \in Undated -> [beaconIdentifier |-> About[name], lastIndexObserved |-> "old"]
    [] name \in Alignments \ Undated ->
         [beaconIdentifier |-> About[name], lastIndexObserved |-> "old",
          lastIndexObservationDate |-> "old"]
    [] name \in Plainest -> [associatedBeacon |-> About[name], name |-> "old"]
    [] OTHER -> [associatedBeacon |-> About[name], name |-> "old", emoji |-> "old"]

\* the fields other devices change
Changing(name) == DOMAIN FirstValues(name) \cap {"model", "name", "emoji", "lastIndexObserved"}

\* wrapped to the zone's nth key: its protection follows from that
Record(name, fields, n, serial) ==
  [name |-> name, fields |-> fields, wrapped |-> n, tag |-> serial]

Earlier(names, name) == Cardinality({n \in names : store[n].serial < store[name].serial})

Live == {name \in Names : store[name].record # None}

Nothing == [op |-> None, target |-> None, given |-> None, begun |-> 0, keys |-> {},
            fetched |-> <<>>, token |-> None, pages |-> 0, complete |-> FALSE, readAt |-> 0,
            naming |-> None]

\* the names in some order
Numbered(names) ==
  CHOOSE serial \in [names -> 1 .. Cardinality(names)] : IsInjective(serial)

Init ==
  /\ \E absent \in Absences :
       LET serial == Numbered(Names \ absent)
       IN /\ clock = Cardinality(Names \ absent)
          /\ store = [name \in Names |->
               IF name \in absent THEN [serial |-> 0, record |-> None]
               ELSE [serial |-> serial[name],
                     record |-> Record(name, Written(name, FirstValues(name)), 0, serial[name])]]
  /\ rolls = 0 /\ changes = 0 /\ network = {}
  /\ opened = FALSE /\ keychain = {} /\ zoneKeys = None
  /\ pc = "idle" /\ call = Nothing /\ renames = 0 /\ held = None /\ listed = <<>>

Others == UNCHANGED <<network, kept, pc, call, renames, held, listed>>

Change == changes < MaxChanges /\ changes' = changes + 1 /\ Others

Put(name, record) ==
  /\ clock' = clock + 1
  /\ store' = [store EXCEPT ![name] = [serial |-> clock + 1, record |-> record]]

Edit ==
  /\ Change
  /\ \E name \in Live : \E f \in Changing(name) \cap DOMAIN store[name].record.fields :
       Put(name, Record(name,
         [store[name].record.fields EXCEPT ![f] =
            EncryptField("theirs", FieldKey(name), Context(Zone, name, f))], rolls, clock + 1))
  /\ UNCHANGED rolls

\* a record appears; an accessory has one naming record at a time
Appear ==
  /\ Change
  /\ \E name \in Names :
       /\ store[name].serial = 0
       /\ name \in Namings => \A other \in Live \cap Namings : About[other] # About[name]
       /\ Put(name, Record(name, Written(name, FirstValues(name)), rolls, clock + 1))
  /\ UNCHANGED rolls

Vanish ==
  /\ Change
  /\ \E name \in Live : Put(name, None)
  /\ UNCHANGED rolls

\* the zone's key is replaced, and every record wrapped to the new one
Roll ==
  /\ Change
  /\ rolls' = rolls + 1
  /\ LET serial(name) == clock + 1 + Earlier(Live, name)
     IN /\ clock' = clock + Cardinality(Live)
        /\ store' = [name \in Names |->
             IF name \notin Live THEN store[name]
             ELSE [serial |-> serial(name),
                   record |-> Record(name, store[name].record.fields, rolls + 1, serial(name))]]

-----------------------------------------------------------------------------
(* CloudKit: a page of the change feed after a token, and saves *)

\* a token is a serial; nth tells a new token of the same place apart
Token(serial, nth) == [serial |-> serial, nth |-> nth]
Since == IF call.token = None THEN 0 ELSE call.token.serial

\* the names changed after the token
Pending == {name \in Names : store[name].serial > Since}

\* n of them, oldest change first
Oldest(n) ==
  {page \in [1 .. n -> Pending] :
     /\ \A i, j \in 1 .. n : i < j => store[page[i]].serial < store[page[j]].serial
     /\ \A name \in Pending \ Range(page), i \in 1 .. n :
          store[page[i]].serial < store[name].serial}

\* record_save: the record's tag is checked and replaced, fields are merged
Accepts(save) ==
  /\ save.name \in Live /\ store[save.name].record.tag = save.tag
  /\ save.zoneTag = rolls

Merged(old, new) ==
  [f \in DOMAIN old \cup DOMAIN new |-> IF f \in DOMAIN new THEN new[f] ELSE old[f]]

Saved(save) ==
  [store[save.name].record EXCEPT !.fields = Merged(@, save.fields), !.tag = clock + 1]

-----------------------------------------------------------------------------
(* The readers of records *)

\* CloudKitRecord.from_proto, for the change of this name: None if it carries
\* no record
FromProto(name) == store[name].record

\* records_from_changes, by position: a change without a record is passed over
RecordsOf(feed) == {i \in DOMAIN feed : feed[i] # None}

ProtectionInfo(record) == ProtectionOf(record.name, record.wrapped)

\* who reads: the zone's keys and the defaults of its records
Reader(keys, defaults) == [keys |-> keys, defaults |-> defaults]

\* the master key decrypt_record uses, None where it raises
MasterFor(record, reader) ==
  LET protection == ProtectionInfo(record)
  IN IF protection = None THEN SelectDefault(reader.defaults, PcsKey(record.name))
     ELSE Unwrap(protection, reader.keys)

\* _decrypt_fields: None is what has no value, or none that decrypts
Value(record, f, reader) ==
  IF f \in DOMAIN record.fields
  THEN DecryptField(record.fields[f], MasterFor(record, reader), Context(Zone, record.name, f))
  ELSE None

\* decrypt_records: a record that does not open is skipped
Decrypted(feed, reader) == {i \in RecordsOf(feed) : MasterFor(feed[i], reader) # None}

\* ... but one whose protection is not DER raises out of it
Unparsable(feed) == \E i \in RecordsOf(feed) : ProtectionInfo(feed[i]) = Garbled

\* mutant of LastOf: the first of several versions
FirstOf(feed, S) == IF S = {} THEN None ELSE feed[CHOOSE i \in S : \A j \in S : i <= j]

\* a later record replaces an earlier one of the same key
LastOf(feed, S) == IF S = {} THEN None ELSE feed[CHOOSE i \in S : \A j \in S : j <= i]

\* the decrypted records of a kind whose field f names the accessory
Naming(feed, kind, f, id, reader) ==
  {i \in Decrypted(feed, reader) : feed[i].name \in kind /\ Value(feed[i], f, reader) = id}

\* accessory_from_record raises, and the accessory is skipped
Refused(master, reader) ==
  \/ \E f \in Required : Value(master, f, reader) = None
  \/ \A f \in Secondary : Value(master, f, reader) = None

\* the alignment counts if it says when its index was observed
Aligned(alignment, reader) ==
  IF alignment = None \/ Value(alignment, "lastIndexObservationDate", reader) = None THEN None
  ELSE Value(alignment, "lastIndexObserved", reader)

\* accessory_from_record, of what group_records puts together
Accessory(feed, master, reader) ==
  LET naming    == LastOf(feed, Naming(feed, Namings, "associatedBeacon", master.name, reader))
      alignment == LastOf(feed, Naming(feed, Alignments, "beaconIdentifier", master.name, reader))
  IN [identifier |-> master.name,
      model |-> Value(master, "model", reader),
      name  |-> IF naming = None THEN None ELSE Value(naming, "name", reader),
      index |-> Aligned(alignment, reader)]

\* accessories_from_records: one for each master record in the feed, in its
\* order; also a record that arrived twice makes two
Accessories(feed, reader) ==
  [i \in {j \in Decrypted(feed, reader) : feed[j].name \in Beacons /\ ~Refused(feed[j], reader)} |->
     Accessory(feed, feed[i], reader)]

-----------------------------------------------------------------------------
(* The calls of the client.  Between two steps of one it awaits an answer. *)

Keep == UNCHANGED <<server, renames>>

\* use_keys: what the zone was opened to with other keys is dropped
UseKeys ==
  /\ pc = "idle"
  /\ keychain' = {Service} /\ zoneKeys' = None
  /\ UNCHANGED <<server, network, opened, pc, call, renames, held, listed>>

\* where a call goes once the container is open
Start(c) ==
  CASE c.op = "records" -> "paging"
    [] c.op = "list"    -> "keys"
    [] OTHER -> IF zoneKeys = None THEN "keys" ELSE IF c.naming = None THEN "paging" ELSE "tag"

Begin(c) ==
  /\ pc = "idle"
  /\ c.op # "records" => keychain # {}
  /\ call' = [c EXCEPT !.keys = IF c.op = "rename" /\ zoneKeys # None THEN zoneKeys ELSE {}]
  /\ pc' = IF opened THEN Start(c) ELSE "opening"
  /\ listed' = <<>>
  /\ UNCHANGED <<server, network, kept, held>>

\* records and accessories; a record the caller keeps has no part in the latter
Read ==
  /\ \E op \in {"records"} \cup (IF held = None THEN {"list"} ELSE {}) :
       Begin([Nothing EXCEPT !.op = op, !.begun = clock])
  /\ UNCHANGED renames

\* rename, by identifier or with a naming record the caller kept
Rename ==
  /\ renames < MaxRenames /\ renames' = renames + 1
  /\ \E field \in {"name", "emoji"} :
       LET asked == [Nothing EXCEPT !.op = "rename", !.begun = clock, !.given = field]
       IN \/ \E id \in Beacons : Begin([asked EXCEPT !.target = id])
          \/ held # None /\ Begin([asked EXCEPT !.naming = held])

\* open_container
Open ==
  /\ pc = "opening"
  /\ opened' = TRUE /\ pc' = Start(call)
  /\ UNCHANGED <<keychain, zoneKeys, network, call, held, listed>> /\ Keep

Done == pc' = "idle" /\ call' = Nothing

\* whatever a call awaits may fail or time out, and most answers it can refuse
Fail ==
  /\ pc # "idle" /\ Done
  /\ UNCHANGED <<network, kept, held, listed>> /\ Keep

\* zone_retrieve, then unwrap_zone with the keychain's keys; rename keeps them
ReadZone ==
  /\ pc = "keys"
  /\ LET keys == UnwrapZone(ZoneProtection(rolls), keychain)
     IN IF keys = {} THEN Done /\ UNCHANGED zoneKeys
        ELSE /\ call' = [call EXCEPT !.keys = keys]
             /\ pc' = IF call.naming # None THEN "tag" ELSE "paging"
             /\ zoneKeys' = IF call.op = "rename" THEN keys ELSE zoneKeys
  /\ UNCHANGED <<network, opened, keychain, held, listed>> /\ Keep

\* mutant of Counted: only a page that brings changes is counted
CountedChanges(page) == IF page = <<>> THEN call.pages ELSE call.pages + 1

Counted(page) == call.pages + 1

\* iter_records stops
Ends(page, complete, token) ==
  complete \/ token \in {None, call.token} \/ Counted(page) = MaxPages

\* record_sync: a page; not every page has changes, and the last may say late
\* that it was the last
Page ==
  /\ pc = "paging" /\ UNCHANGED <<network, kept, held, listed>> /\ Keep
  /\ \E n \in 0 .. PageSize, complete \in BOOLEAN, named \in BOOLEAN, nth \in {0, 1} :
     \E page \in Oldest(n) :
       LET token == IF ~named THEN None
                    ELSE Token(IF n = 0 THEN Since ELSE store[page[n]].serial, nth)
       IN /\ complete => Range(page) = Pending
          /\ n > 0 => nth = 0
          /\ call' = [call EXCEPT !.fetched = @ \o [i \in 1 .. n |-> FromProto(page[i])],
                        !.complete = complete,
                        !.token = IF Ends(page, complete, token) THEN None ELSE token,
                        !.pages = IF Ends(page, complete, token) THEN 0 ELSE Counted(page),
                        !.readAt = clock]
          /\ pc' = IF ~Ends(page, complete, token) THEN "paging"
                   ELSE IF call.op = "records" THEN "have" ELSE "defaults"

\* records returns; the caller may keep a naming record of these
Return ==
  /\ pc = "have" /\ Done
  /\ \E kept_ \in {None} \cup {call.fetched[i] : i \in {j \in RecordsOf(call.fetched) :
                                                          call.fetched[j].name \in Namings}} :
       held' = kept_
  /\ UNCHANGED <<network, kept, listed>> /\ Keep

\* zone_record_defaults, of the zone as it is now
Defaults == ZoneDefaults(RecordProtection(rolls), call.keys)

\* decrypt_records, of whatever was read
Decrypt(op) == pc = "defaults" /\ call.op = op /\ ~Unparsable(call.fetched)

\* fetch_accessories returns
List ==
  /\ Decrypt("list")
  /\ LET reader == Reader(call.keys, Defaults)
     IN listed' = Accessories(call.fetched, reader)
  /\ Done
  /\ UNCHANGED <<network, kept, held>> /\ Keep

\* find_naming_record: one match, and of its name the record read last
Find ==
  /\ Decrypt("rename")
  /\ LET reader  == Reader(call.keys, Defaults)
         matches == Naming(call.fetched, Namings, "associatedBeacon", call.target, reader)
         named   == {i \in RecordsOf(call.fetched) :
                       \E j \in matches : call.fetched[i].name = call.fetched[j].name}
     IN IF Cardinality(matches) # 1 THEN Done
        ELSE /\ call' = [call EXCEPT !.fetched = <<>>, !.naming = LastOf(call.fetched, named)]
             /\ pc' = "tag"
  /\ UNCHANGED <<network, kept, held, listed>> /\ Keep

\* mutant of ProtectionTag: the tag the record has now, with the fields it had
ProtectionTagNow(naming) == store[naming.name].serial

\* save_naming_record presents the tag its record was fetched with
ProtectionTag(naming) == naming.tag

\* what save_naming_record refuses before it writes
Writable(naming, field, master) ==
  ProtectionInfo(naming) \notin {None, Garbled} /\ field \in DOMAIN naming.fields /\ master # None

\* _zone_protection_tag, and the save sent
Send ==
  /\ pc = "tag"
  /\ LET naming == call.naming
         master == MasterFor(naming, Reader(call.keys, <<>>))
         value  == EncryptField("ours", master, Context(Zone, naming.name, call.given))
     IN IF ~Writable(naming, call.given, master) THEN Done /\ UNCHANGED network
        ELSE /\ network' = network \cup
                  {[name |-> naming.name, tag |-> ProtectionTag(naming), zoneTag |-> rolls,
                    fields |-> [naming.fields EXCEPT ![call.given] = value],
                    given |-> call.given, of |-> renames]}
             /\ pc' = "saving"
             /\ UNCHANGED call
  /\ UNCHANGED <<kept, held, listed>> /\ Keep

Waits(save) == pc = "saving" /\ save.of = renames

\* a save arrives.  If its call still waits it returns the record as saved.
Serve ==
  /\ \E save \in network :
       /\ network' = network \ {save}
       /\ IF Accepts(save) THEN Put(save.name, Saved(save)) ELSE UNCHANGED <<store, clock>>
       /\ IF Waits(save)
          THEN Done /\ (held' = IF Accepts(save) THEN Saved(save) ELSE held)
          ELSE UNCHANGED <<pc, call, held>>
  /\ UNCHANGED <<rolls, changes, kept, renames, listed>>

\* one that no call waits for may be lost
Lose ==
  /\ \E save \in network : ~Waits(save) /\ network' = network \ {save}
  /\ UNCHANGED <<kept, pc, call, held, listed>> /\ Keep

Step == Fail \/ Open \/ ReadZone \/ Page \/ Return \/ List \/ Find \/ Send

Next == \/ Edit \/ Appear \/ Vanish \/ Roll
        \/ UseKeys \/ Read \/ Rename \/ Step \/ Serve \/ Lose

Spec == Init /\ [][Next]_vars

\* an answer comes or HttpSession's time-out does, and code runs on
FairSpec == Spec /\ WF_vars(Step)

-----------------------------------------------------------------------------
(* Properties *)

\* what a record says to those who hold its key
Plain(name, f) ==
  DecryptField(store[name].record.fields[f], FieldKey(name), Context(Zone, name, f))

Model(b) == IF "model" \in Given[b] THEN Plain(b, "model") ELSE None

\* what a naming or an alignment record tells of its accessory
Tells(name) ==
  IF name \in Namings THEN Plain(name, "name")
  ELSE IF name \in Undated THEN None ELSE Plain(name, "lastIndexObserved")

Readable == {name \in Live : FormOf[name] \notin {"foreign", "garbled"}}

Complete == {b \in Beacons : Required \subseteq Given[b] /\ Secondary \cap Given[b] # {}}

Of(id, kind) == {name \in kind \cap Readable : About[name] = id}

\* removed since the call began: it may have been read before that
Removed(name) == store[name].record = None /\ store[name].serial > call.begun

Says(id, kind, value) ==
  \/ value \in {Tells(name) : name \in Of(id, kind)}
  \/ value = None /\ Of(id, kind) = {}
  \/ \E name \in kind : About[name] = id /\ Removed(name)

\* the last entry of an accessory
LastEntry(b, i) ==
  i \in DOMAIN listed' /\ listed'[i].identifier = b
  /\ \A j \in DOMAIN listed' : j > i => listed'[j].identifier # b

\* A listing that was read to the end, with nothing written since the last
\* page, has every accessory that can be read and used, and the last entry of
\* each is as its master record is now: an earlier version may stand before
\* it.  Whatever entry, it tells what a naming and an alignment record of it
\* say now, also if those changed between the pages, and nothing that no
\* record says.  Only a record removed between the pages may still be in it
\* (fetch_accessories, group_records).
Newest ==
  List /\ call.complete /\ call.readAt = clock /\ ZoneKey(rolls) \in call.keys =>
    /\ \A b \in Complete \cap Readable :
         \E i \in DOMAIN listed' : LastEntry(b, i) /\ listed'[i].model = Model(b)
    /\ \A i \in DOMAIN listed' :
         LET a == listed'[i] IN
         /\ a.identifier \in Complete /\ (a.identifier \in Readable \/ Removed(a.identifier))
         /\ Says(a.identifier, Namings, a.name)
         /\ Says(a.identifier, Alignments, a.index)

ListingIsNewest == [][Newest]_vars

\* Renaming by identifier finds the accessory if nothing was written since the
\* call began and one readable record names it; and what it is about to save
\* is the record as of the last page, never an earlier version of it, if the
\* pages came to an end (find_naming_record).
Found ==
  Find =>
    /\ call.begun = clock /\ call.complete /\ ZoneKey(rolls) \in call.keys
         /\ Cardinality(Of(call.target, Namings)) = 1 => pc' = "tag"
    /\ pc' = "tag" /\ call.complete /\ call.readAt = clock /\ call'.naming.name \in Live
         => call'.naming = store[call'.naming.name].record

RenameFinds == [][Found]_vars

\* "This changes exactly the fields it is given": a save that arrives, however
\* late and whatever was written since its record was read, gives one field
\* the new value and leaves every other as it is; and everyone who could read
\* the record still can.
OnlyGiven ==
  \A save \in network : Serve /\ network' = network \ {save} /\ Accepts(save) =>
    /\ DOMAIN store'[save.name].record.fields = DOMAIN store[save.name].record.fields
    /\ store'[save.name].record.wrapped = store[save.name].record.wrapped
    /\ \A f \in DOMAIN store[save.name].record.fields :
         Plain(save.name, f)' = IF f = save.given THEN "ours" ELSE Plain(save.name, f)

RenameChangesOnlyGiven == [][OnlyGiven]_vars

\* every call returns or raises: a zone that keeps handing out tokens is given
\* up after max_pages
CallsEnd == pc # "idle" ~> pc = "idle"
=============================================================================
