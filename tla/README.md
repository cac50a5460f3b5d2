# FindMy.py: specifications, model checks and proofs

TLA+ modules for the stateful core of FindMy.py, the TLC configurations that check them on
small instances, and proofs, checked by TLAPS, of the properties that matter most. Paths of
source files are relative to `src/`; `findmy/` is the package.

## The system

FindMy.py logs into an Apple account, downloads the encrypted location reports of accessories,
keeps track of which rolling key an accessory is using, and (a newer half) recovers the account's
iCloud keychain to find out which accessories there are. Everything is `asyncio`: one thread, and
a public coroutine gives up control at every `await` of a request. **Nothing in the package
serialises two coroutines on one object** (the lock that all scanners share is the only lock), so the unit of
atomicity in every module here is the code between two awaits.

| component | state it keeps | operations | what makes it correct |
|---|---|---|---|
| account (`reports/account.py`, `state.py`) | `_login_state`, `_login_state_data`, `_account_info`, `_username`/`_password`; the file `to_json` writes | login, second factor, PET, terms, complete_login, fetch_raw_reports, announce_device, to_json/from_json | state and data belong together; a PET is lent without costing the login; each call ends |
| accessory and reports (`accessory.py`, `reports/reports.py`) | `_alignment_date`, `_alignment_index`; the locals of a sweep | get_min/max_index, update_alignment, keys_at, current_keys, fetch_location_history | the alignment does not overtake the accessory; the search reaches it; the newest report is found |
| key generator (`accessory.py`) | two cache tiers | _get_sk | a cached key is the key of its index; the tier is bounded |
| keychain session (`keychain/session.py`, `escrow.py`, `enrolment.py`, `cuttlefish.py`) | `_options`, `_bottles`, `_peers`, the escrow token and its age | recovery_options, peer_directory, recover, key_shares, join, delete_record, open, close | a peer that joins has its escrow record; live recovery paths are not deleted; caches do not deny what was just done |
| trust circle (`keychain/peers.py`, `join.py`) | the directory being read | fetch_peer_directory, merge_trust, next_stable_clock | the whole circle is read; trust is inherited, never invented |
| escrow recovery (`keychain/recovery.py`) | a process-global SRP flag | recover_bottled_peer | the flag is right at each computation |
| CloudKit (`cloudkit/client.py`, `beacons.py`) | `_info`, continuation tokens, protection tags | open_container, record_sync, iter_records, record_save | everything is paged through; a save never overwrites an unseen change |
| Find My client (`icloud.py`) | `_keychain_keys`, `_zone_keys` | unlock, use_keys, zone_keys, accessories, rename | zone keys belong to the keychain keys held |
| anisette (`reports/anisette.py`) | cached headers and expiry; lazily loaded engine | get_headers, to_json | headers not older than their validity; one engine |
| HTTP and managers (`util/`) | two lazily opened sessions; a dict of objects | request, close, save | nothing is used after close, everything is closed |
| scanner (`scanner/scanner.py`) | scan count, one future | scan_for | started iff somebody scans |
| shares, items, bottles, service keys (`keychain/shares.py`, `items.py`, `bottle.py`, `servicekey.py`) | none; what a session keeps of them | unwrap_share, decrypt_item, service_keys_from_der, find_bottle_keys | a member reads every key it can reach, an odd share or item costs nothing else |
| protected data (`cloudkit/pcs.py`, `records.py`) | none | unwrap_protection, unwrap_zone, decrypt_record | each form of protection opens with the key of the zone |
| bytes (`keys.py`, `util/crypto.py`, `der.py`, `proto`, `plist.py`) | none | parsing, cryptography | test vectors; not modelled |

How they interact: the reports fetcher and the keychain session hold the account and call its
coroutines (`fetch_raw_reports`, `request_pet`, `get_anisette_headers`); the session talks to the
escrow proxy with the PET the account lends and to Cuttlefish through a CloudKit client that uses
the account's service tokens; the Find My client owns a session and a beacon store; fetched
reports call back into the accessory (`update_alignment`). All requests pass `util/http.py`, whose
time-out is what ends a lost one.

What is hard in it: a coroutine reads shared state, awaits, and writes it back (request_pet,
recovery_options, join); answers come late, twice or not at all, and requests may have been served
although their answer was lost; a retry repeats what may have been done; reports come days late
and in any order; the alignment is a one-way ratchet, so an error in it is permanent; joins and
deletions cannot be undone. `PROJECT.json` lists these hazards line by line.

## Modules

| module | what it is |
|---|---|
| `Account` | AsyncAppleAccount: one action per segment between two awaits |
| `LoginFlow` | abstract: the login levels, one PET, tokens bought with it, PETs lent |
| `Accessory` | alignment and sweep of a rolling-key accessory, with the accessory and the finders |
| `Keychain` | AsyncKeychainSession, the escrow proxy and Cuttlefish |
| `Membership` | abstract: an identity is enrolled, sent once, admitted |
| `Trust` | reading the circle page by page, merging trust, the join's request and its answer |
| `Keys` | how a client comes by its keychain keys: bottles, shares, class keys, items, and who may read what |
| `Pcs` | the chain of keys from a CloudKit zone to a field, symbolically |
| `Beacons` | the Find My client, the beacon store and the CloudKit client, over `Pcs` |
| `KeyCache` | the two cache tiers of the key generator |
| `Scanner` | the scans that share a radio, its lock and a future |
| `Http` | HttpSession: two lazily made sessions, retries, close |
| `Anisette` | the remote anisette provider, over `Http` |
| `MCProcess` | composes `KeyCache`, `Scanner`, `Http` and `Anisette` for one run: a behaviour is one of them at work |
| `MCKeychainSequential` | composes `Keychain` and `Trust`: what one client does, call after call; a behaviour is one of them at work |
| `MCKeychainConcurrent` | composes `Keychain` and `MCKeys`, beside other devices, in the same way |
| `MCAccount`, `MCAccessory`, `MCKeys`, `MCBeacons` | instances for TLC |
| `AccountProofs`, `AccessoryProofs`, `KeychainProofs`, `TrustProofs`, `KeysProofs`, `BeaconsProofs`, `KeyCacheProofs` | theorems about a module each, and their proofs |
| `ProcessProofs` | the same for `Scanner`, `Http` and `Anisette` |

A definition whose comment begins with "mutant of" is a plausible error in the definition named:
with it in that place, TLC finds the property violated.

### Account

`session` is the triple `request_pet` saves and restores: `state` is `_login_state`, `info` whether
`_account_info` is set, `data` the keys of `_login_state_data` that the code indexes. Tokens are the
number of the Grand Slam authentication that issued them (0: key absent, -1: empty string), so that
an old and a new token differ; `issued` counts authentications. `hasCreds` stands for both user name
and password. A task's `pc` names the await it is at: two for `_gsa_authenticate`
(`gsa_init`, `gsa_complete`), two for `_login_mobileme`, and so on; `saved`, `cred`, `adsid`, `auth`
are locals it carries across. `_require_login_state` is a plain wrapper: it looks at the login state when the
method is called (`Called`, with `Allowed`), and the coroutine it returns begins when it is awaited or its task is
scheduled, in whatever state the account is in by then (`Start`, one action for each body; `pc` is
`"called"` in between). The private coroutines are awaited where they are called, so that their decorators are
checks in `GsaEntered` and `MobileMeEntered`. `Raise` is an exception leaving a coroutine, `request_pet`'s
`finally` included; `Cancel` raises `CancelledError` at any await. `ToJson` may happen at any
moment, also while a coroutine is in flight; `Restart` loses every coroutine, and may read a file
of an older version (no `adsid`, no heartbeat token) or one whose password was not kept.
`fetch_terms` and `accept_terms` are one operation, as are the two kinds of second factor: their
steps on the account are the same. In the code `request_pet` saves a reference to the data
dictionary; no other coroutine writes into that dictionary except another `request_pet` adding the
same `adsid`, so a copy is equivalent.

### Accessory

Time is in units, `Interval` of them to a rollover (15 minutes), `Window` of them to seven days;
keys are symbolic, `<<"p", i>>` and `<<"s", k>>`. `index` and `age` are the accessory's (a rollover
happens at most once per interval, possibly later: `age`), `heard` what finders hold, `apple` what they
have uploaded. `align` is the alignment. `Ask` is the while loop up to the next request: it collects
indices downwards while at most `Batch` keys of each type result, reading `get_min_index` anew
(an index is in the request even when the lower bound has passed it, as after a full batch).
`Found`/`NotFound` are the answer, `Decrypt` one iteration of the decrypting loop; that loop has no
await, so all other actions wait for it (`Quiet`). A request that fails, or whose empty answers
become an empty list, ends the fetch as `failed`. Restored alignments and `only_latest=False`
(which no public call uses) are left out. `Scan` is a caller feeding a sighting back, as
`docs` and `examples` suggest, with the lowest index at which the key seen may occur. `Lowest` takes the least of
the indices the call has put into its requests so far, as `key_to_ind` does: where a request ends inside the window of a
secondary key, that is not the least the key could have.

### Keychain

`records` is what the escrow proxy holds (a record is named by the peer its label embeds; companion
labels are left out), `circle` the peers Cuttlefish trusts, whose bottles are the viable ones.
`options`, `bottles`, `directory` are the session's caches. A request is sent (`Send`), served
(`Serve`, where it takes effect on the services), and answered (the `...Reply` actions, which run the
code up to the next await); `Refuse` is an `EscrowError`, before or after serving, `Fail` a time-out,
transport error or cancellation; with `Late`, a request given up on may be served afterwards
(`ServeLate`). Requests that only fetch something nobody changes are served as they are sent.
`Busy` lets other devices enrol, join, leave and delete. The viability service may answer that
nothing is viable (an outage). `removed` are records somebody meant to delete. Whether the escrow
token is stale is a boolean that `Age` sets at any moment.

### Trust

Cuttlefish keeps a `feed` of changes, each a peer's `Statement` or something that is no peer
(`Unreadable`); a reset empties it and ends the life of tokens (`epoch`). `Page` and `StartOver` are the
loop of `fetch_peer_directory`, `Backstop` its page limit: an empty page ends it, a page may come
without a token, an expired token restarts it once. `Seed`, `MergeOne`, `Merged` are `merge_trust`, one
iteration an action; it awaits nothing, so nobody else moves (`Ongoing`). `SendJoin` and `Answered` are
`joinWithVoucher` and `PeerDirectory.updated`. A voucher's signature is a boolean, and so is whether
a peer's name is the one its permanent info derives.

### Keys

A key is a record that names it; what is wrapped under a key opens with that key alone. `circleNow` is the circle,
`circleRead` the directory the session keeps of it, `saltOf` the identifier each sealed bottle is salted with;
`shares`, `items` and the `currentitem` pointer are the services'; other devices join (`JoinOther`), roll a view's
keys (`Roll`) and add items. `FetchShares` is `unwrap_share` of every share in the reply, `ReadView` is
`_view_keyring` and `_pcs_keys_in` of one view: `ReadableItems` lists what decrypts by `acct`, passes over an item
without one, and of several with the same keeps the one the zone lists last, here any. `ReadService` follows the
pointer, `JoinCircle` re-addresses the shares. One share in the reply may be odd: wrapped to another key than it says,
without key material, or without its name. Items hold a verified pair, a bare scalar, scalars known only by position,
a blob whose halves disagree, or were changed; one has no `acct`, one that of another.

### Pcs and Beacons

`Pcs` has the operators of `unwrap_protection`, `unwrap_zone`, default keys and field encryption, over keys that are
names with the number of derivations applied. In `Beacons` every record has a form of protection (its own, among
several readers, read-only, without a share key, the zone's default, for someone else, no DER at all, or none but the
name of a zone default, as `pcsKey` has it); `store` has each record at its last change, as CloudKit's change feed
does. `Open`, `ReadZone`, `Page`, `Return`, `List`, `Find`, `Send` are the segments of `records`, `accessories` and
`rename`; `Serve` is the save at CloudKit and, if the call still waits, its return. A call that gave up (`Fail`)
leaves its save in `network`, which may arrive later or be lost. Other devices edit, add and remove records, and roll
the zone's key. `Given` says which fields the master record of each accessory has: `Refused` are those
`accessory_from_record` raises for, `Aligned` wants an observation date. `listed` is what `accessories` returned, by
the position in what was read of the master record each entry is made of: a record that changed while the pages were
read makes two entries.

### The parts of a process

`KeyCache`: the secret of index n is the number n and the KDF is successor, so that a secret in the
wrong place is a wrong number; one action per key derived. `Scanner`: `lock` is `_scan_ctrl_lock`, held while
the radio is awaited; it belongs to the class, so that any other scanner may hold it too (`OtherScanner`).
`cancelled` says that the shared future was cancelled and not replaced, `orphaned` has the scans that wait for one
that was replaced. A caller's task may be cancelled wherever it waits: for the lock (`CancelledLocking`, where a scan on
its way out stays counted), for the radio (`Started`, `Stopped`), for a device or anywhere in the loop (`Leave`).
`stuck` says that nobody will stop the radio any more. `Http`: aiohttp sessions are numbered in the
order they are made; `open` are those not closed, `abandoned` those whose close raised. `Anisette`: an answer
is the time the server made it, which lies between the attempt and its arrival.

## Runs

| run | instance | shows |
|---|---|---|
| `account_sequential` | 1 caller, 5 retries, 3 authentications, 1 restart | types, no `KeyError`, heartbeat token of the right login, PETs lent without a trace, only the 401 handler loses a login, refinement of LoginFlow, every call ends |
| `account_concurrent` | 2 callers, 1 retry, 2 authentications, 1 restart | state and data always fit, PETs are fresh |
| `accessory_owner` | 1 fetch at a time, scans, interval 2, window 4, 2 keys and so one or two indices a request | types, a fetch finds the newest report its last request looks back to, fetches end |
| `keychain_sequential` | 1 caller, 2 own identities, 1 other device, nobody else changes the account; or 3 peers and 6 statements, 3 changes, 4 pages of at most 2, one reset | types, caches know a join that returned, deletion spares live records, every call ends; a complete read is the circle, trust is inherited, removals stand, the sent trust supersedes, the answered join knows the circle, reads end |
| `keychain_concurrent` | 2 joins, 2 own identities, 1 other device at work, late deliveries; or 3 devices, 2 views, 6 items, 2 changes | no peer without a record, refinement of Membership; an undisturbed resume reads what the peer can reach, the service key is the confirmed one of the current item, a join loses no key |
| `beacons` | 4 accessories, 2 naming and 2 alignment records in different forms, 1 foreign change, 1 rename, 3 pages of at most 2 | listings are current, renames find the record and change one field, calls end |
| `process` | tiers of 2 and 1 keys and 9 indices; 3 scans beside another scanner; 2 requests and 2 sessions; 5 moments | the right secret, the radio on, nothing left open, headers fresh, a full tier keeps what was just computed, scans end |

Five more runs each show one statement of a comment or docstring that the code does not keep; TLC finds the
trace, and `PROJECT.json` ("findings") quotes the statement.

| run | statement | what happens |
|---|---|---|
| `account_retry` | `RetryUsesNewToken` | the report request repeated after a 401 has the token from before the new login |
| `account_pet` | `PetNeverLowersLogin` | `request_pet` is called on a login; a 401 handler loses it before the body begins and another call completes it while the body runs; the body puts the lower level back |
| `accessory_range` | `SearchCoversAccessory` | an accessory aligned late in its interval broadcasts one index past `get_max_index` |
| `accessory_separated` | `NeverAhead` | a request cuts a secondary key's window, and the alignment moves past the accessory |
| `keys_resume` | `ResumeFollowsTheRoll` | a resume refuses the shares of a device that joined since the directory was cached, and stores what is left |

Bounds. `MaxAuths`, `MaxRestarts`, `MaxTime`, `MaxReports`, the sets `Own` and `Others` and the one pending element of
`late` bound the runs and nothing in the code. Three authentications let a login, a re-login and a lent PET follow
each other; two let two callers each complete one. A restart more only repeats a state a first one reaches. Five or
six time units exceed the window of 4, so that reports age out and the lower bound moves; a batch of 2 splits a sweep
into up to four requests, long enough for reports to age out of it while it runs; in `accessory_separated` a batch of
3 splits a sweep inside a secondary key's window, as 290 keys do a sweep of 672 indices, and `Span` 2 with
`PairingOffset` 1 gives windows of up to four indices with the accessory's secondary key off by one, as 96 and any
pairing time do. Two identities let one join follow another's debris. Runs without liveness use symmetry where there
is any; runs with liveness do not. The runs `keychain_concurrent` and `process` turn deadlock checking off: when both
identities are used up and the other device is gone, or when a session is closed and every scan was made, nothing is
left to do. In `keychain_sequential` a join that is over stutters (`Over`), so that deadlock is checked for the rest.

Three runs put parts side by side that know nothing of each other (`part`); the ones that rest start in one of their
states. The view of `keychain_concurrent` leaves them out, and with them `keys`, the keychain keys the client holds,
which every resume overwrites and no action reads: states that differ in nothing else have the same future.

`MaxFeed` and `MaxResets` bound what the circle does, `MaxChanges`, `MaxRenames` and `Absences` what happens to the
zone and the views, `MaxScans`, `MaxMade`, `MaxIndex` and `MaxTime` the parts of a process. Three changes suffice for
a peer to be vouched for or excluded, and for two updates to tie; four pages with a restart reach the page limit. Two
changes make a device join and then roll the keys. In `account_pet` the three authentications are a login, the
challenge that loses it and the login anew. With one change a record is read in two versions, vanishes between pages,
or the zone's key rolls under kept zone keys. Nine indices fill both tiers and evict at either end. A third scan is
what a second one's time-out cancels and a replaced future orphans.

Which properties need callers that await. With two callers, `PetLeavesSessionIntact`, `OnlyReauthLosesLogin`,
`NoKeyError`, `HeartbeatOfTheLogin` and the refinement of LoginFlow are about one call while another runs, and
concurrent re-logins break them (a PET lent while another call logs in anew puts the older session back:
`account_pet`); what survives is checked in `account_concurrent`. `SessionKnowsItsJoin` and `DeleteSparesViable`
likewise need a session whose calls are awaited in turn on an account that no other device changes: a listing that was
asked for before a join and answered after it, or one cached an hour ago, does not know better.

Fairness is weak fairness of `Resume`, a call's own steps (in `Accessory` strong fairness, since a decrypting loop
keeps the others waiting again and again): every request either is answered or ends within `HttpSession`'s time-out
(`findmy/util/http.py:174`), every `asyncio.sleep` ends, and the event loop runs what is ready. In `Trust`
(`TrustFairness`) and `Beacons` it is weak fairness of `Step` for the same reason. `ScanFairness` says that time
passes, that the radio answers, that other scanners let go of the lock, that callers go on iterating the generator,
and, as strong fairness of `Lock`, that `asyncio.Lock` is handed on in turn. Nobody is obliged to call, cancel, save,
scan, roll over, upload, advertise or close.

## Proofs

TLAPS checks these for every value of the constants (any number of callers and fetches, any batch
size, window and identities), under the assumptions that stand with the constants and those a
theorem names. Each invariant below was checked by TLC before it was proved. `OneCaller` says that the calls
are awaited in turn; `~Busy` that no other device changes the account, `~Late` that nothing given
up on is served afterwards, `~Separated` that the accessory is heard under its primary keys only. Each is
needed: TLC finds the property violated without it.

**Account** (`AccountProofs`): `TypeCorrect`, `SessionAlwaysUsable` and `HandedOutPetFresh`, for any interleaving.
`SessionUsable` is not inductive: that what `request_pet` puts back is usable, whatever state its body began in, and
that a coroutine about to set a login state carries a token, is needed as well. The inductive invariant adds
`GoodTask`: at each await, which operation can be there, that a call's saved session is usable, and that the numbers
it carries do not exceed `issued`. For one caller, from `FlowInv`: `NoCallEndsInKeyError`, `HeartbeatBelongsToLogin`,
`PetLeavesSession`, `LoginLostOnlyByReauth` and the refinement, `AccountImplementsLoginFlow`. `FlowInv` says of the
one call at each await what the session must be there (`Stage`): between a call and its body nothing moves; a delegate
exchange still has the PET it was sent with, the re-authentication inside a `request_pet` finds the session that call
saved; and that a login carries the heartbeat token of the authentication it exchanged. The refinement then goes
action by action: each is one step of LoginFlow or leaves its variables alone.

**Accessory** (`AccessoryProofs`): `TypeCorrect`, and for primary keys only `SearchMisses` (the range searched, which
`accessory_range` shows too small, misses the accessory by one index at most) and `FetchFinds`. The two invariants
behind them relate every report in existence to the accessory. `PaceInv`: whatever places the accessory, the alignment
or a report in existence, was right about its moment, and the accessory has rolled over at most once an interval and
one more between any two such moments and until now. `SeekInv`: while a request is in flight, a report that was due
when the call began lies no higher than the indices still to be asked for, and once the sweep has come to its lower
bound no lower; while reports are decrypted, one at least as new is among them. That is what may not be lost when a
report just decrypted, a scan or another fetch moves the alignment, and the lower bound with it, between two requests.
Nothing is proved for secondary keys: there the alignment does run ahead (`accessory_separated`), and what a fetch
then finds is not known.

The proof corrected the property. `FetchFindsNewest` used to promise every report that was within seven days when the
fetch was called. Each request of a sweep computes its own `startDate`, though
(`findmy/reports/account.py:1281`), and on larger instances TLC found sweeps that outlast the oldest of those
reports. It now promises those that the last request still looks back to, and `accessory_owner` has bounds at which
the older form fails.

**Keychain** (`KeychainProofs`): `TypeCorrect`, `PeerKeepsRecord`, and the refinement,
`JoinImplementsMembership`, for overlapping calls. That a record is there whenever the join was sent (`Ordered`) is not
inductive: another call might withdraw the record, or a late delivery might. The inductive invariant
adds what rules that out. `Legal`: which call can be at which await, and that a renewed token is
followed by the request it was renewed for. `Owned`: an identity belongs to one join, which has sent it
if and only if it waits for the answer, and whose enrolment, once served, is there. `Harmless`: a
request that outlives its caller is a join of something sent, or a write about an identity never sent
on which no call works any more. One lemma (`Moves`) says what a step of a call must see to for
all of this to last, and each action is shown to see to it; the refinement follows action by action. It
rests on identities being generated afresh (`CallJoin` takes an unused one), never on the
services answering in order. For calls awaited in turn on an account nobody else changes: `JoinIsKnown`, also
with late deliveries, from `KnowsInv` (the caches, an answer not yet read, and the directory a join holds on to know
every join that returned); and without late deliveries `ViableIsSpared`, from `SparesInv` (a listing, cached or on its
way, offers for deletion no record of a peer that is in the circle or may still come into it).

**Trust** (`TrustProofs`): `NeverInvented`, `RemovalsStand`, `AlwaysSupersedes`, `ReadsComplete`, `JoinedKnows`,
all from one invariant in three parts. `Synced`: applying what the feed has after the token to the directory
gives the circle, unless the token has expired; it is what makes an empty page, and the
answer to a join, mean that nothing is missing. It rests on lemmas about `Apply` (applying two runs
of changes in turn is applying them joined). `Joining`: what the request under way carries. `Merging`: what
has been merged so far has no later clock than what is ahead, every believed exclusion holds unless a later
believed statement includes the peer again, and every closed set that has the sponsor's peers has what is
asserted.

**Keys** (`KeysProofs`): `JoinKeepsReach`. The invariant (`KeyInv`) says that shares are between members, that a share
says the key it is wrapped to, and what a join that nothing disturbed has read: the circle, and then everything its
sponsor can open. A lemma (`ReachByShare`) turns the new shares into what they reach. `CurrentServiceKey` needs no
invariant but that items are named; what is behind it is the order of an item's candidates (`FirstRanked`, from the
least element of a set of positions). `ResumeReadsAllKeys` puts both together. A view's shares to one peer all hold
the same key (`Agreeing`), so it does not matter which of them `_view_keyring` takes; a ring reads the view's items
when its share holds the view's key (`RingReads`); an item gives all it holds (`ItemGivesAll`); and so a resume has at
any time no key its peer does not reach, and of the views it is done with all those of the items that a listing by
`acct` cannot lose (`Reading`). TLC checked that invariant on `MCKeys` first. The theorem assumes that items are
`Legible`: named fields are among the members, are all the keys there are once one of them proves itself, and there
are two keys at most. The items of `MCKeys` are; with an item that is not, in any of the three ways, TLC finds a
resume that misses a key, since the code takes two keys and does not look past a verified named field.

**Beacons** (`BeaconsProofs`): `RenamesOnlyGiven`. A save carries every field of its record, as read long before it
arrives, and overwrites what is there. The invariant (`RenameInv`) says why that is harmless: whatever was read,
found, kept by the caller or is about to be saved is the zone's record for as long as the zone's has its tag (`Copy`),
since every change takes a tag no record had before (`Moved`). The new value is readable since a record's protection
names the key of its fields and `unwrap_protection` compares (`OpensToItsKey`), whichever share it opened.

`ListsNewest` and `RenameFindsRecord` are about pages read while the zone changes. Their invariant (`ReadInv`) adds three
things. `StoreInv`: what the zone has is encrypted field by field under the record's key and wrapped to the zone's key of
now. `FeedInv`: of every record up to the place the token names, the version the zone has is in what was read, and
nothing of that record after it (`Known`); a record changed since is ahead of the token again, with a later number
(`Newer`), and so the last page makes it `Known(clock)` if nothing was written since; what was read
was removed, if at all, after the call began; and if nothing was written since then, each record was read once, which is what
makes the one match a rename wants unique. `KeysInv`: the keys at hand are not a stranger's. From the operators of `Pcs` it
needs what each form of protection opens to, and for whom (`OwnOpens`, `DefaultsAre`, `ReaderOpens`): a record others
protected for the zone opens to the key of its fields with the zone's key of now, and a foreign or garbled
one to nobody here. `LastSays` joins the two: the last version read of the records that name an accessory
is one the zone has, or of a record removed meanwhile. Of a master record the zone's version is read last, and so the last
entry of its accessory is as the record is now; an entry before it may be of an earlier version. A record lacks a field
in every version if it does in one (`MasterTaken`), so what is refused once is refused always.

All three need that keys, protection structures and names are not `None` and that there are finitely many records.

**KeyCache** (`KeyCacheProofs`): `SecretAlwaysRight` from `Right` (every cached secret, and the one at
hand, is that of its index), `ComputedStays` and `TiersBounded`. Both need that a nonempty finite set of numbers has a
least and a greatest element, which is proved by well-founded induction over its strict subsets.

**Scanner** (`ProcessProofs`): `RadioAlwaysRight`. The invariant (`Paired`) counts: `_scanner_count` is at least the
number of open scans, and more only once a scan was cancelled on its way out; while any is counted the radio is on and
nobody holds the lock across an await; the lock's holder, if it is one of these scans, is the one that is starting or
stopping the radio; and only waiting scans are orphaned.

**Http and Anisette** (`ProcessProofs`): `ClosedLeavesNothing`, since every open session is one that
`_session` or `_unpooled` still names or one whose close raised, and none is made once `_closed` is set;
`HeadersAlwaysFresh`, since cached headers were made at most one time-out before they arrived.

Stays with TLC: liveness (`CallsEnd` of three modules, `FetchEnds`, `ReadEnds`, `ScansEnd`), which is beyond this prover.

## Where the code surprises

Met while modelling, beside the five findings above. The models do as the code does here, except where a line says
otherwise.

- `request_pet` puts back the session it saved, data included: also a login of the same level that another coroutine
  completed meanwhile is lost.
- Fetching and accepting terms fail for an account with a password: `_fresh_pet` calls
  `_gsa_authenticate` (`findmy/reports/account.py:1151`), which refuses to run in `AUTHENTICATED`, while a login that
  terms block is just that, with an error that `_fresh_pet` does not catch.
- `recovery_options` stores the bottles one await before the records they belong to.
- `decrypt_records` catches only `PCSError`: one record whose protection is no DER ends the listing of all.
- A naming record that changed while the pages were read arrives twice, and `rename` refuses it as
  ambiguous. A master record that changed arrives twice as well, and is listed twice, its older version first, whereas
  the docstring of `group_records` says "One group per master beacon, in the order the beacons arrived"
  (`findmy/cloudkit/beacons.py:440`). A record deleted between two pages stays listed.
- Zone keys kept across a roll of the zone's key make `rename` say that there is no such accessory.
- `_view_keyring` takes the first share that has keys, `_pcs_keys_or_none` catches only the session's own
  error, and a resume whose views all fail stores no keys and says so only in the log.
- `pcs_keys` promises "Every elliptic-curve key a keychain view holds" (`findmy/keychain/session.py:615`). It goes over
  `readable_items`, which passes over an item whose `acct` is empty and keeps one item of each `acct`, the last the zone
  lists, whether or not that one has a key (`findmy/keychain/items.py:457-459`). `ResumeReadsAll` says what is left of the
  promise: no key of an item whose `acct` is its own is missed.
- When a cache tier of the key generator is full, the code evicts the smallest index unless the one just added is the
  smallest, and then the largest. The comment (`findmy/accessory.py:722-723`) says the opposite: "If adding a historical
  key, evict smallest index", "If adding a future key, evict largest". Taken at its word (the mutant `EvictedSmallest`) a key
  just computed would be thrown away at once; `JustComputedStays` is about what the code does.
- A scan whose caller is cancelled while `_stop_scan` waits for the lock stays counted: no later scan brings
  `_scanner_count` to 0, and the radio stays on for good. If the caller is cancelled while the radio is being started, the
  scan is not counted and the radio may be on. `RadioWhileScanning` names both exceptions (`stuck`).
- One scan's time-out cancels the future all scans wait for, and with it the scans, whereas the comment at
  `findmy/scanner/scanner.py:474` speaks of one waiter.
- Of two recoveries that overlap, the second saves the SRP library's flag as the first has set it; if it ends
  last, every later login computes its proof the wrong way, which looks like a wrong password. Not modelled:
  the flag is the library's, and overlapping is up to the caller.
- A cancelled `close` of `HttpSession` leaves the pooled session open for good.
- Two first calls of the local anisette provider each load and provision an engine; the one saved is not
  always the one that was used. That provider is not modelled.
- `close` of the keychain session, and of the session managers, stops at the first exception; neither is modelled.

## Not modelled, and the plan

Next, in this order:

1. Companion labels, `open` and `close` in `Keychain`; the escrow token's age against the time requests take; a listing
   made stale by another device or by a second call before a deletion.
2. Two calls at once in `Beacons`, which share the kept zone keys and the client's container.
3. Saved alignments in `Accessory`; what a fetch finds under secondary keys once the alignment has run ahead; the local
   anisette provider around a symbolic engine.

Not planned: cryptography, DER, plist and protobuf parsing, field decoding and property-list output of
records, the terms-of-service parser, the session managers (a dictionary gone through once), the
synchronous wrapper (it runs one coroutine at a time: the one-caller runs), the command line.
