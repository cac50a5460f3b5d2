-------------------------------- MODULE Pcs --------------------------------
(***************************************************************************)
(* Protected CloudKit data (findmy/cloudkit/pcs.py), symbolically: what is *)
(* wrapped or encrypted under a key opens with that key and no other.      *)
(*                                                                         *)
(* A protection structure wraps one master key, or a key the master key is *)
(* derived from, to each of its readers.  A zone's yields the zone keys    *)
(* its records are wrapped to; a record's yields the key of its fields.    *)
(***************************************************************************)
EXTENDS Naturals, Sequences

CONSTANT None

\* a symmetric key, how often derive_key was applied to it, or the elliptic
\* curve key derive_master_ec_private_key makes of it
Secret(name) == [name |-> name, derived |-> 0, ec |-> FALSE]
Private(name) == [Secret(name) EXCEPT !.ec = TRUE]

Derive(key) == [key EXCEPT !.derived = @ + 1]
MasterEcKey(key) == [key EXCEPT !.ec = TRUE]

\* compute_key_id: a prefix that only one key has
KeyId(key) == key

NoShareKey == 5        \* SIGNATURE_DATA_VERSION_NO_SHARE_KEY

-----------------------------------------------------------------------------
(* What others write: master is wrapped to each reader in turn, directly   *)
(* where nothing is derived                                                *)

Share(reader, readOnly, carries) ==
  [to |-> reader, readOnly |-> readOnly, carries |-> carries]

Protection(shares, version, key, meta) ==
  [shares |-> shares, version |-> version, keyId |-> key, meta |-> meta]

Meta(under, symmetric, identities) ==
  [under |-> under, symmetric |-> symmetric, identities |-> identities]

-----------------------------------------------------------------------------
(* unwrap_protection *)

\* mutant of MasterOf: the share key is always derived
MasterOfDerived(protection, share) == Derive(share.carries)

\* a share key is derived into the master key, but not from a read-only
\* share and not in version 5
MasterOf(protection, share) ==
  IF protection.version # NoShareKey /\ ~share.readOnly
  THEN Derive(share.carries) ELSE share.carries

\* by position
Foremost(positions) == CHOOSE i \in positions : \A j \in positions : i <= j

\* _find_our_key: of the entries that name a key of ours the first, and only that
OurShares(protection, keys) ==
  {i \in DOMAIN protection.shares : protection.shares[i].to \in keys}

\* The master key, or None: no key held, or the structure's key id denies it.
\* Its HMAC and signature are checked, but nothing here requires them.
Unwrap(protection, keys) ==
  LET ours   == OurShares(protection, keys)
      master == MasterOf(protection, protection.shares[Foremost(ours)])
  IN IF ours # {} /\ protection.keyId \in {None, KeyId(master)} THEN master ELSE None

-----------------------------------------------------------------------------
(* A zone *)

\* read_meta: empty unless it decrypts
ReadMeta(protection, master) ==
  IF protection.meta # None /\ protection.meta.under = master THEN protection.meta
  ELSE Meta(master, <<>>, {})

MasterKeys(protection, master) == <<master>> \o ReadMeta(protection, master).symmetric

MasterEcKeys(masters) == {MasterEcKey(masters[i]) : i \in DOMAIN masters}

\* unwrap_zone: {} stands for the error
UnwrapZone(protection, keys) ==
  LET master == Unwrap(protection, keys)
  IN IF master = None THEN {}
     ELSE ReadMeta(protection, master).identities
          \cup MasterEcKeys(MasterKeys(protection, master))

\* unwrap_zone_record_defaults; <<>> also when it fails (zone_record_defaults)
ZoneDefaults(protection, zoneKeys) ==
  IF protection = None \/ Unwrap(protection, zoneKeys) = None THEN <<>>
  ELSE MasterKeys(protection, Unwrap(protection, zoneKeys))

\* select_default_master_key: the one the record names, or the only one
SelectDefault(defaults, pcsKey) ==
  LET named == {i \in DOMAIN defaults : KeyId(defaults[i]) = pcsKey}
  IN IF pcsKey = None THEN IF Len(defaults) = 1 THEN defaults[1] ELSE None
     ELSE IF named # {} THEN defaults[Foremost(named)] ELSE None

-----------------------------------------------------------------------------
(* A field *)

Context(zone, record, field) == [zone |-> zone, record |-> record, field |-> field]

EncryptField(value, master, context) ==
  [under |-> master, keyId |-> KeyId(master), context |-> context, value |-> value]

\* the header's key id, then what AES-GCM authenticates; None if refused
DecryptField(field, master, context) ==
  IF field.keyId \in {None, KeyId(master)} /\ field.under = master /\ field.context = context
  THEN field.value ELSE None
=============================================================================
