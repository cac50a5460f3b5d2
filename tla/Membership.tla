---------------------------- MODULE Membership ----------------------------
(***************************************************************************)
(* What AsyncKeychainSession.join promises about the trust circle, without *)
(* its requests: "the escrow record is enrolled before the join is sent".  *)
(* An identity whose join is sent is never withdrawn again, so a peer in   *)
(* the circle has a record, unless somebody deleted it on purpose.         *)
(***************************************************************************)
CONSTANT Own          \* the identities this client generates

VARIABLES
  record,      \* identities with an escrow record
  committed,   \* identities whose join has been sent
  member,      \* identities in the circle
  removed      \* identities whose record somebody asked to delete

vars == <<record, committed, member, removed>>

Init == record = {} /\ committed = {} /\ member = {} /\ removed = {}

Enrol(p) ==
  /\ p \notin committed
  /\ record' = record \cup {p} /\ UNCHANGED <<committed, member, removed>>

\* a failed enrolment is cleaned up, before anything depends on it
Withdraw(p) ==
  /\ p \notin committed
  /\ record' = record \ {p} /\ UNCHANGED <<committed, member, removed>>

\* the one irreversible step, taken once per identity
Commit(p) ==
  /\ p \in record \cup removed /\ p \notin committed
  /\ committed' = committed \cup {p} /\ UNCHANGED <<record, member, removed>>

Admit(p) ==
  /\ p \in committed
  /\ member' = member \cup {p} /\ UNCHANGED <<record, committed, removed>>

Leave(p) ==
  /\ member' = member \ {p} /\ UNCHANGED <<record, committed, removed>>

Remove(p) ==
  /\ record' = record \ {p} /\ removed' = removed \cup {p}
  /\ UNCHANGED <<committed, member>>

Next == \E p \in Own :
  Enrol(p) \/ Withdraw(p) \/ Commit(p) \/ Admit(p) \/ Leave(p) \/ Remove(p)

Spec == Init /\ [][Next]_vars
=============================================================================
