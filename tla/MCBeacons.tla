---------------------------- MODULE MCBeacons ----------------------------
(* Accessory b is named by nb, or later by n2, and aligned by ab or a2,     *)
(* which has no date.  The record of c is protected for someone else, that  *)
(* of d is not DER, and that of e lacks a pairing date; these may appear.   *)
(* Each other record is protected in a way of its own.                      *)
EXTENDS Beacons

CONSTANTS b, c, d, e, nb, n2, ab, a2

MCAbout == [name \in {nb, n2, ab, a2} |-> b]

MCGiven ==
  [name \in Beacons |->
     {"privateKey", "sharedSecret", IF name = b THEN "sharedSecret2" ELSE "secureLocationsSharedSecret",
      "model"} \cup (IF name = e THEN {} ELSE {"pairingDate"})]

MCFormOf ==
  [name \in Names |->
     CASE name = b  -> "several"
       [] name = c  -> "foreign"
       [] name = d  -> "garbled"
       [] name = e  -> "own"
       [] name = nb -> "noShareKey"
       [] name = n2 -> "readOnly"
       [] name = ab -> "default"
       [] OTHER     -> "namedDefault"]
=============================================================================
