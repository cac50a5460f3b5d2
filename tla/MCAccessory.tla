---------------------------- MODULE MCAccessory ----------------------------
(* Instances of Accessory for TLC: an accessory near its owner, one that    *)
(* shows its secondary keys, one whose rollovers drift.                     *)
EXTENDS Accessory
=============================================================================
