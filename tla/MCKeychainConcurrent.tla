------------------------ MODULE MCKeychainConcurrent ------------------------
(* A session while other devices are at work: two joins at once, or the     *)
(* keys a client comes by.  Neither knows of the other's state: a behaviour *)
(* is one of them while the other rests.                                    *)
EXTENDS Keychain, MCKeys

VARIABLE part

\* one circle is enough to rest
Resting ==
  /\ circleNow = {e, f} /\ current = second /\ Cardinality(shares) = 4
  /\ \E s \in shares : s.view = "PCS" /\ s.sender = e /\ ~s.named

ConcInit ==
  /\ Init /\ KeysInit
  /\ \/ part = "session" /\ Resting
     \/ part = "keys" /\ records = {}

ConcNext ==
  /\ UNCHANGED part
  /\ \/ part = "session" /\ Next /\ UNCHANGED keysVars
     \/ part = "keys" /\ KeysNext /\ UNCHANGED vars

ConcSpec == ConcInit /\ [][ConcNext]_<<vars, keysVars, part>>

\* What tells states apart: the part at work, and of a client's keys all but
\* keys itself, which no step reads.
AtWork ==
  IF part = "session" THEN <<part, vars>>
  ELSE <<part, others, circleRead, mine, pc, call, opened, service>>

\* calls, own identities and the peers of other devices are interchangeable
Symmetry ==
  Permutations(Tasks) \cup Permutations(Own) \cup Permutations(Others) \cup Permutations(Devices)
=============================================================================
