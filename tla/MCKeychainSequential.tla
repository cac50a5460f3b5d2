------------------------ MODULE MCKeychainSequential ------------------------
(* What a client does on its own, one call after the other: the calls of a  *)
(* session, or a join as peers.py and join.py see it.  Neither knows of the *)
(* other's state: a behaviour is one of them while the other rests.         *)
EXTENDS Keychain, Trust

CONSTANTS a, b, c

VARIABLE part

(* A circle of three: a founded it and vouches for b, b vouches for c;      *)
(* b may throw a out, c may throw b out on a voucher that does not hold,    *)
(* and c's name may not be the one its permanent info derives.              *)
By(p, from, ok) == [sponsor |-> from, beneficiary |-> p, valid |-> ok]

S(p, clock, inc, exc, voucher) ==
  [peer |-> p, clock |-> clock, inc |-> inc, exc |-> exc, voucher |-> voucher,
   named |-> TRUE]

MCStatements ==
  { S(a, 1, {a, b}, {}, Nil),
    S(b, 2, {a, b, c}, {}, By(b, a, TRUE)),
    S(c, 2, {a, b, c}, {}, By(c, b, TRUE)),
    S(c, 3, {c}, {b}, By(c, b, FALSE)),
    S(b, 4, {b, c}, {a}, By(b, a, TRUE)),
    [S(c, 4, {c}, {}, Nil) EXCEPT !.named = FALSE] }

SeqInit ==
  /\ Init /\ TrustInit
  /\ \/ part = "session"
     \/ part = "trust" /\ records = {}      \* one session is enough to rest

\* a join that is over
Over == part = "trust" /\ pc \in {"joined", "failed"} /\ UNCHANGED <<vars, trustVars>>

SeqNext ==
  /\ UNCHANGED part
  /\ \/ part = "session" /\ Next /\ UNCHANGED trustVars
     \/ part = "trust" /\ TrustNext /\ UNCHANGED vars
     \/ Over

SeqSpec ==
  /\ SeqInit /\ [][SeqNext]_<<vars, trustVars, part>>
  /\ \A t \in Tasks : WF_vars(Resume(t))
  /\ TrustFairness
=============================================================================
