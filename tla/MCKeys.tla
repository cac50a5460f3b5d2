------------------------------- MODULE MCKeys -------------------------------
(* Six items in two views: a plain key pair; a bare scalar before the pair  *)
(* that confirms, in an item without acct; scalars only found by position;  *)
(* a blob whose halves disagree, in an item that says the same acct; a      *)
(* changed item; a key of the second view.                                  *)
EXTENDS Keys, TLC

CONSTANTS d, e, f, plain, mixed, positional, forged, changed, second

B(kind, i, n) == [kind |-> kind, key |-> <<i, n>>]

I(view, slot, intact, acct, declared, members) ==
  [view |-> view, slot |-> slot, intact |-> intact, acct |-> acct,
   declared |-> declared, members |-> members]

Both(view, slot, intact, acct, blobs) == I(view, slot, intact, acct, blobs, blobs)

MCItemOf ==
  [i \in Items |->
     CASE i = plain      -> Both("Manatee", "classA", TRUE, i, <<B("pair", i, 1), B("pair", i, 2)>>)
       [] i = mixed      -> Both("Manatee", "classB", TRUE, None, <<B("bare", i, 2), B("pair", i, 1)>>)
       [] i = positional -> I("Manatee", "classA", TRUE, i, <<B("other", i, 1)>>,
                              <<B("other", i, 1), B("bare", i, 1)>>)
       [] i = forged     -> Both("Manatee", "classA", TRUE, positional, <<B("bare", i, 1), B("forged", i, 2)>>)
       [] i = changed    -> Both("Manatee", "classA", FALSE, plain, <<B("pair", i, 1)>>)
       [] OTHER          -> Both("PCS", "classA", TRUE, i, <<B("pair", i, 1)>>)]
=============================================================================
