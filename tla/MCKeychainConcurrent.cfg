\* Two joins at once, late deliveries, other devices at work; identities run
\* out.  And two views' keys while other devices join, roll keys and add items.
SPECIFICATION ConcSpec
CONSTANTS
  Tasks = {t1, t2}
  Own = {o1, o2}
  Others = {d1}
  NoPeer = NoPeer
  Busy = TRUE
  Calls = {"join"}
  Late = TRUE
  d = d
  e = e
  f = f
  plain = plain
  mixed = mixed
  positional = positional
  forged = forged
  changed = changed
  second = second
  Devices = {d, e, f}
  Me = Me
  Views = {"Manatee", "PCS"}
  Items = {plain, mixed, positional, forged, changed, second}
  ItemOf <- MCItemOf
  Later = {second}
  Pointed = {mixed, second}
  None = None
  MaxChanges = 2
SYMMETRY Symmetry
VIEW AtWork
INVARIANTS NoUnrecoverablePeer
PROPERTIES ImplementsMembership ResumeReadsAll ServiceKeyIsCurrent JoinLosesNothing
CHECK_DEADLOCK FALSE
