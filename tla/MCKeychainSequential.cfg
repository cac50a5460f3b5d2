\* One caller that awaits each call, on an account nobody else changes; and a
\* join beside the statements of three peers and a reset of the circle.
SPECIFICATION SeqSpec
CONSTANTS
  Tasks = {t1}
  Own = {o1, o2}
  Others = {d1}
  NoPeer = NoPeer
  Busy = FALSE
  Calls = {"options", "directory", "recover", "shares", "delete", "join"}
  Late = FALSE
  a = a
  b = b
  c = c
  Peers = {a, b, c}
  Me = Me
  Nil = Nil
  Unreadable = Unreadable
  Statements <- MCStatements
  MaxPages = 4
  PageSize = 2
  MaxFeed = 3
  MaxResets = 1
INVARIANTS TypeOK SessionKnowsItsJoin DeleteSparesViable
           TrustInherited RemovalStands SentSupersedes
PROPERTIES CallsEnd CompleteReads JoinedKnowsCircle ReadEnds
