CONSTANTS
  d = d
  e = e
  f = f
  plain = plain
  mixed = mixed
  positional = positional
  forged = forged
  changed = changed
  second = second
  Devices = {d, e, f}
  Me = Me
  Views = {"Manatee", "PCS"}
  Items = {plain, mixed, positional, forged, changed, second}
  ItemOf <- MCItemOf
  Later = {second}
  Pointed = {mixed, second}
  None = None
  MaxChanges = 2
SPECIFICATION KeysSpec
PROPERTIES ResumeFollowsTheRoll
