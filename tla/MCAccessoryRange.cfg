\* An accessory heard under its primary keys, at any moment of its interval.
SPECIFICATION Spec
CONSTANTS
  Fetches = {f1}
  Interval = 3
  Window = 6
  Span = 2
  PairingOffset = 0
  Batch = 9
  Margin = 0
  Separated = FALSE
  MaxTime = 4
  MaxReports = 1
INVARIANTS SearchCoversAccessory
