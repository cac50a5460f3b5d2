\* An accessory heard under either key, whose sweep takes several requests: a
\* secondary key's span is cut where a request ends.
SPECIFICATION Spec
CONSTANTS
  Fetches = {f1}
  Interval = 1
  Window = 4
  Span = 2
  PairingOffset = 1
  Batch = 3
  Margin = 0
  Separated = TRUE
  MaxTime = 5
  MaxReports = 1
INVARIANTS NeverAhead
