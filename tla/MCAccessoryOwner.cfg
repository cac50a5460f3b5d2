\* An accessory heard under its primary keys, fetched in several requests.
SPECIFICATION FairSpec
CONSTANTS
  Fetches = {f1}
  Interval = 2
  Window = 4
  Span = 1
  PairingOffset = 0
  Batch = 2
  Margin = 2
  Separated = FALSE
  MaxTime = 5
  MaxReports = 2
INVARIANTS TypeOK
PROPERTIES FetchFindsNewest FetchEnds
