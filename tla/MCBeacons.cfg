CONSTANTS
  b = b
  c = c
  d = d
  e = e
  nb = nb
  n2 = n2
  ab = ab
  a2 = a2
  Beacons = {b, c, d, e}
  Namings = {nb, n2}
  Alignments = {ab, a2}
  About <- MCAbout
  FormOf <- MCFormOf
  Given <- MCGiven
  Plainest = {n2}
  Undated = {a2}
  Absences = {{c, d, e, ab, a2}, {c, d, e, a2, n2}}
  None = None
  MaxPages = 3
  PageSize = 2
  MaxChanges = 1
  MaxRenames = 1
SPECIFICATION FairSpec
PROPERTIES ListingIsNewest RenameFinds RenameChangesOnlyGiven CallsEnd
