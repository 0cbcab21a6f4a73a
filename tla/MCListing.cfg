SPECIFICATION ListingSpec
CONSTANTS
  Ids = {p1, p2, p3, p4}
  pageSize = 2
  MaxTime = 3
  MaxChanges = 3
SYMMETRY Symmetry
INVARIANTS
  ListingTypeOK
  MissesNoMore
  RepeatsNoMore
