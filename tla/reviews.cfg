SPECIFICATION MCSpec
SYMMETRY Symmetry
CONSTANTS
  ChunkSize = 4
  Overlap = 1
  Paths = {p1}
  Contents <- SmallContents
  Claims <- SmallClaims
  Calls = {q1, q2, q3}
  Limit = 2
  MaxRebuilds = 1
  NoCall = NoCall
INVARIANTS
  ReviewTypeOK
  ReviewsReplaced
  FindingsInExcerpts
  NoPassageTorn
  PanelShowsStoredReviews
CHECK_DEADLOCK FALSE
