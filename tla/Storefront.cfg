SPECIFICATION Spec
CONSTANTS
  p1 = p1
  p2 = p2
  s1 = s1
  s2 = s2
  s3 = s3
  e1 = e1
  h1 = h1
  h2 = h2
  Nobody = Nobody
  Products <- MCProducts
  Slugs <- MCSlugs
  Editors <- MCEditors
  Hands <- MCHands
  Authors = {1, 2, 3}
  Buyers = {1, 2, 3}
  Ratings = {1, 2}
  MaxFeatured = 2
  MaxServed = 4
SYMMETRY MCSymmetry
INVARIANT ListingsHold
INVARIANT StripSound
INVARIANT PageTrue
