SPECIFICATION SpecBoth
CONSTANTS
  p1 = p1
  p2 = p2
  a1 = a1
  a2 = a2
  Securities = {1, 2}
  Held = 2
  Cases <- StressCases
  ReviewCases <- MCReviewCases
  Prices = {1, 4}
  Cash = 2
  Shares = 2
  Shock = 50
  Friction = 0
  Duration = 2
INVARIANT ObligationsAreKept
INVARIANT ReviewsAreSound
PROPERTY ExposureIsCurrent
PROPERTY RelaxedWhenRestored
PROPERTY TargetsAreKept
CHECK_DEADLOCK FALSE
