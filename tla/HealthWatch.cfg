CONSTANTS
  c1 = c1
  MaxRuns = 2
  Threshold = 3
  Attempts = 3
  RouteChanges = FALSE
  Clicks <- MCClicks
  MaxInbox = 1
SPECIFICATION MCSpec
 
PROPERTIES  InterferenceEnds WindowSettles
CHECK_DEADLOCK FALSE
