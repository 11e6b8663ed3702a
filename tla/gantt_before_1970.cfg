SPECIFICATION Spec
CONSTANTS
  None = None
  Ids = {1, 2, 3, 4}
  Inputs <- OldProjects
  Days <- SmallDays
INVARIANTS DatesAreWorkingDays
CHECK_DEADLOCK FALSE
