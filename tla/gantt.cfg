SPECIFICATION Spec
CONSTANTS
  None = None
  Ids = {1, 2, 3, 4}
  Inputs <- SmallRequests
  Days <- SmallDays
INVARIANTS OrderIsLeast CyclesAreExact BothCanBeKept SlackIsExact DatesAreWorkingDays
CHECK_DEADLOCK FALSE
