\* The read of a replay comes back short.
SPECIFICATION Spec
CONSTANTS
  MaxFragments = 1
  Tears = {"torn"}
  MaxAppends = 2
  MaxCrashes = 1
  MaxFaults = 1
INVARIANTS
  WholeLogSurvives

CHECK_DEADLOCK FALSE
