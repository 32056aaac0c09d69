\* A crash that leaves fewer bytes than a header.
SPECIFICATION Spec
CONSTANTS
  MaxFragments = 1
  Tears = {"stub"}
  MaxAppends = 2
  MaxCrashes = 2
  MaxFaults = 0
INVARIANTS
  AcknowledgedAreRecoverable

CHECK_DEADLOCK FALSE
