SPECIFICATION Spec
CONSTANTS
  Op = {o1}
  MaxAttempts = 2
  MaxTouches = 1
  MaxFaults = 1
  MaxSleeps = 1
  None = None
INVARIANTS
  ToldBeforeTeardown
CHECK_DEADLOCK FALSE
