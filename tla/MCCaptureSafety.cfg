SPECIFICATION Spec
CONSTANTS
  Op = {o1, o2}
  MaxAttempts = 2
  MaxTouches = 2
  MaxFaults = 1
  MaxSleeps = 1
  None = None
VIEW Relative
SYMMETRY Interchangeable
INVARIANTS
  ActiveOperationReachable
  NoCaptureWhileSleeping
  NeverStuckSuspended
  LatchedTouchNotDelivered
  WaitingScanIsServed
CHECK_DEADLOCK FALSE
