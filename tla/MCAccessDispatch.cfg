SPECIFICATION Spec
CONSTANTS
  Client = {a, b}
  Call = {c1, c2, c3}
  Method = {"Claim", "Release", "EnrollStart", "Stop", "DeleteEnrolledFingers"}
  None = None
PROPERTIES
  DispatchNeverParked
  DeadClaimerReleased
  CallsAnswered
CHECK_DEADLOCK FALSE
