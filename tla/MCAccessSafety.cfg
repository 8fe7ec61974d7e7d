SPECIFICATION Spec
CONSTANTS
  Client = {a, b}
  Call = {c1, c2, c3, c4}
  Method = {"Claim", "Release", "VerifyStart", "Stop", "EnrollStart",
            "DeleteEnrolledFinger", "DeleteEnrolledFingers"}
  None = None
SYMMETRY Interchangeable
INVARIANTS
  ActsOnlyIfGranted
  AnsweredOnce
  OperationBelongsToClaimer
  CancelledCheckIsFinal
CHECK_DEADLOCK FALSE
