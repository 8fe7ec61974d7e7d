SPECIFICATION Spec
CONSTANTS
  Client = {a}
  Call = {c1, c2, c3}
  Method = {"Claim", "Release", "EnrollStart"}
  None = None
INVARIANTS
  DroppedWasAnswered
CHECK_DEADLOCK FALSE
