SPECIFICATION Spec
CONSTANTS
  Client = {a, b}
  Call = {c1, c2, c3, c4}
  Method = {"Claim", "Release", "EnrollStart"}
  None = None
PROPERTIES
  TombstoneSticks
CHECK_DEADLOCK FALSE
