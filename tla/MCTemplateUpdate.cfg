SPECIFICATION Spec
CONSTANTS
  Capture = {c1, c2, c3, c4}
  Overlap = {0, 1, 2}
  AgeMax = 9
  Retention = 3
  Protection = 1
  MinEnrolled = 1
  MaxEnrolled = 2
SYMMETRY Symmetry
INVARIANTS ArraysAgree EvictsByRule
PROPERTIES ProtectedStay KeepsCaptures
