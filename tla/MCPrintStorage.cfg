SPECIFICATION Spec
CONSTANTS
  User = {u1, u2}
  Finger = {f1, f2}
  Template = {t1, t2}
  MaxRegistration = 4
  MaxRecords = 3
  MaxBehind = 2
  None = None
  Torn = Torn
SYMMETRY Interchangeable
INVARIANTS
  FileLoads
  MemoryMatchesFile
  ReportedIsDurable
PROPERTIES
  StoreKept
