SPECIFICATION NativeSpec
CONSTANTS
  \* Enrollment
  MinGroup = 2
  Target = 5
  Minimum = 4
  Early = 3
  MaxStreak = 2
  Retention = 6
  Protection = 2
  Outcome <- Outcomes
  \* FeatureMatching
  Word = 16
  Frac = 6
  Resembling = 2
  MinLength = 16
  MinPairs = 3
  Near = 4
  Spread = 9
  Movement = 2
  MinMembers = 2
  FirstLimit = 3
  Quota <- QuotaOf
  Scale = 64
  Unit = 1
  Pace = 1
  Threshold = 3
  \* ImagePreparation
  Width = 5
  Height = 5
  Radius = 1
  ContrastLevel = 100
  MaxDefects = 17
  Bins = 7
  Top = 1020
  Fine = 16
  HalfWord = 16384
  LowPart = 10
  HighPart = 5
  Margin = 1
  Closing = 1
  Eroding = 2
  Side = 1
  Stripe = 2
  Reach = 1
  Doubt = 1000
  Depth = 4
  Filter <- Contrast
  Confidence <- Plain
  \* CosineTransform
  Prime = 257
  Unity = 3
  Period = 256
  LineLength = 8
  Above = 1
  Left = 2
  \* FeatureSelection
  ImageWidth = 8
  ImageHeight = 8
  Border = 1
  Detected = 7
  Budget = 4
  \* FeatureDescription
  FieldWidth = 5
  FieldHeight = 5
  PatchSide = 6
  PatchReach = 8
  \* Placements
  MaskWidth = 4
  MaskHeight = 4
  CanvasWidth = 10
  CanvasHeight = 8
  Diagonal = 7
  \* TemplateFormat
  CellBits = 8
  CrcPoly = 3843
  CrcOnes = 4095
  Version = 26
  FlagsWord = 3297
  MostCaptures = 80
  MostCapacity = 3
  MostFeatures = 200
  MostPrepared = 3
  MostPending = 10
  Flags = {"levels", "compact", "descriptors", "membership"}
INVARIANTS
  EnrollmentSound
  GroupsSound
  FinishedTemplate
  MatchingSound
  ImagesSound
  FeaturesFound
  LayoutSound
  StoredSound
PROPERTIES
  ReferenceStays
  RejectionKeepsProgress
CHECK_DEADLOCK FALSE
