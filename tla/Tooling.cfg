SPECIFICATION ToolingSpec
CONSTANTS
  Assets = {"zip", "sums", "manifest"}
  Samples = 2
  Faults = 1
  MaxMain = 3
  Dispatches = 2
  Meddling = 2
  Stages = 3
  LineLimits = {7, 16}
INVARIANTS
  ToolingTypeOK
  ReportIsSound
  OneReviewedBuild
  ObservationIsWhole
PROPERTY Observed
CHECK_DEADLOCK FALSE
