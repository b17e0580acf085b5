SPECIFICATION FairSpec
CONSTANTS
  mnist = mnist
  cnn = cnn
  broken = broken
  cal = cal
  prof = prof
  batch = batch
  Null = Null
  Models <- MCModels
  Broken <- MCBroken
  Calibrators <- MCCalibrators
  BatchCount <- MCBatchCount
  Profiles <- MCProfiles
  Axes <- MCAxes
  MaxProfiles = 1
  MaxParses = 2
  MaxBuilds = 2
INVARIANTS
  TypeOK
  CalibrationFaithful
PROPERTIES
  BuiltAsReported
  HeldUntilParsed
  BuildReturns
