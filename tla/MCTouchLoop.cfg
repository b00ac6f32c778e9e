SPECIFICATION FairSpec
CONSTANTS
  MaxReads = 3
  MaxDrainReads = 2
  Stages = 2
  MaxImages = 3
  MaxBaseInvalid = 1
  MaxPrints = 1
  Images = {"img"}
  Readings = {"zero", "r"}
  ZeroReading = "zero"
  InitialReading = "zero"
INVARIANTS
  ActionIsDriven
  OutcomeIsEarned
  ImageOnlyWithFingerOn
  NoStaleImage
  NoResidue
PROPERTIES
  ImplementsDeviceActions
  DriverSettles
