SPECIFICATION SystemFairSpec
CONSTANTS
  MaxReads = 4
  MaxDrainReads = 2
  Stages = 2
  MaxImages = 3
  MaxBaseInvalid = 1
  MaxPrints = 1
  Images = {"first", "again", "blank"}
  Readings = {"zero", "init", "on", "off"}
  ZeroReading = "zero"
  InitialReading = "init"
INVARIANTS
  ViewsAreOfDistinctPlacements
  ArmsFromTheRightReadings
  OneImageAtATime
PROPERTIES
  TouchEnds
