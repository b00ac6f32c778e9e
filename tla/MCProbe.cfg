SPECIFICATION FairSpec
CHECK_DEADLOCK FALSE
CONSTANTS
  Destructive <- FlashOpcodes
  Configs <- CommandLines
  MaxTouches = 2
  MaxReadsPerStep = 4
  MaxDrainReads = 8
  MaxBaseRearms = 3
INVARIANTS
  StuckECIsSpared
  OnlyWhatWasUnlocked
  TouchesInOrder
  NothingIsLeftBehind
  ExitTellsTheTruth
PROPERTIES
  ProbeEnds
