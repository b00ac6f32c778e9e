SPECIFICATION SystemSpec
CONSTANTS
  MaxReads = 4
  MaxDrainReads = 2
  Backlog = 3
INVARIANTS
  StuckECIsSpared
  NoRecordOfAnEarlierSession
  SessionIsShared
