SPECIFICATION Spec
CONSTANTS
  MaxReads = 4
  MaxDrainReads = 8
INVARIANTS
  RecordsAreProcessedBeforeD4
