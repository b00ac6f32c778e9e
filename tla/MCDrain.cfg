CONSTANTS
  MaxReads = 4
  MaxDrainReads = 8
SPECIFICATION Spec
INVARIANTS
  DrainLeavesNothing
