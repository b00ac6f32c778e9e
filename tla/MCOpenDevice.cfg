SPECIFICATION FairSpec
CONSTANTS
  MaxReads = 4
  MaxDrainReads = 8
INVARIANTS
  HostRecordsArePaced
  NoOutputInsideARecord
  SessionIsEarned
  FailureLeavesNothing
PROPERTIES
  OpenEnds
