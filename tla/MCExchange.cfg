\* G5120_MAX_READS_PER_STEP and G5120_MAX_DRAIN_READS, the driver's own values.
CONSTANTS
  MaxReads = 4
  MaxDrainReads = 8
SPECIFICATION FairSpec
INVARIANTS
  Contract
  NoRecordLostWhileListening
PROPERTIES
  ExchangeEnds
