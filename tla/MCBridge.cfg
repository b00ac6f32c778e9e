SPECIFICATION FairSpec
CHECK_DEADLOCK FALSE
CONSTANTS
  QueueLimit = 4
  Limit = 1
  MaxImages = 2
  MaxMessages = 1
  MaxCalls = 2
INVARIANTS
  HandshakeIsEarned
  HonestNeverFails
  PlaintextInOrder
PROPERTIES
  CallsReturn
