SPECIFICATION Spec
CHECK_DEADLOCK FALSE
CONSTANTS
  Streams <- SomeStreams
  Messages <- SomeMessages
  Junk <- SomeJunk
  Clocks <- SomeClocks
  MaxAsides <- SomeAsides
  MaxCut = 7
INVARIANTS
  ParsersAgree
