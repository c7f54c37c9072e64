SPECIFICATION RetransmitterSpec
CONSTANTS
  Wheels = 4
  Value = {"00"}
  Numbers <- Zeros
  FifoSize = 2
  MaxFrames = 1
  MaxGaps = 0
  Unknown = Unknown
INVARIANTS EachOnItsOwnTopic
CHECK_DEADLOCK FALSE
