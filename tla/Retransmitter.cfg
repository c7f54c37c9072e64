SPECIFICATION RetransmitterSpec
CONSTANTS
  Wheels = 2
  Value = {"00", "EF", "BE", "ED", "FE"}
  Numbers <- Misleaders
  FifoSize = 2
  MaxFrames = 4
  MaxGaps = 2
  Unknown = Unknown
INVARIANTS GarbledOnlyByLoss OneMorePerGap
CHECK_DEADLOCK FALSE
