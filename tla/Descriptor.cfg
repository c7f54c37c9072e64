SPECIFICATION FairSpec
CONSTANTS
  PacketSize = 3
  Layouts <- ByteArrays
INVARIANTS InPlace
PROPERTIES Finishes
CHECK_DEADLOCK FALSE
