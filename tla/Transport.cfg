SPECIFICATION Spec
CONSTANTS
  n1 = n1
  n2 = n2
  Nodes = {n1, n2}
  SlotCount = 2
  Lengths <- ShortAndLong
  MaxMessages <- FiveAndOne
  MaxLost = 1
  MaxStrays = 1
  FirstNums = {3}
INVARIANTS TypeOK DeliveredWellFormed DeliveredInOrder SlotsAccountedFor NothingMissing
CHECK_DEADLOCK FALSE
