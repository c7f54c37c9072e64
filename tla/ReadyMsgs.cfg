SPECIFICATION FairSpec
CONSTANTS
  Size = 4
  Outside = Outside
  Torn = Torn
  MaxMessages = 10
INVARIANTS GivenInOrder
PROPERTIES FifoSpec Drains
CHECK_DEADLOCK FALSE
