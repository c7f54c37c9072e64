SPECIFICATION FairSpec
CONSTANTS
  Size = 3
  Outside = Outside
  Objects = 2
  ResetFrames = {2}
  MaxFrames = 7
INVARIANTS TypeOK NoLostWakeup ReplayBounded
PROPERTIES FifoSpec ComesToRest
CHECK_DEADLOCK FALSE
