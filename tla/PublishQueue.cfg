SPECIFICATION Spec
CONSTANTS
  Size = 4
  Outside = Outside
  Burst = 10
  MaxPublished = 20
INVARIANTS TypeOK NextIsNewer OneStrayPerSpin SafeWithinCapacity
PROPERTIES FifoSpec
CHECK_DEADLOCK FALSE
