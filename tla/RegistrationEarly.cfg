SPECIFICATION Spec
CONSTANTS
  NodeHash = 75
  Topics <- SomeTopics
  Assigned <- SomeIds
  Strangers <- OtherNodes
  MaxReplays = 2
INVARIANTS NeverWaitsInVain
CHECK_DEADLOCK FALSE
