SPECIFICATION FairSpec
CONSTANTS
  NodeHash = 75
  Topics <- SomeTopics
  Assigned <- SomeIds
  Strangers <- OtherNodes
  MaxReplays = 2
INVARIANTS PlaceIsFree OwnAnswer FilterFollowsPromise
PROPERTIES WokenOnceAsleep
CHECK_DEADLOCK FALSE
