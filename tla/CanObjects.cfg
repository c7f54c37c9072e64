SPECIFICATION Spec
CONSTANTS
  Topic = {3, 6, 9}
  QUEUE = 2
  START = 2
  OBJECTS = 8
  MaxSubs = 4
  MaxFrames = 3
  NONE = NONE
INVARIANTS TypeOK SubscriptionsApart
PROPERTIES LostOnlyWhenFull OvertakesOnlyAfterRefill AllAreHandled
CHECK_DEADLOCK FALSE
