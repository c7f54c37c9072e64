SPECIFICATION FairSpec
CONSTANTS
  NumTasks = 3
  NumMutexes = 2
  MaxSleep = 1
  EventTask = 0
  Periodic = {1}
  NONE = NONE
INVARIANTS TypeOK MutexViewsAgree WakeUpsAreOwed NoInversion SchedulerEnds
PROPERTIES TopGoesOn
