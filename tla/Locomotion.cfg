SPECIFICATION LocomotionSpec
CONSTANTS
  Pin = {0, 1, 2, 3}
  Clock = 50000000
  NONE = NONE
  Speed <- Speeds
  Angle <- Angles
INVARIANTS TypeOK PeriodIsRight PulseFollowsCommand
