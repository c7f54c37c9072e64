---------------------------- MODULE Locomotion -----------------------------
(***************************************************************************)
(* A locomotion module (left_locomotion, right_locomotion): it sets up two *)
(* swerve servos and two drive motors, call by call, and from then on each *)
(* command that its spin() hands to a callback sets a pin's duty.  Neither *)
(* the set-up nor a callback looks at what the driver's calls return.      *)
(***************************************************************************)
EXTENDS Pwm, Sequences

CONSTANTS
  Speed,     \* speeds in a drive command, m/s
  Angle      \* angles in a swerve command, tenths of a radian of the wheel

Drive == {0, 1}      \* FRONT_.._DRIVE_PIN, BACK_.._DRIVE_PIN
Rotate == {2, 3}     \* FRONT_.._ROTATE_PIN, BACK_.._ROTATE_PIN

ASSUME LocomotionAssumption ==
  /\ Pin = Drive \cup Rotate
  /\ Speed \subseteq Int /\ Angle \subseteq Int

VARIABLE next_call   \* the next call of the set-up

locomotion_vars == <<pwm_vars, next_call>>

period == 10         \* DRIVE_PWM_PERIOD, and of the servo
neutral == [num |-> 15, den |-> 1]

LocomotionInit == PwmInit /\ next_call = 1

TypeOK == PwmTypeOK /\ next_call \in 1 .. 18

\* A plausible bug: the period is set before the prescaler that it depends on.
PrescalerLast(pin) ==
  <<[call |-> "init", of |-> pin], [call |-> "period", of |-> pin \div 2],
    [call |-> "prescaler", of |-> 64],
    [call |-> "duty", of |-> pin], [call |-> "enable", of |-> pin]>>

servo_init(pin) ==
  <<[call |-> "init", of |-> pin], [call |-> "prescaler", of |-> 64],
    [call |-> "period", of |-> pin \div 2],
    [call |-> "duty", of |-> pin], [call |-> "enable", of |-> pin]>>

drive_init ==
  <<[call |-> "init", of |-> 0], [call |-> "init", of |-> 1],
    [call |-> "period", of |-> 0],
    [call |-> "duty", of |-> 0], [call |-> "duty", of |-> 1],
    [call |-> "enable", of |-> 0], [call |-> "enable", of |-> 1]>>

SetUp == servo_init(2) \o servo_init(3) \o drive_init

\* The set-up's next call.
Call(step) ==
  \/ step.call = "init" /\ pwm_init(step.of)
  \/ step.call = "prescaler" /\ pwm_set_prescaler(step.of)
  \/ step.call = "period" /\ pwm_set_period(step.of, period)
  \/ step.call = "duty" /\ pwm_set_duty(step.of, neutral)
  \/ step.call = "enable" /\ pwm_enable(step.of)

SetUpStep == next_call <= Len(SetUp) /\ Call(SetUp[next_call]) /\ next_call' = next_call + 1

\* 15 + speed / 3 * 5 per cent.
speed_to_duty_pct(speed) == [num |-> 45 + 5 * speed, den |-> 3]

\* wheel_to_servo_angle (times 7.85), servo_write_rads (radians to degrees) and
\* servo_write (15 per cent and 1 more for 155 degrees): 15 + 0.29 * angle per
\* cent, the factor to two places.
angle_to_duty_pct(angle) == [num |-> 1500 + 29 * angle, den |-> 100]

DriveCallback(pin, speed) ==
  next_call > Len(SetUp) /\ pwm_set_duty(pin, speed_to_duty_pct(speed)) /\ UNCHANGED next_call

RotateCallback(pin, angle) ==
  next_call > Len(SetUp) /\ pwm_set_duty(pin, angle_to_duty_pct(angle)) /\ UNCHANGED next_call

LocomotionNext ==
  \/ SetUpStep
  \/ \E pin \in Drive, speed \in Speed : DriveCallback(pin, speed)
  \/ \E pin \in Rotate, angle \in Angle : RotateCallback(pin, angle)

LocomotionSpec == LocomotionInit /\ [][LocomotionNext]_locomotion_vars

----------------------------------------------------------------------------
(* Properties. *)

\* Every pulse a motor or a servo sees has the period it was built for, to
\* within two counts: no call for another pin, and no call that fails, changes
\* the period of an output that is enabled.
PeriodIsRight ==
  \A pin \in Pin :
    output[pin] => /\ 1000 * prescale * Period(pin) <= Clock * period
                   /\ Clock * period < 1000 * prescale * (Period(pin) + 3)

\* Every pulse has the width of the last duty its pin was given that is one, to
\* within two counts, from the moment the output is enabled: at neutral before
\* the first command, and as before after a command out of range.
PulseFollowsCommand ==
  \A pin \in Pin :
    output[pin] =>
      /\ asked[pin] # NONE
      /\ LET exact == Period(pin) * asked[pin].num   \* times 100 * den
             unit  == 100 * asked[pin].den
         IN  unit * High(pin) <= exact /\ exact < unit * (High(pin) + 2)
=============================================================================
