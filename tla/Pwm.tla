-------------------------------- MODULE Pwm --------------------------------
(***************************************************************************)
(* The PWM driver: one prescaler for the module, a period for each pair of *)
(* pins, a pulse width and an inverter for each pin.  The registers hold   *)
(* counts of the prescaled clock, so a pin's pulse depends on calls made   *)
(* for other pins, and a call that fails leaves the registers as they are. *)
(*                                                                         *)
(* Each action is a call of the driver; nothing else writes the registers. *)
(* A duty cycle is a fraction of a hundred, num / den per cent.            *)
(***************************************************************************)
EXTENDS Integers

CONSTANTS
  Pin,       \* the pins in use, 0 .. 7
  Clock,     \* SysCtlClockGet()
  NONE       \* no duty has been set

MaxClock == 80 * 1000 * 1000      \* a TM4C123 runs at 80 MHz at most

ASSUME PwmAssumption ==
  /\ Pin \subseteq 0 .. 7
  /\ Clock \in 0 .. MaxClock
  /\ NONE \notin [num : Int, den : Int]

Pair == {pin \div 2 : pin \in Pin}
Prescale == {1, 2, 4, 8, 16, 32, 64}

VARIABLES
  prescale,    \* the clock divider
  load,        \* each pair's reload register: half the period, in counts
  width,       \* half of each pin's pulse, in counts
  invert,      \* the pin's output is inverted
  output,      \* the pin's output is enabled
  asked        \* ghost: the duty each pin was last set to

registers == <<prescale, load, width, invert, output>>
pwm_vars == <<registers, asked>>

\* The divider is not in use and the registers are 0 after a reset.
PwmInit ==
  /\ prescale = 1
  /\ load = [pair \in Pair |-> 0]
  /\ width = [pin \in Pin |-> 0]
  /\ invert = [pin \in Pin |-> FALSE]
  /\ output = [pin \in Pin |-> FALSE]
  /\ asked = [pin \in Pin |-> NONE]

MaxLoad == 65535 \div 2    \* half of the period counter's range

PwmTypeOK ==
  /\ prescale \in Prescale
  /\ load \in [Pair -> 0 .. MaxLoad]
  /\ \A pin \in Pin : width[pin] \in 0 .. load[pin \div 2]
  /\ invert \in [Pin -> BOOLEAN] /\ output \in [Pin -> BOOLEAN]

pwm_init(pin) ==
  /\ output' = [output EXCEPT ![pin] = FALSE]
  /\ UNCHANGED <<prescale, load, width, invert, asked>>

pwm_set_prescaler(pre) ==
  /\ prescale' = pre
  /\ UNCHANGED <<load, width, invert, output, asked>>

\* The counts of a period in milliseconds.
Counts(period) == ((Clock \div prescale) * period) \div 1000

\* The period counter has 16 bits: a longer period is refused.
pwm_set_period(pair, period) ==
  /\ load' = IF Counts(period) < 65536
               THEN [load EXCEPT ![pair] = Counts(period) \div 2] ELSE load
  /\ UNCHANGED <<prescale, width, invert, output, asked>>

\* A plausible bug: a negative duty passes the check.
AtMostFull(duty) == duty.num <= 100 * duty.den

InRange(duty) == 0 <= duty.num /\ duty.num <= 100 * duty.den

\* A plausible bug: the output stays inverted when a pin leaves full duty.
StaysInverted(pin, full) == invert[pin] \/ full

Inverted(pin, full) == full

\* PWMGenPeriodGet doubles the reload register, PWMPulseWidthSet halves the
\* width.  Full duty is no pulse, inverted.
pwm_set_duty(pin, duty) ==
  LET period_counts == 2 * load[pin \div 2]
      duty_period   == (period_counts * duty.num) \div (100 * duty.den)
      full          == duty_period >= period_counts
  IN  /\ IF InRange(duty)
         THEN /\ width' = [width EXCEPT ![pin] = IF full THEN 0 ELSE duty_period \div 2]
              /\ invert' = [invert EXCEPT ![pin] = Inverted(pin, full)]
              /\ asked' = [asked EXCEPT ![pin] = duty]
         ELSE UNCHANGED <<width, invert, asked>>
      /\ UNCHANGED <<prescale, load, output>>

pwm_enable(pin) ==
  /\ output' = [output EXCEPT ![pin] = TRUE]
  /\ UNCHANGED <<prescale, load, width, invert, asked>>

----------------------------------------------------------------------------
(* What comes out of a pin, in counts of the prescaled clock. *)

Period(pin) == 2 * load[pin \div 2]
High(pin) == IF invert[pin] THEN Period(pin) - 2 * width[pin] ELSE 2 * width[pin]
=============================================================================
