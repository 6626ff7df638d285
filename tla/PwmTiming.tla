------------------------------ MODULE PwmTiming ------------------------------
(***************************************************************************)
(* How long a PWM task holds its pin high and low: the HIGH_TIME and       *)
(* LOW_TIME macros of softPWM/main.c and xenoPWM/main.c.                   *)
(*                                                                         *)
(* Both drivers compute with C's 32-bit int.  The kernel is built with     *)
(* -fno-strict-overflow, so a product that does not fit wraps around, and  *)
(* division truncates towards zero.  The width is a parameter, so that TLC *)
(* (whose own integers have 32 bits) can reach the overflow.               *)
(***************************************************************************)
EXTENDS Integers

CONSTANTS
  PERIOD,   \* one PWM period: PERIOD_US (10000) or PERIOD_NS (10000000)
  IntHalf   \* 2^31: an int ranges over -IntHalf .. IntHalf - 1

ASSUME TimingAssumption ==
  /\ IntHalf \in Nat
  /\ PERIOD \in Nat
  /\ 0 < PERIOD
  /\ PERIOD < IntHalf

-----------------------------------------------------------------------------
(* The value an int holds after an operation with mathematical result x.   *)
Wrap(x) == ((x + IntHalf) % (2 * IntHalf)) - IntHalf

(* An int passed as unsigned long, the parameter type of usleep_range.     *)
ULong(x) == x % (2 * IntHalf)

(* C's division, which truncates towards zero; b is not zero.              *)
CDiv(a, b) ==
  LET mag(x) == IF x < 0 THEN -x ELSE x
      q      == mag(a) \div mag(b)
  IN  IF (a < 0) = (b < 0) THEN q ELSE -q

(* One entry of duty_array.                                                *)
SlotOf(P) == [pin: P, min: Int, max: Int, duty_cycle: Int]

PWM_RANGE(s) == Wrap(s.max - s.min)

(* A range and a duty cycle for which no product overflows.                *)
InRange(s) ==
  /\ 0 < s.max - s.min
  /\ s.duty_cycle \in 0 .. s.max - s.min
  /\ PERIOD * (s.max - s.min) < IntHalf

-----------------------------------------------------------------------------
(* softPWM multiplies before it divides.                                   *)
Mut_soft_HIGH_TIME(s) == CDiv(Wrap(PERIOD * (s.duty_cycle + 1)), PWM_RANGE(s))
soft_HIGH_TIME(s) == CDiv(Wrap(PERIOD * s.duty_cycle), PWM_RANGE(s))

Mut_soft_LOW_TIME(s) == CDiv(Wrap(PERIOD * Wrap(s.max - s.duty_cycle)), PWM_RANGE(s))
soft_LOW_TIME(s) ==
  CDiv(Wrap(PERIOD * Wrap(PWM_RANGE(s) - s.duty_cycle)), PWM_RANGE(s))

(* xenoPWM divides before it multiplies.                                   *)
xeno_HIGH_TIME(s) == Wrap(CDiv(PERIOD, PWM_RANGE(s)) * s.duty_cycle)

xeno_LOW_TIME(s) ==
  Wrap(CDiv(PERIOD, PWM_RANGE(s)) * Wrap(PWM_RANGE(s) - s.duty_cycle))

=============================================================================
