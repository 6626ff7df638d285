------------------------------- MODULE PwmWave -------------------------------
(***************************************************************************)
(* The wave on one channel: pwm_task of softPWM/main.c or xenoPWM/main.c   *)
(* turns its loop while PWM_SET changes the duty cycle at any moment.  A   *)
(* turn computes HIGH_TIME after raising the pin and LOW_TIME after        *)
(* lowering it, so a PWM_SET in between makes a turn out of two settings.  *)
(*                                                                         *)
(* HIGH_TIME is computed once for the two arguments of usleep_range: the   *)
(* compiler shares the two equal, side-effect free expressions at -O2.     *)
(*                                                                         *)
(* rtdm_task_sleep takes a delay of 0 for RTDM_TIMEOUT_INFINITE: a xenoPWM *)
(* task with duty cycle 0 holds its pin high, and one with the full range  *)
(* holds it low, without a limit and whatever PWM_SET writes later.        *)
(***************************************************************************)
EXTENDS PwmTiming

CONSTANTS
  Ranges(_),   \* the <<min, max>> of the channels a driver is asked for
  Asked(_)     \* the duty cycles users ask for, given the channel's entry

VARIABLES
  drv,        \* which driver runs the channel: "soft" or "xeno"
  slot,       \* the channel's entry of duty_array
  at,         \* the half of the period the task sleeps in
  high, low,  \* what it slept, or sleeps, in the two halves of this turn
  asked,      \* history: the duty cycle HIGH_TIME was computed with
  lowAsked,   \* history: the duty cycle LOW_TIME was computed with
  torn        \* history: a PWM_SET came between the two computations

vars == <<drv, slot, at, high, low, asked, lowAsked, torn>>

R == slot.max - slot.min

TypeOK ==
  /\ drv \in {"soft", "xeno"}
  /\ slot \in SlotOf({0})
  /\ at \in {"start", "high", "low"}
  /\ high \in Int /\ low \in Int /\ asked \in Int /\ lowAsked \in Int
  /\ torn \in BOOLEAN

(* PWM_INIT sets the duty cycle to 0 in softPWM and to 10 in xenoPWM.      *)
Init ==
  /\ drv \in {"soft", "xeno"}
  /\ \E r \in Ranges(drv) : slot = [pin |-> 0, min |-> r[1], max |-> r[2],
                              duty_cycle |-> IF drv = "soft" THEN 0 ELSE 10]
  /\ at = "start"
  /\ high = 0 /\ low = 0 /\ asked = 0 /\ lowAsked = 0
  /\ torn = FALSE

(* A sleep that only a signal or the end of the task cuts short.           *)
Forever == -1

(* How long a sleep of x lasts.  usleep_range takes an unsigned long;      *)
(* rtdm_task_sleep takes nanoseconds, waits without a limit for 0 and      *)
(* returns at once for a delay in the past.                                *)
SleepArg(x) ==
  CASE drv = "soft"           -> ULong(x)
    [] drv = "xeno" /\ x = 0 -> Forever
    [] drv = "xeno" /\ x < 0 -> 0
    [] OTHER                  -> x

HIGH_TIME == IF drv = "soft" THEN soft_HIGH_TIME(slot) ELSE xeno_HIGH_TIME(slot)
LOW_TIME  == IF drv = "soft" THEN soft_LOW_TIME(slot) ELSE xeno_LOW_TIME(slot)

PWM_SET ==
  /\ \E d \in Asked(slot) : slot' = [slot EXCEPT !.duty_cycle = d]
  /\ torn' = (torn \/ at = "high")
  /\ UNCHANGED <<drv, at, high, low, asked, lowAsked>>

HighHalf ==
  /\ at \in {"start", "low"}
  /\ at = "low" => low # Forever
  /\ at' = "high"
  /\ high' = SleepArg(HIGH_TIME)
  /\ asked' = slot.duty_cycle
  /\ torn' = FALSE
  /\ UNCHANGED <<drv, slot, low, lowAsked>>

(* A channel whose low half sleeps as long as the high half.               *)
Mut_LowHalf ==
  /\ at = "high" /\ high # Forever
  /\ at' = "low"
  /\ low' = SleepArg(HIGH_TIME)
  /\ lowAsked' = slot.duty_cycle
  /\ UNCHANGED <<drv, slot, high, asked, torn>>

LowHalf ==
  /\ at = "high" /\ high # Forever
  /\ at' = "low"
  /\ low' = SleepArg(LOW_TIME)
  /\ lowAsked' = slot.duty_cycle
  /\ UNCHANGED <<drv, slot, high, asked, torn>>

Next == PWM_SET \/ HighHalf \/ LowHalf

Spec == Init /\ [][Next]_vars

-----------------------------------------------------------------------------
(* A turn of pwm_task's loop that no PWM_SET tears and that ends lasts one *)
(* period: in softPWM exactly, or one microsecond less when both quotients *)
(* of HIGH_TIME and LOW_TIME are cut; in xenoPWM, which divides first,     *)
(* short by less than the range.                                           *)
SteadyCycle ==
  at = "low" /\ ~torn /\ low # Forever =>
    IF drv = "soft" THEN high + low \in {PERIOD - 1, PERIOD}
                    ELSE high + low \in PERIOD - R + 1 .. PERIOD

(* Even a turn torn by any number of PWM_SET calls ends within two periods,*)
(* except where rtdm_task_sleep has no limit: xenoPWM's pwm_task stays in  *)
(* a half for good only when that half was asked to have no width, duty    *)
(* cycle 0 for the high half and the whole range for the low half.         *)
CycleBound ==
  /\ at = "low" /\ low # Forever => high + low \in 0 .. 2 * PERIOD
  /\ at # "start" /\ high = Forever => drv = "xeno" /\ asked = 0
  /\ at = "low" /\ low = Forever => drv = "xeno" /\ lowAsked = R

(* The high half, when it ends, is the requested share of the period,      *)
(* short by less than a microsecond in softPWM and by less than the range  *)
(* in xenoPWM.                                                             *)
HighShare ==
  at # "start" /\ high # Forever =>
    /\ R * high <= PERIOD * asked
    /\ PERIOD * asked - R * high < IF drv = "soft" THEN R ELSE R * R

-----------------------------------------------------------------------------
(* What the arithmetic needs: softPWM's products fit an int, xenoPWM's     *)
(* initial duty cycle is in range, and so is every later one.  A xenoPWM   *)
(* range above the period would make PERIOD_NS / PWM_RANGE, and with it    *)
(* every delay, 0.                                                         *)
Sound ==
  /\ \A d \in {"soft", "xeno"} : \A r \in Ranges(d) : r[1] \in Int /\ r[2] \in Int
  /\ \A r \in Ranges("soft") : 0 < r[2] - r[1] /\ PERIOD * (r[2] - r[1]) < IntHalf
  /\ \A r \in Ranges("xeno") : 10 <= r[2] - r[1] /\ r[2] - r[1] <= PERIOD
  /\ \A s \in SlotOf({0}) : Asked(s) \subseteq 0 .. s.max - s.min

(* The sleeps of a turn come from the entry as it was at either moment.    *)
WaveInv ==
  /\ TypeOK
  /\ 0 < R
  /\ slot.duty_cycle \in 0 .. R
  /\ IF drv = "soft" THEN PERIOD * R < IntHalf ELSE R <= PERIOD
  /\ at # "start" => high \in 0 .. PERIOD \union {Forever}
  /\ at = "high" /\ ~torn => high = SleepArg(HIGH_TIME)
  /\ at = "low" => high # Forever /\ low \in 0 .. PERIOD \union {Forever}
  /\ SteadyCycle
  /\ CycleBound
  /\ HighShare

=============================================================================
