------------------------------ MODULE MCSoftPwm ------------------------------
(* Small instances of SoftPwm.                                             *)
EXTENDS SoftPwmService, TLC

Slots(P, lo, hi, D) ==
  [pin: P, min: lo, max: hi, duty_cycle: D]

(* PWM_INIT with min = 1, max = 3 on PWM pins 1 and 2; duty cycles 0 and 2 *)
(* are the ends of the range.                                              *)
MCInitArg == Slots({1, 2}, {1}, {3}, {0})
MCSetArg  == Slots({1}, {0}, {0}, {2}) \union Slots({2}, {0}, {0}, {0})
OneInitArg == Slots({1}, {1}, {3}, {0})
OneSetArg  == Slots({1}, {0}, {0}, {2})

(* GPIO_SET on a pin no channel uses, with a wrong status as well.         *)
MCGpioArg == {<<0, 1>>, <<0, 2>>}

(* min = max makes the range zero.                                         *)
AnyInitArg == Slots({1}, {1}, {1}, {0})
AnySetArg  == Slots({0}, {0}, {0}, {2})
AnyGpioArg == {<<1, 1>>}

(* The two processes are alike when both create channels.                  *)
ClientSymmetry == Permutations(Client)

=============================================================================
