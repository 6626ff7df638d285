------------------------------ MODULE MCXenoPwm ------------------------------
(* Small instances of XenoPwm.                                             *)
EXTENDS XenoPwmService, TLC

Slots(P, lo, hi, D) == [pin: P, min: lo, max: hi, duty_cycle: D]

(* A range of 20 on pins 1 and 2; PWM_SET gives pin 1 the lower end of the *)
(* range, where HIGH_TIME is 0.                                            *)
MCInitArg == Slots({1, 2}, {1}, {21}, {0})
EndSetArg == Slots({1}, {0}, {0}, {0})

(* GPIO_SET with a wrong status.                                           *)
MCGpioArg == {<<0, 2>>}

(* min = max makes the range zero; in a range of 10 the initial duty cycle *)
(* makes LOW_TIME 0.  PWM_SET asks for a pin that no channel has, and so   *)
(* searches the whole table.                                               *)
AnyInitArg == Slots({0}, {0}, {0, 10}, {0})
AnySetArg  == Slots({1}, {0}, {0}, {0})
AnyGpioArg == {<<0, 1>>}

ClientSymmetry == Permutations(Client)

=============================================================================
