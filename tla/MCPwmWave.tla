------------------------------ MODULE MCPwmWave ------------------------------
(* Small instances of PwmWave.                                             *)
EXTENDS PwmWave

(* Ranges that divide the period and ranges that do not.  For softPWM      *)
(* PERIOD times the widest is just below IntHalf, for xenoPWM well above.  *)
MCRange(d) ==
  {<<0, 10>>, <<0, 20>>, <<5, 18>>} \union (IF d = "soft" THEN {<<-3, 0>>} ELSE {<<0, 33>>})

(* Duty cycles as the arithmetic of the macros takes them.                 *)
FromZero(s) == 0 .. s.max - s.min

(* Duty cycles between the bounds PWM_INIT was given.                      *)
MinMaxRange(d) == {<<5, 18>>}
FromMin(s) == s.min .. s.max

=============================================================================
