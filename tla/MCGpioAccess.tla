---------------------------- MODULE MCGpioAccess ----------------------------
(* The test's pin 16; its neighbour 17 and pin 21 of the next register,    *)
(* which another process sets up; and 18, which nobody names.              *)
EXTENDS GpioAccess

SharedWord(c) == IF c = Loader THEN {16} ELSE {17, 21}

=============================================================================
