----------------------------- MODULE GpioAccess -----------------------------
(***************************************************************************)
(* The GPIO access test (tests/pi_gpio_access/gpio_access.c), a module of  *)
(* its own that may be loaded while processes set up other pins, some of   *)
(* them of the same register, through a PWM driver: gp_init makes pin 16   *)
(* an output that is high, with the same unlocked edits of the             *)
(* function-select register as PIN_SET.                                    *)
(*                                                                         *)
(* The loader is one of the clients of GpioSelect: gpio_input(16) and      *)
(* gpio_output(16) are its calls, load and store their two accesses.       *)
(***************************************************************************)
EXTENDS GpioSelect

CONSTANT Loader   \* the process that loads the test

TestPin == 16

ASSUME LoaderAssumption == Loader \in Client /\ TestPin \in Pin

VARIABLES
  gp,       \* what gp_init does next, or what has become of the module
  latch,    \* the output latch of the pin
  clash     \* history: a PIN_SET wrote a stale copy over the pin's field

testVars == <<gp, latch, clash>>
allVars  == <<vars, testVars>>

TestInit == Init /\ gp = "out" /\ latch = 0 /\ clash = FALSE

(* ioremap; its result is not looked at, and NULL is written through.      *)
gp_map ==
  /\ gp = "out"
  /\ gp' \in {"input", "oops"}
  /\ UNCHANGED <<vars, latch, clash>>

(* gpio_output alone.                                                      *)
Mut_gp_input ==
  /\ gp = "input"
  /\ gp' = "output"
  /\ UNCHANGED <<vars, latch, clash>>

gp_input ==
  /\ gp = "input"
  /\ PIN_SET(Loader, TestPin, INPUT)
  /\ gp' = "output"
  /\ UNCHANGED <<latch, clash>>

gp_output ==
  /\ gp = "output"
  /\ PIN_SET(Loader, TestPin, OUTPUT)
  /\ gp' = "set"
  /\ UNCHANGED <<latch, clash>>

(* set_gpio writes the pin's bit to GPSET0, once gpio_output is done.      *)
gp_set ==
  /\ gp = "set" /\ pc[Loader] = "user"
  /\ latch' = 1
  /\ gp' = "live"
  /\ UNCHANGED <<vars, clash>>

(* gp_exit unmaps the registers and leaves the pin as it is.               *)
gp_exit ==
  /\ gp = "live"
  /\ gp' = "gone"
  /\ UNCHANGED <<vars, latch, clash>>

(* A write of the register is the other process's if not the loader's.     *)
AnyStore(c) ==
  /\ store(c)
  /\ clash' = (clash \/ (c # Loader /\ TestPin \in late[c]))
  /\ UNCHANGED <<gp, latch>>

TestNext ==
  /\ gp # "oops"
  /\ \/ gp_map \/ gp_input \/ gp_output \/ gp_set \/ gp_exit
     \/ /\ \/ \E c \in Client \ {Loader}, t \in {INPUT, OUTPUT} : \E p \in Uses(c) : PIN_SET(c, p, t)
           \/ \E c \in Client : load(c)
        /\ UNCHANGED testVars
     \/ \E c \in Client : AnyStore(c)

TestSpec == TestInit /\ [][TestNext]_allVars

-----------------------------------------------------------------------------
(* When the latch of the pin is set, the pin is an output, whatever its    *)
(* function was before, and it stays one after gp_exit: gpio_input clears  *)
(* the field before gpio_output sets bit 0.  Only a PIN_SET for another    *)
(* pin of the register that read it before gp_init wrote it, and wrote it  *)
(* back afterwards, can undo that.                                         *)
HighPinIsOutput == latch = 1 /\ ~clash => fsel[TestPin] = 1

-----------------------------------------------------------------------------
(* What gp_init has done to the pin's field so far.                        *)
LoaderInv ==
  LET idle == pc[Loader] = "user" IN
  /\ gp \in {"out", "input", "output", "set", "live", "gone", "oops"}
  /\ clash \in BOOLEAN
  /\ gp \in {"out", "input", "live", "gone"} => idle
  /\ gp = "output" =>
       /\ pin[Loader] = TestPin /\ type[Loader] = INPUT
       /\ idle /\ ~clash => want[TestPin] = INPUT
  /\ gp = "set" =>
       /\ pin[Loader] = TestPin /\ type[Loader] = OUTPUT
       /\ ~clash => IF idle THEN want[TestPin] = OUTPUT /\ fsel[TestPin] = 1
                            ELSE want[TestPin] = INPUT
  /\ gp \in {"live", "gone"} /\ ~clash => want[TestPin] = OUTPUT /\ fsel[TestPin] = 1
  /\ latch = 1 => gp \in {"live", "gone"}

AccessInv == GpioInv /\ LoaderInv

=============================================================================
