----------------------------- MODULE SoftPwmDemo -----------------------------
(***************************************************************************)
(* The demo program composed with the softPWM driver.  The clients of Demo *)
(* run the program; any other client uses the driver as it likes.          *)
(***************************************************************************)
EXTENDS SoftPwm

CONSTANTS Demo, Runs
VARIABLES runs, at, said

INSTANCE DemoProgram WITH Client <- Demo

demoVars == <<runs, at, said>>
allVars  == <<vars, demoVars>>

DemoInit == Init /\ MainInit

demo_start(c) == main_start(c) /\ UNCHANGED vars

(* open works, or there is no device, or not the module for it.            *)
demo_open(c) ==
  \/ main_open(c, TRUE) /\ open(c)
  \/ /\ mod \notin {"live", "gone"} \/ "cdev_map" \notin held
     /\ main_open(c, FALSE) /\ UNCHANGED vars

(* PIN_SET with a good type: the registers are in GpioSelect.              *)
PIN_SET(c) ==
  /\ Return(c, "done")
  /\ UNCHANGED <<created, fault, devVars, arrayVars, taskVars, level>>

demo_call(c) ==
  /\ at[c] \in DOMAIN Program /\ pc[c] = "user"
  /\ main_next(c)
  /\ CASE Program[at[c]].op = "PIN_SET"  -> PIN_SET(c)
       [] Program[at[c]].op = "PWM_INIT" -> PWM_INIT(c, Program[at[c]].arg)
       [] Program[at[c]].op = "PWM_SET"  -> PWM_SET(c, Program[at[c]].arg)

demo_end(c) == at[c] = End /\ main_next(c) /\ close(c)

demo_step(c) == demo_start(c) \/ demo_open(c) \/ demo_call(c) \/ demo_end(c)

DemoNext ==
  /\ fault = "none"
  /\ \/ \E c \in Demo : demo_step(c)
     \/ /\ \/ module_step
           \/ \E c \in Client \ Demo : user_step(c)
           \/ \E c \in Client : init_step(c) \/ set_step(c) \/ reload(c)
           \/ \E t \in Tid : task_step(t)
        /\ UNCHANGED demoVars

DemoSpec == DemoInit /\ [][DemoNext]_allVars

(* As in SoftPwm; and a process that has the device open is scheduled      *)
(* until it ends.                                                          *)
DemoFairness ==
  /\ \A c \in Demo : WF_allVars(Running /\ (demo_call(c) \/ demo_end(c)))
  /\ \A c \in Client : WF_allVars(Running /\ (init_step(c) \/ set_step(c)) /\ UNCHANGED demoVars)
  /\ \A t \in Tid : WF_allVars(Running /\ task_step(t) /\ UNCHANGED demoVars)
  /\ WF_allVars(/\ Running /\ UNCHANGED demoVars
                /\ exit_stop \/ exit_wait \/ exit_unmap \/ exit_release)

FairDemoSpec == DemoSpec /\ DemoFairness

-----------------------------------------------------------------------------
(* Channel k drives the pin of a as a asks, with a thread that runs.       *)
Serves(k, a) ==
  /\ k < pwm_pin_count
  /\ duty_array[k].pin = a.pin /\ duty_array[k].duty_cycle = a.duty_cycle
  /\ \E t \in Tid : pos[t] = k /\ st[t] \in {"loop", "set", "high"}

(* When main() has ended and printed no failure, both of its pins have a   *)
(* running channel with the duty cycle it wrote.  Another process may      *)
(* write the same meanwhile, and commands may fail: pwm_ioctl answers some *)
(* refused commands with 0, but a refused PWM_SET here follows only from a *)
(* PWM_INIT that returned an error.                                        *)
SilentMeansServed ==
  \A c \in Demo : Ended(c) /\ ~said[c] /\ mod = "live" =>
    \A a \in Writes : \E k \in Slot : Serves(k, a)

(* The channels outlive the process: once main() has ended in silence, its *)
(* pins go high and low again and again until the module is unloaded.      *)
PulsesOutliveDemo ==
  \A c \in Demo : \A a \in Writes, v \in {0, 1} :
    (Ended(c) /\ ~said[c]) ~> (mod # "live" \/ level[a.pin] = v)

(* Every main() that opened the device ends.                               *)
DemoEnds == \A c \in Demo : pc[c] = "user" ~> Ended(c)

-----------------------------------------------------------------------------
(* What the proof of SilentMeansServed supposes.  Only the process of the  *)
(* demo creates channels, and whoever writes to a pin of the demo writes   *)
(* the duty cycle the demo does.                                           *)
DemoSound ==
  /\ Disciplined
  /\ Demo \subseteq Creator /\ Creates \subseteq InitArg /\ Writes \subseteq SetArg
  /\ \A a \in Writes, b \in SetArg : a.pin = b.pin => a.duty_cycle = b.duty_cycle

(* Some channel has the pin and the duty cycle of a.                       *)
Written(a) ==
  \E k \in Slot :
    /\ k < pwm_pin_count
    /\ duty_array[k].pin = a.pin /\ duty_array[k].duty_cycle = a.duty_cycle

(* What a call of the program leaves behind when it does not fail.         *)
Effect(m) ==
  /\ Program[m].op = "PWM_INIT" => Program[m].arg.pin \in created
  /\ Program[m].op = "PWM_SET" => Written(Program[m].arg)

(* No call of this run has failed so far.                                  *)
Silent(c) == ~said[c] /\ ret[c] # "error"

DemoTypeOK == at \in [Demo -> 0 .. End + 1] /\ said \in [Demo -> BOOLEAN]

(* The driver works on the call that main() made last, a failure is only   *)
(* forgotten with its message printed, the count stands still while the    *)
(* only creator writes, and every call that returned in silence took       *)
(* effect.                                                                 *)
DemoInv(c) ==
  LET n == at[c] - 1 IN
  /\ fault = "none" \/ mod = "live" => (pc[c] = "closed" <=> at[c] \in {0, End + 1})
  /\ pc[c] = "closed" => ret[c] = "none"
  /\ pc[c] \in InitPc \union {"scan", "duty"} =>
       /\ n \in DOMAIN Program /\ call[c].arg = Program[n].arg
       /\ Program[n].op = IF pc[c] \in InitPc THEN "PWM_INIT" ELSE "PWM_SET"
       /\ ret[c] = "error" => said[c]
  /\ pc[c] \in {"scan", "duty"} => call[c].ld = pwm_pin_count
  /\ \A m \in DOMAIN Program :
       /\ m < at[c] /\ (m = n => pc[c] \in {"closed", "user"})
       /\ Silent(c)
       => Effect(m)

=============================================================================
