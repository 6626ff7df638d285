--------------------------- MODULE SoftPwmService ---------------------------
(***************************************************************************)
(* softPWM implements PwmService for disciplined users.  A channel is in   *)
(* the table as soon as wake_up_process let its thread run; thread, entry  *)
(* and channel have the same number.                                       *)
(***************************************************************************)
EXTENDS SoftPwm

InitialDuty == 0

StateOf(m) ==
  CASE m \in {"out", "failed"}    -> "off"
    [] m = "live"                 -> "on"
    [] m \in {"going", "waiting"} -> "stopping"
    [] OTHER                      -> "over"

PhaseOf(s) ==
  CASE s \in {"none", "new"} -> "none"
    [] s \in {"loop", "set"} -> "low"
    [] s = "high"            -> "high"
    [] OTHER                 -> "ended"

OpOf(l) ==
  CASE l = "closed"           -> "closed"
    [] l = "user"             -> "idle"
    [] l \in {"scan", "duty"} -> "write"
    [] l \in {"load", "incr"} -> "publish"
    [] OTHER                  -> "create"

stateBar == StateOf(mod)
phaseBar == [k \in Slot |-> IF k \in Tid THEN PhaseOf(st[k]) ELSE "none"]
chanBar  == [k \in Slot |-> IF phaseBar[k] = "none" THEN ZeroSlot ELSE duty_array[k]]
opBar    == [c \in Client |-> OpOf(pc[c])]
argBar   == [c \in Client |-> call[c].arg]
seenBar  == [c \in Client |-> IF pc[c] \in {"scan", "duty"} THEN call[c].ld ELSE 0]

Service == INSTANCE PwmService WITH
  Blank <- ZeroSlot,
  state <- stateBar, count <- pwm_pin_count, chan <- chanBar, phase <- phaseBar,
  op <- opBar, arg <- argBar, seen <- seenBar

(* Whatever its calls, threads and unloading interleave, softPWM behaves   *)
(* like the table of channels of PwmService: each PWM_SET that succeeds    *)
(* writes the first channel of its pin, one that is refused saw no such    *)
(* channel, a failed PWM_INIT leaves no trace, and channels end low.       *)
ImplementsService == Service!Spec

(* What the mapping needs beyond DisciplinedInv: PWM_SET has passed only   *)
(* entries of other pins, and a thread is woken with a zero duty cycle.    *)
SearchInv(c) ==
  /\ call[c].idx <= pwm_pin_count
  /\ \A j \in 0 .. call[c].idx - 1 : duty_array[j].pin # call[c].arg.pin

ServiceInv ==
  \A c \in Client :
    /\ pc[c] \in {"scan", "duty"} => SearchInv(c)
    /\ pc[c] \in {"print", "wake"} => duty_array[pwm_pin_count].duty_cycle = InitialDuty

=============================================================================
