--------------------------- MODULE XenoPwmService ---------------------------
(***************************************************************************)
(* xenoPWM implements PwmService for disciplined users.  A channel is in   *)
(* the table as soon as rtdm_task_init started its task.                   *)
(***************************************************************************)
EXTENDS XenoPwm

StateOf(m) ==
  CASE m = "out"                  -> "off"
    [] m = "live"                 -> "on"
    [] m \in {"going", "waiting"} -> "stopping"
    [] OTHER                      -> "over"

PhaseOf(s) ==
  CASE s \in {"loop", "set"} -> "low"
    [] s = "exited"          -> "ended"
    [] OTHER                 -> s

OpOf(l) ==
  CASE l = "closed"           -> "closed"
    [] l = "user"             -> "idle"
    [] l \in {"scan", "duty"} -> "write"
    [] l \in {"load", "incr"} -> "publish"
    [] OTHER                  -> "create"

stateBar == StateOf(mod)
phaseBar == [k \in Slot |-> PhaseOf(st[k])]
chanBar  == [k \in Slot |-> IF phaseBar[k] = "none" THEN ZeroSlot ELSE duty_array[k]]
opBar    == [c \in Client |-> OpOf(pc[c])]
argBar   == [c \in Client |-> call[c].arg]
seenBar  == [c \in Client |-> IF pc[c] \in {"scan", "duty"} THEN call[c].ld ELSE 0]

Service == INSTANCE PwmService WITH
  Blank <- ZeroSlot,
  state <- stateBar, count <- pwm_pin_count, chan <- chanBar, phase <- phaseBar,
  op <- opBar, arg <- argBar, seen <- seenBar

(* Whatever its calls, tasks and unloading interleave, xenoPWM behaves     *)
(* like the table of channels of PwmService: each PWM_SET that succeeds    *)
(* writes the first channel of its pin, one that is refused saw no such    *)
(* channel, a failed PWM_INIT leaves no trace, and channels end low.       *)
ImplementsService == Service!Spec

=============================================================================
