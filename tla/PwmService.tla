----------------------------- MODULE PwmService -----------------------------
(***************************************************************************)
(* What the two PWM drivers promise their users: a table of channels that  *)
(* processes extend (PWM_INIT) and write to (PWM_SET) as if every call     *)
(* took effect in one step, while each channel raises and lowers its pin,  *)
(* until the service is stopped and every channel has ended.               *)
(*                                                                         *)
(* Two things the drivers do are part of the promise because users can see *)
(* them: a new channel pulses before it can be written (Start comes before *)
(* Publish), and a write may miss a channel that was published after the   *)
(* call began (Miss judges by what the call last saw).                     *)
(***************************************************************************)
EXTENDS Integers

CONSTANTS
  Client, Pin,
  InitArg, SetArg, GpioArg,  \* the arguments of the three commands
  Slot,                      \* the channels there is room for
  InitialDuty,               \* the duty cycle of a new channel
  Blank                      \* a free place, or no argument

VARIABLES
  state,     \* "off", "on", "stopping" or "over"
  count,     \* channels that can be written
  chan,      \* the table: pin, min, max and duty cycle of each channel
  phase,     \* of each channel: "none", "low", "high" or "ended"
  level,     \* of each pin
  op, arg,   \* of each client: what it is doing, and with what argument
  seen,      \* of each client: the count its write goes by
  ret        \* of each client: the result of its last call

table == <<state, count, chan, phase>>
vars  == <<table, level, op, arg, seen, ret>>

Init ==
  /\ state = "off"
  /\ count = 0
  /\ chan = [k \in Slot |-> Blank]
  /\ phase = [k \in Slot |-> "none"]
  /\ level = [p \in Pin |-> 0]
  /\ op = [c \in Client |-> "closed"]
  /\ arg = [c \in Client |-> Blank]
  /\ seen = [c \in Client |-> 0]
  /\ ret = [c \in Client |-> "none"]

-----------------------------------------------------------------------------
Load ==
  /\ state = "off" /\ state' = "on"
  /\ UNCHANGED <<count, chan, phase, level, op, arg, seen, ret>>

(* The service stops when nobody uses it, and is over when every channel   *)
(* has ended, with its pin low.                                            *)
Stop ==
  /\ state = "on" /\ state' = "stopping"
  /\ \A c \in Client : op[c] = "closed"
  /\ UNCHANGED <<count, chan, phase, level, op, arg, seen, ret>>

Finish ==
  /\ state = "stopping" /\ state' = "over"
  /\ \A k \in Slot : phase[k] \in {"none", "ended"}
  /\ UNCHANGED <<count, chan, phase, level, op, arg, seen, ret>>

(* A client calls, goes on, or is done.                                    *)
Enter(c, o, a, n) ==
  /\ op[c] = "idle" /\ state = "on"
  /\ op' = [op EXCEPT ![c] = o]
  /\ arg' = [arg EXCEPT ![c] = a]
  /\ seen' = [seen EXCEPT ![c] = n]
  /\ UNCHANGED ret

Leave(c, o, r) ==
  /\ op[c] = o /\ state = "on"
  /\ op' = [op EXCEPT ![c] = "idle"]
  /\ arg' = [arg EXCEPT ![c] = Blank]
  /\ seen' = [seen EXCEPT ![c] = 0]
  /\ ret' = [ret EXCEPT ![c] = r]

Open(c) ==
  /\ op[c] = "closed" /\ state = "on"
  /\ op' = [op EXCEPT ![c] = "idle"]
  /\ UNCHANGED <<table, level, arg, seen, ret>>

Close(c) ==
  /\ op[c] = "idle"
  /\ op' = [op EXCEPT ![c] = "closed"]
  /\ ret' = [ret EXCEPT ![c] = "none"]
  /\ UNCHANGED <<table, level, arg, seen>>

(* Commands that do not concern the channels.                              *)
Other(c) ==
  /\ \E r \in {"done", "warned", "error"} : Leave(c, "idle", r)
  /\ UNCHANGED <<table, level>>

Drive(c) ==
  /\ \E g \in GpioArg : level' = [level EXCEPT ![g[1]] = g[2]]
  /\ Leave(c, "idle", "done")
  /\ UNCHANGED table

-----------------------------------------------------------------------------
(* PWM_INIT: begin, then start the channel and publish it, or fail without *)
(* a trace.                                                                *)
Create(c) ==
  /\ \E a \in InitArg : Enter(c, "create", a, 0)
  /\ UNCHANGED <<table, level>>

Start(c) ==
  /\ op[c] = "create" /\ state = "on"
  /\ count \in Slot /\ phase[count] = "none"
  /\ chan' = [chan EXCEPT ![count] =
                [pin |-> arg[c].pin, min |-> arg[c].min, max |-> arg[c].max,
                 duty_cycle |-> InitialDuty]]
  /\ phase' = [phase EXCEPT ![count] = "low"]
  /\ op' = [op EXCEPT ![c] = "publish"]
  /\ UNCHANGED <<state, count, level, arg, seen, ret>>

Publish(c) ==
  /\ count' = count + 1
  /\ Leave(c, "publish", "done")
  /\ UNCHANGED <<state, chan, phase, level>>

Fail(c) ==
  /\ Leave(c, "create", "error")
  /\ UNCHANGED <<table, level>>

(* PWM_SET: look at the table, perhaps again, then write the first channel *)
(* of the pin, or miss because none was there at the last look.            *)
Write(c) ==
  /\ \E a \in SetArg : Enter(c, "write", a, count)
  /\ UNCHANGED <<table, level>>

Look(c) ==
  /\ op[c] = "write"
  /\ seen' = [seen EXCEPT ![c] = count]
  /\ UNCHANGED <<table, level, op, arg, ret>>

Store(c) ==
  /\ \E k \in 0 .. count - 1 :
       /\ chan[k].pin = arg[c].pin
       /\ \A j \in 0 .. k - 1 : chan[j].pin # arg[c].pin
       /\ chan' = [chan EXCEPT ![k].duty_cycle = arg[c].duty_cycle]
  /\ Leave(c, "write", "done")
  /\ UNCHANGED <<state, count, phase, level>>

Miss(c) ==
  /\ \A k \in 0 .. seen[c] - 1 : chan[k].pin # arg[c].pin
  /\ Leave(c, "write", "warned")
  /\ UNCHANGED <<table, level>>

-----------------------------------------------------------------------------
(* A channel pulses its own pin, and ends only when the service stops and  *)
(* only between two pulses.                                                *)
Pulse(k, from, v, to) ==
  /\ phase[k] = from
  /\ phase' = [phase EXCEPT ![k] = to]
  /\ level' = [level EXCEPT ![chan[k].pin] = v]
  /\ state \in {"on", "stopping"}
  /\ UNCHANGED <<state, count, chan, op, arg, seen, ret>>

Raise(k) == Pulse(k, "low", 1, "high")
Fall(k)  == Pulse(k, "high", 0, "low")

End(k) ==
  /\ phase[k] = "low" /\ state = "stopping"
  /\ phase' = [phase EXCEPT ![k] = "ended"]
  /\ UNCHANGED <<state, count, chan, level, op, arg, seen, ret>>

Next ==
  \/ Load \/ Stop \/ Finish
  \/ \E c \in Client :
       \/ Open(c) \/ Close(c) \/ Other(c) \/ Drive(c)
       \/ Create(c) \/ Start(c) \/ Publish(c) \/ Fail(c)
       \/ Write(c) \/ Look(c) \/ Store(c) \/ Miss(c)
  \/ \E k \in Slot : Raise(k) \/ Fall(k) \/ End(k)

Spec == Init /\ [][Next]_vars

=============================================================================
