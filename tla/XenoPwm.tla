------------------------------- MODULE XenoPwm -------------------------------
(***************************************************************************)
(* The xenoPWM real-time module (xenoPWM/main.c): one lifetime from        *)
(* xeno_pwm_init to xeno_pwm_exit, the commands of xeno_pwm_ioctl as any   *)
(* number of processes issue them, and one RTDM task per channel.          *)
(*                                                                         *)
(* ioctl_nrt calls are not serialised and no lock is taken, so a step is   *)
(* one access to a shared variable, as in SoftPwm, and `ld' is a call's    *)
(* register copy of pwm_pin_count.  Task k is task_array[k] and works on   *)
(* entry k of duty_array.                                                  *)
(*                                                                         *)
(* Of RTDM the module uses: rtdm_task_init, which starts the task at once; *)
(* rtdm_task_sleep, which returns at once for a negative delay and takes a *)
(* delay of 0 for RTDM_TIMEOUT_INFINITE; and rtdm_task_destroy, which      *)
(* raises the stop condition, ends the task's sleep, whatever its length,  *)
(* and waits for the task.                                                 *)
(***************************************************************************)
EXTENDS PwmTiming

CONSTANTS
  Client,       \* processes that may open the device
  Creator,      \* the clients that call PWM_INIT
  Pin,          \* GPIO numbers
  InitArg,      \* the <<pin, min, max>> clients pass to PWM_INIT, as slots
  SetArg,       \* the <<pin, duty cycle>> clients pass to PWM_SET, as slots
  GpioArg,      \* the <<pin, status>> clients pass to GPIO_SET
  MAX_PWM_NUM,  \* entries of duty_array, task_array and task_name
  InitLimit,    \* bound: PWM_INIT is called below this count only
  LoadFault     \* the calls of xeno_pwm_init that may fail

Slot     == 0 .. MAX_PWM_NUM - 1
Resource == {"gpio", "duty_array", "device"}

(* The duty cycle PWM_INIT stores.                                         *)
InitialDuty == 10

(* A delay rtdm_task_sleep returns from at once (RTDM_TIMEOUT_NONE).       *)
NoNap == -1

ASSUME XenoAssumption ==
  /\ Creator \subseteq Client
  /\ Pin \subseteq Nat /\ 0 \in Pin      \* kzalloc leaves pin 0 in a slot
  /\ InitArg \subseteq SlotOf(Pin)
  /\ SetArg \subseteq SlotOf(Pin)
  /\ GpioArg \subseteq Pin \X Int
  /\ MAX_PWM_NUM \in Nat /\ InitLimit \in Nat
  /\ LoadFault \subseteq Resource

VARIABLES
  mod,            \* where the module is between insmod and the end of rmmod
  held,           \* what xeno_pwm_init acquired and is not given back
  i,              \* the loop variable of xeno_pwm_exit
  pwm_pin_count,
  duty_array,
  st, stop, nap,  \* of each task: control point, stop condition, last delay
  lost,           \* entries with a task that task_array no longer knows of
  raced,          \* history: two PWM_INIT calls have overlapped
  level,          \* the output latch of each pin
  pc, call, ret,  \* of each client: control point, locals, last result
  fault           \* the first access the program may not make

devVars    == <<mod, held, i>>
arrayVars  == <<pwm_pin_count, duty_array>>
taskVars   == <<st, stop, nap, lost, raced>>
clientVars == <<pc, call, ret>>
vars == <<devVars, arrayVars, taskVars, level, clientVars, fault>>

-----------------------------------------------------------------------------
ZeroSlot == [pin |-> 0, min |-> 0, max |-> 0, duty_cycle |-> 0]
NewCall(a, n) == [arg |-> a, ld |-> n, idx |-> 0]
NoCall == NewCall(ZeroSlot, 0)
CallRecord == [arg: SlotOf(Pin), ld: Nat, idx: Nat]

FillPc == {"fill_pin", "fill_min", "fill_max", "fill_duty"}
InitPc == FillPc \union {"print", "task", "load", "incr"}

TypeOK ==
  /\ mod \in {"out", "live", "going", "waiting", "unmapped", "gone"}
  /\ held \subseteq Resource
  /\ i \in Nat
  /\ pwm_pin_count \in Nat
  /\ duty_array \in [Slot -> SlotOf(Pin)]
  /\ st \in [Slot -> {"none", "loop", "set", "high", "exited"}]
  /\ stop \in [Slot -> BOOLEAN]
  /\ nap \in [Slot -> Int]
  /\ lost \subseteq Slot /\ raced \in BOOLEAN
  /\ level \in [Pin -> {0, 1}]
  /\ pc \in [Client -> {"closed", "user", "scan", "duty"} \union InitPc]
  /\ call \in [Client -> CallRecord]
  /\ ret \in [Client -> {"none", "done", "warned", "error"}]
  /\ fault \in {"none", "oob", "null", "unmapped", "div0", "noinit", "unreg"}

Init ==
  /\ mod = "out" /\ held = {} /\ i = 0
  /\ pwm_pin_count = 0
  /\ duty_array = [k \in Slot |-> ZeroSlot]
  /\ st = [k \in Slot |-> "none"]
  /\ stop = [k \in Slot |-> FALSE]
  /\ nap = [k \in Slot |-> NoNap]
  /\ lost = {} /\ raced = FALSE
  /\ level = [p \in Pin |-> 0]
  /\ pc = [c \in Client |-> "closed"]
  /\ call = [c \in Client |-> NoCall]
  /\ ret = [c \in Client |-> "none"]
  /\ fault = "none"

-----------------------------------------------------------------------------
Oops(kind) ==
  /\ fault' = kind
  /\ UNCHANGED <<devVars, arrayVars, taskVars, level, clientVars>>

Goto(c, l) ==
  /\ pc' = [pc EXCEPT ![c] = l]
  /\ UNCHANGED ret

Return(c, r) ==
  /\ pc' = [pc EXCEPT ![c] = "user"]
  /\ call' = [call EXCEPT ![c] = NoCall]
  /\ ret' = [ret EXCEPT ![c] = r]

(* insmod.  Each failure is at most logged: the load always succeeds.      *)
xeno_pwm_init ==
  /\ mod = "out"
  /\ \E F \in SUBSET LoadFault : held' = Resource \ F
  /\ mod' = "live"
  /\ UNCHANGED <<i, arrayVars, taskVars, level, clientVars, fault>>

(* open and close of the named device; an open file pins the module.       *)
open(c) ==
  /\ mod = "live" /\ "device" \in held
  /\ pc[c] = "closed"
  /\ Goto(c, "user")
  /\ UNCHANGED <<call, fault, devVars, arrayVars, taskVars, level>>

close(c) ==
  /\ pc[c] = "user"
  /\ pc' = [pc EXCEPT ![c] = "closed"]
  /\ ret' = [ret EXCEPT ![c] = "none"]
  /\ UNCHANGED <<call, fault, devVars, arrayVars, taskVars, level>>

-----------------------------------------------------------------------------
(* A command that matches no case returns 0; so does PIN_SET, with or      *)
(* without a warning (its registers are in GpioSelect).                    *)
ioctl_other(c) ==
  /\ pc[c] = "user"
  /\ \E r \in {"done", "warned"} : Return(c, r)
  /\ UNCHANGED <<fault, devVars, arrayVars, taskVars, level>>

GPIO_SET(c, p, status) ==
  /\ pc[c] = "user"
  /\ \/ /\ status \notin {0, 1}
        /\ Return(c, "warned")
        /\ UNCHANGED <<fault, devVars, arrayVars, taskVars, level>>
     \/ /\ status \in {0, 1} /\ "gpio" \in held
        /\ level' = [level EXCEPT ![p] = status]
        /\ Return(c, "done")
        /\ UNCHANGED <<fault, devVars, arrayVars, taskVars>>
     \/ /\ status \in {0, 1} /\ "gpio" \notin held
        /\ Oops("unmapped")

-----------------------------------------------------------------------------
PWM_INIT(c, a) ==
  /\ pc[c] = "user"
  /\ pwm_pin_count < InitLimit
  /\ Goto(c, "fill_pin")
  /\ call' = [call EXCEPT ![c] = NewCall(a, pwm_pin_count)]
  /\ raced' = (raced \/ \E d \in Client \ {c} : pc[d] \in InitPc)
  /\ UNCHANGED <<fault, devVars, arrayVars, st, stop, nap, lost, level>>

(* The compiler may drop a register copy of pwm_pin_count and load it anew. *)
reload(c) ==
  /\ pc[c] \in FillPc \union {"print", "task", "scan"}
  /\ call[c].ld # pwm_pin_count
  /\ call' = [call EXCEPT ![c].ld = pwm_pin_count]
  /\ UNCHANGED <<pc, ret, fault, devVars, arrayVars, taskVars, level>>

(* The two ends of the range are swapped.                                  *)
Mut_Stored_ends(s, a, l) ==
  CASE l = "fill_pin"  -> [s EXCEPT !.pin = a.pin]
    [] l = "fill_min"  -> [s EXCEPT !.min = a.max]
    [] l = "fill_max"  -> [s EXCEPT !.max = a.min]
    [] l = "fill_duty" -> [s EXCEPT !.duty_cycle = InitialDuty]

(* Entry s after the store at l, one of the four of PWM_INIT.              *)
Stored(s, a, l) ==
  CASE l = "fill_pin"  -> [s EXCEPT !.pin = a.pin]
    [] l = "fill_min"  -> [s EXCEPT !.min = a.min]
    [] l = "fill_max"  -> [s EXCEPT !.max = a.max]
    [] l = "fill_duty" -> [s EXCEPT !.duty_cycle = InitialDuty]

(* The task is started before the range is stored.                         *)
Mut_AfterFill(l) == "print"

AfterFill(l) ==
  CASE l = "fill_pin"  -> "fill_min"
    [] l = "fill_min"  -> "fill_max"
    [] l = "fill_max"  -> "fill_duty"
    [] l = "fill_duty" -> "print"

init_fill(c) ==
  /\ pc[c] \in FillPc
  /\ LET k == call[c].ld IN
       \/ /\ "duty_array" \in held /\ k \in Slot
          /\ duty_array' = [duty_array EXCEPT ![k] = Stored(@, call[c].arg, pc[c])]
          /\ Goto(c, AfterFill(pc[c]))
          /\ UNCHANGED <<call, pwm_pin_count, fault, devVars, taskVars, level>>
       \/ /\ "duty_array" \in held /\ k \notin Slot
          /\ Oops("oob")
       \/ /\ "duty_array" \notin held
          /\ Oops("null")

(* rtdm_printk reads the entry and the name; then the count is loaded anew. *)
init_print(c) ==
  /\ pc[c] = "print"
  /\ \/ /\ call[c].ld \in Slot
        /\ Goto(c, "task")
        /\ call' = [call EXCEPT ![c].ld = pwm_pin_count]
        /\ UNCHANGED <<fault, devVars, arrayVars, taskVars, level>>
     \/ /\ call[c].ld \notin Slot
        /\ Oops("oob")

(* Entry k of task_array is set up for a task at s: a task that runs on it *)
(* runs on, out of reach.                                                  *)
Enter(k, s) ==
  /\ st' = [st EXCEPT ![k] = s]
  /\ nap' = [nap EXCEPT ![k] = NoNap]
  /\ lost' = IF st[k] = "none" THEN lost ELSE lost \union {k}
  /\ UNCHANGED <<stop, raced>>

(* The result of rtdm_task_init is not looked at.                          *)
Mut_init_task(c) ==
  /\ pc[c] = "task"
  /\ call[c].ld \in Slot
  /\ Enter(call[c].ld, "loop") \/ UNCHANGED taskVars
  /\ Goto(c, "load")
  /\ UNCHANGED <<call, fault, devVars, arrayVars, level>>

(* The error path takes back a count that was not raised yet.              *)
Mut_init_task_undo(c) ==
  /\ pc[c] = "task"
  /\ call[c].ld \in Slot
  /\ pwm_pin_count' = pwm_pin_count - 1
  /\ Return(c, "error")
  /\ UNCHANGED <<duty_array, fault, devVars, taskVars, level>>

(* rtdm_task_init starts task k or fails.  Neither it nor PWM_INIT asks    *)
(* whether the entry of task_array is that of a task that runs.            *)
init_task(c) ==
  /\ pc[c] = "task"
  /\ LET k == call[c].ld IN
       \/ /\ k \in Slot
          /\ Enter(k, "loop")
          /\ Goto(c, "load")
          /\ UNCHANGED <<call, fault, devVars, arrayVars, level>>
       \/ /\ k \in Slot
          /\ UNCHANGED taskVars \/ (st[k] # "none" /\ Enter(k, "none"))
          /\ Return(c, "error")
          /\ UNCHANGED <<fault, devVars, arrayVars, level>>
       \/ /\ k \notin Slot
          /\ Oops("oob")

(* pwm_pin_count++ is a load and a store.                                  *)
init_load(c) ==
  /\ pc[c] = "load"
  /\ Goto(c, "incr")
  /\ call' = [call EXCEPT ![c].ld = pwm_pin_count]
  /\ UNCHANGED <<fault, devVars, arrayVars, taskVars, level>>

init_incr(c) ==
  /\ pc[c] = "incr"
  /\ pwm_pin_count' = call[c].ld + 1
  /\ Return(c, "done")
  /\ UNCHANGED <<duty_array, fault, devVars, taskVars, level>>

-----------------------------------------------------------------------------
PWM_SET(c, a) ==
  /\ pc[c] = "user"
  /\ Goto(c, "scan")
  /\ call' = [call EXCEPT ![c] = NewCall(a, pwm_pin_count)]
  /\ UNCHANGED <<fault, devVars, arrayVars, taskVars, level>>

(* The search ends only at a match.                                        *)
Mut_set_scan(c) ==
  /\ pc[c] = "scan"
  /\ call[c].idx < call[c].ld
  /\ duty_array[call[c].idx].pin = call[c].arg.pin
  /\ Goto(c, "duty")
  /\ UNCHANGED <<call, fault, devVars, arrayVars, taskVars, level>>

(* The search for the pin.                                                 *)
set_scan(c) ==
  /\ pc[c] = "scan"
  /\ LET k == call[c].idx IN
       \/ /\ k < call[c].ld /\ k \in Slot /\ duty_array[k].pin = call[c].arg.pin
          /\ Goto(c, "duty")
          /\ UNCHANGED <<call, fault, devVars, arrayVars, taskVars, level>>
       \/ /\ k < call[c].ld /\ k \in Slot /\ duty_array[k].pin # call[c].arg.pin
          /\ call' = [call EXCEPT ![c].idx = k + 1]
          /\ UNCHANGED <<pc, ret, fault, devVars, arrayVars, taskVars, level>>
       \/ /\ k < call[c].ld /\ k \notin Slot
          /\ Oops("oob")
       \/ /\ k >= call[c].ld
          /\ Return(c, "warned")
          /\ UNCHANGED <<fault, devVars, arrayVars, taskVars, level>>

(* The duty cycle goes to the newest channel, not to the one found.        *)
Mut_set_duty(c) ==
  /\ pc[c] = "duty"
  /\ duty_array' = [duty_array EXCEPT ![pwm_pin_count - 1].duty_cycle = call[c].arg.duty_cycle]
  /\ Return(c, "done")
  /\ UNCHANGED <<pwm_pin_count, fault, devVars, taskVars, level>>

set_duty(c) ==
  /\ pc[c] = "duty"
  /\ duty_array' = [duty_array EXCEPT ![call[c].idx].duty_cycle = call[c].arg.duty_cycle]
  /\ Return(c, "done")
  /\ UNCHANGED <<pwm_pin_count, fault, devVars, taskVars, level>>

-----------------------------------------------------------------------------
(* Destruction does not end a sleep that has no limit.                     *)
Mut_Awake(k) == nap[k] # 0

(* Task k's last sleep is over, or is ended by rtdm_task_destroy.          *)
Awake(k) == nap[k] # 0 \/ stop[k]

(* pwm_task.  "loop" covers the sleep of the low half and the test of the  *)
(* stop condition, "high" the sleep of the high half.                      *)
task_loop(k) ==
  /\ st[k] = "loop"
  /\ Awake(k)
  /\ st' = [st EXCEPT ![k] = IF stop[k] THEN "exited" ELSE "set"]
  /\ UNCHANGED <<stop, nap, lost, raced, fault, devVars, arrayVars, level, clientVars>>

(* A half period: drive the pin to v, compute the delay d, which divides   *)
(* by PWM_RANGE, and begin to sleep.                                       *)
Half(k, v, d, to) ==
  /\ "gpio" \in held
  /\ level' = [level EXCEPT ![duty_array[k].pin] = v]
  /\ \/ /\ PWM_RANGE(duty_array[k]) # 0
        /\ nap' = [nap EXCEPT ![k] = d]
        /\ st' = [st EXCEPT ![k] = to]
        /\ UNCHANGED fault
     \/ /\ PWM_RANGE(duty_array[k]) = 0
        /\ fault' = "div0"
        /\ UNCHANGED <<st, nap>>
  /\ UNCHANGED <<stop, lost, raced, devVars, arrayVars, clientVars>>

(* The registers are not there if ioremap failed, or after xeno_pwm_exit.  *)
task_set(k) ==
  /\ st[k] = "set"
  /\ \/ Half(k, 1, xeno_HIGH_TIME(duty_array[k]), "high")
     \/ "gpio" \notin held /\ Oops("unmapped")

(* A task whose sleep is interrupted ends with its pin high.               *)
Mut_task_clr(k) ==
  /\ st[k] = "high"
  /\ Awake(k)
  /\ \/ stop[k] /\ Half(k, 1, NoNap, "exited")
     \/ ~stop[k] /\ Half(k, 0, xeno_LOW_TIME(duty_array[k]), "loop")

task_clr(k) ==
  /\ st[k] = "high"
  /\ Awake(k)
  /\ \/ Half(k, 0, xeno_LOW_TIME(duty_array[k]), "loop")
     \/ "gpio" \notin held /\ Oops("unmapped")

(* A task out of reach drives its entry's pin like the others, at any      *)
(* time.  The stop condition may or may not reach it: its descriptor now   *)
(* is another task's.                                                      *)
lost_step(k) ==
  /\ k \in lost
  /\ \/ /\ "gpio" \in held /\ PWM_RANGE(duty_array[k]) # 0
        /\ \E v \in {0, 1} : level' = [level EXCEPT ![duty_array[k].pin] = v]
        /\ UNCHANGED <<fault, devVars, arrayVars, taskVars, clientVars>>
     \/ "gpio" \notin held /\ Oops("unmapped")
     \/ PWM_RANGE(duty_array[k]) = 0 /\ Oops("div0")
     \/ /\ stop[k]
        /\ lost' = lost \ {k}
        /\ UNCHANGED <<st, stop, nap, raced, fault, devVars, arrayVars, level, clientVars>>

-----------------------------------------------------------------------------
(* rmmod, when no process has the device open.                             *)
xeno_pwm_exit ==
  /\ mod = "live"
  /\ \A c \in Client : pc[c] = "closed"
  /\ mod' = "going"
  /\ UNCHANGED <<held, i, arrayVars, taskVars, level, clientVars, fault>>

(* The task is told to stop and not waited for.                            *)
Mut_exit_destroy ==
  /\ mod = "going"
  /\ i < pwm_pin_count /\ i \in Slot
  /\ stop' = [stop EXCEPT ![i] = TRUE]
  /\ i' = i + 1
  /\ UNCHANGED <<mod, held, st, nap, lost, raced, arrayVars, level, clientVars, fault>>

(* rtdm_task_destroy(&task_array[i]): tell the task to stop ...            *)
exit_destroy ==
  /\ mod = "going"
  /\ i < pwm_pin_count
  /\ \/ /\ i \in Slot /\ st[i] # "none"
        /\ stop' = [stop EXCEPT ![i] = TRUE]
        /\ mod' = "waiting"
        /\ UNCHANGED <<held, i, st, nap, lost, raced, arrayVars, level, clientVars, fault>>
     \/ i \in Slot /\ st[i] = "none" /\ Oops("noinit")
     \/ i \notin Slot /\ Oops("oob")

(* ... and wait until it has ended.                                        *)
exit_join ==
  /\ mod = "waiting"
  /\ st[i] = "exited"
  /\ mod' = "going"
  /\ i' = i + 1
  /\ UNCHANGED <<held, arrayVars, taskVars, level, clientVars, fault>>

exit_unmap ==
  /\ mod = "going"
  /\ i >= pwm_pin_count
  /\ mod' = "unmapped"
  /\ held' = held \ {"gpio"}
  /\ UNCHANGED <<i, arrayVars, taskVars, level, clientVars, fault>>

(* rtdm_dev_unregister, also of a device that was never registered.        *)
exit_unregister ==
  /\ mod = "unmapped"
  /\ \/ /\ "device" \in held
        /\ mod' = "gone"
        /\ held' = held \ {"device"}
        /\ UNCHANGED <<i, arrayVars, taskVars, level, clientVars, fault>>
     \/ /\ "device" \notin held
        /\ Oops("unreg")

-----------------------------------------------------------------------------
module_step ==
  xeno_pwm_init \/ xeno_pwm_exit \/ exit_destroy \/ exit_join \/ exit_unmap \/ exit_unregister

user_step(c) ==
  \/ open(c) \/ close(c) \/ ioctl_other(c)
  \/ \E g \in GpioArg : GPIO_SET(c, g[1], g[2])
  \/ \E a \in SetArg : PWM_SET(c, a)
  \/ c \in Creator /\ \E a \in InitArg : PWM_INIT(c, a)

ioctl_step(c) ==
  \/ init_fill(c) \/ init_print(c) \/ init_task(c) \/ init_load(c) \/ init_incr(c)
  \/ set_scan(c) \/ set_duty(c)

task_step(k) == task_loop(k) \/ task_set(k) \/ task_clr(k)

Next ==
  /\ fault = "none"
  /\ \/ module_step
     \/ \E c \in Client : user_step(c) \/ ioctl_step(c) \/ reload(c)
     \/ \E k \in Slot : task_step(k) \/ lost_step(k)

Spec == Init /\ [][Next]_vars

(* The Cobalt scheduler runs a task that is not asleep, its timers fire,   *)
(* and Linux goes on with a call inside the driver and with xeno_pwm_exit. *)
Running == fault = "none"

Fairness ==
  /\ \A c \in Client : WF_vars(Running /\ ioctl_step(c))
  /\ \A k \in Slot : WF_vars(Running /\ task_step(k))
  /\ WF_vars(Running /\ (exit_destroy \/ exit_join \/ exit_unmap \/ exit_unregister))

FairSpec == Spec /\ Fairness

-----------------------------------------------------------------------------
(* One process creates channels, at most MAX_PWM_NUM; the array and the    *)
(* registers are there; every range holds the initial duty cycle and every *)
(* duty cycle is in the range of its pin.                                  *)
Disciplined ==
  /\ \A c, d \in Creator : c = d
  /\ InitLimit <= MAX_PWM_NUM
  /\ LoadFault \intersect {"gpio", "duty_array"} = {}
  /\ \A a \in InitArg :
       /\ InitialDuty <= a.max - a.min /\ a.max - a.min < IntHalf
       /\ \A b \in SetArg : b.pin = a.pin => b.duty_cycle \in 0 .. a.max - a.min

(* With disciplined users the driver never indexes past its arrays,        *)
(* follows a NULL or unmapped pointer, divides by zero, or loses the task  *)
(* of an entry it starts again, though PWM_INIT starts the task before it  *)
(* raises the count.  (That it unregisters a device it failed to register  *)
(* is left out.)                                                           *)
NoDriverFault == fault \in {"none", "unreg"} /\ lost = {}

(* Every task has ended before xeno_pwm_exit unmaps the registers the task *)
(* writes: none runs that the count leaves out or that task_array lost,    *)
(* for any users of whose PWM_INIT calls no two overlap.                   *)
QuietAfterUnload ==
  ~raced /\ mod \in {"unmapped", "gone"} =>
    lost = {} /\ \A k \in Slot : st[k] \in {"none", "exited"}

(* rtdm_task_destroy meets only tasks that rtdm_task_init started: the     *)
(* count takes in no entry whose start failed, for any users of whose      *)
(* PWM_INIT calls no two overlap.                                          *)
CountedIsInited ==
  ~raced => /\ pwm_pin_count <= MAX_PWM_NUM
            /\ \A k \in Slot : k < pwm_pin_count => st[k] # "none"

(* A pin that only PWM drives is high only while a task sleeps the high    *)
(* half on it, also when rtdm_task_destroy cuts that sleep short.          *)
HighOnlyInPulse ==
  \A p \in Pin \ {g[1] : g \in GpioArg} :
    level[p] = 1 => \E k \in Slot : st[k] = "high" /\ duty_array[k].pin = p

(* Every delay a task has asked rtdm_task_sleep for is between nothing and *)
(* one period, from the first turn on (the initial duty cycle is 10).      *)
SleepsBounded == \A k \in Slot : nap[k] \in {NoNap} \union 0 .. PERIOD

(* xeno_pwm_exit, once begun, ends, also for a task whose sleep has no     *)
(* limit.                                                                  *)
UnloadTerminates == mod = "going" ~> mod = "gone"

(* Every ioctl returns, whatever the others do meanwhile.                  *)
IoctlReturns == \A c \in Client : pc[c] \notin {"closed", "user"} ~> pc[c] = "user"

(* A channel below pwm_pin_count begins a new pulse again and again until  *)
(* the module is unloaded, unless it is in a sleep without a limit, which  *)
(* only a duty cycle at an end of the range gives.                         *)
CreatedPulses ==
  \A k \in Slot :
    (k < pwm_pin_count /\ mod = "live") ~> (mod # "live" \/ st[k] = "set" \/ nap[k] = 0)

-----------------------------------------------------------------------------
(* The inductive invariants of the proofs.                                 *)

(* A call between the start of its task and the new count.                 *)
Starting(c) == pc[c] \in {"load", "incr"}

(* While no two PWM_INIT calls have overlapped, the started tasks are those *)
(* below the count and the one of the call that is about to raise it.      *)
CountInv ==
  /\ ~raced /\ lost = {}
  /\ pwm_pin_count <= MAX_PWM_NUM
  /\ \A c \in Client :
       /\ pc[c] \in InitPc =>
            call[c].ld = pwm_pin_count /\ \A d \in Client : pc[d] \in InitPc => c = d
       /\ pc[c] \in {"scan", "duty"} => call[c].ld <= pwm_pin_count
       /\ Starting(c) => pwm_pin_count \in Slot
  /\ \A k \in Slot :
       st[k] # "none" <=>
         k < pwm_pin_count \/ (k = pwm_pin_count /\ \E c \in Client : Starting(c))

(* What loading and unloading have done.                                   *)
LifeInv ==
  /\ mod # "live" => \A c \in Client : pc[c] = "closed"
  /\ mod = "out" => pwm_pin_count = 0
  /\ mod \in {"out", "live"} => i = 0
  /\ i <= pwm_pin_count
  /\ mod = "waiting" => i < pwm_pin_count
  /\ mod \in {"unmapped", "gone"} => i = pwm_pin_count
  /\ \A k \in Slot : k < i => st[k] = "exited"
  /\ \A k \in Slot : stop[k] => mod \notin {"out", "live"}

AnyInv  == TypeOK /\ LifeInv /\ (raced \/ CountInv)
CalmInv == TypeOK /\ LifeInv /\ CountInv

(* An entry that one of the InitArg filled and the SetArg keep in range.   *)
GoodSlot(s) ==
  \E a \in InitArg :
    /\ s.pin = a.pin /\ s.min = a.min /\ s.max = a.max
    /\ s.duty_cycle \in 0 .. a.max - a.min

(* Disciplined users: PWM_INIT owns the entry at the count and fills it in *)
(* order, PWM_SET has passed only entries of other pins, and every task    *)
(* works on an entry in range.                                             *)
AddingInv(c) ==
  LET s == duty_array[pwm_pin_count]
      a == call[c].arg
      l == pc[c]
  IN  /\ c \in Creator /\ a \in InitArg
      /\ call[c].ld = pwm_pin_count /\ pwm_pin_count \in Slot
      /\ l # "fill_pin" =>
           /\ s.pin = a.pin
           /\ l # "fill_min" =>
                /\ s.min = a.min
                /\ l # "fill_max" =>
                     /\ s.max = a.max
                     /\ l # "fill_duty" => s.duty_cycle = InitialDuty

SettingInv(c) ==
  /\ call[c].arg \in SetArg
  /\ call[c].idx <= pwm_pin_count
  /\ \A j \in Slot : j < call[c].idx => duty_array[j].pin # call[c].arg.pin
  /\ pc[c] = "duty" =>
       call[c].idx < pwm_pin_count /\ duty_array[call[c].idx].pin = call[c].arg.pin

DisciplinedInv ==
  /\ CalmInv
  /\ mod \in {"live", "going", "waiting"} => {"gpio", "duty_array"} \subseteq held
  /\ \A c \in Client : pc[c] \in InitPc => AddingInv(c)
  /\ \A c \in Client : pc[c] \in {"scan", "duty"} => SettingInv(c)
  /\ \A k \in Slot : st[k] # "none" => GoodSlot(duty_array[k])
  /\ NoDriverFault /\ HighOnlyInPulse /\ SleepsBounded

=============================================================================
