------------------------------- MODULE SoftPwm -------------------------------
(***************************************************************************)
(* The softPWM kernel module (softPWM/main.c): one lifetime of the module  *)
(* from pwm_init to pwm_exit, the PWM_INIT, PWM_SET and GPIO_SET commands  *)
(* of pwm_ioctl as any number of processes issue them, and one kernel      *)
(* thread (pwm_task) per channel.                                          *)
(*                                                                         *)
(* pwm_ioctl is an unlocked_ioctl: nothing serialises two calls, and the   *)
(* threads read duty_array without a lock.  A step of this specification   *)
(* is therefore one access to a shared variable.  A call works with a copy *)
(* of pwm_pin_count in a register (`ld'); calls of other functions force a *)
(* new load, and anywhere else the compiler may load it again (reload).    *)
(*                                                                         *)
(* An access the C program may not make (an index past an array, a NULL or *)
(* unmapped pointer, a division by zero, code or data of an unloaded       *)
(* module) is recorded in `fault', and no step follows it.                 *)
(*                                                                         *)
(* PIN_SET touches only the function-select registers, which nothing here  *)
(* reads; module GpioSelect models it.                                     *)
(***************************************************************************)
EXTENDS PwmTiming

CONSTANTS
  Client,       \* processes that may open the device
  Creator,      \* the clients that call PWM_INIT
  Pin,          \* GPIO numbers
  InitArg,      \* the <<pin, min, max>> clients pass to PWM_INIT, as slots
  SetArg,       \* the <<pin, duty cycle>> clients pass to PWM_SET, as slots
  GpioArg,      \* the <<pin, status>> clients pass to GPIO_SET
  MAX_PWM_NUM,  \* entries of duty_array, pwm_tsk and name
  InitLimit,    \* bound: kernel threads created in one lifetime
  LoadFault,    \* the calls of pwm_init that may fail
  NULL, ERR     \* the null pointer; an ERR_PTR value

Tid  == 0 .. InitLimit - 1        \* kernel threads, in order of creation
Slot == 0 .. MAX_PWM_NUM - 1      \* indices into the three arrays
Resource == {"gpio", "duty_array", "pwm_tsk", "region", "cdevp", "cdev_map"}

ASSUME SoftAssumption ==
  /\ Creator \subseteq Client
  /\ Pin \subseteq Nat /\ 0 \in Pin      \* kzalloc leaves pin 0 in a slot
  /\ InitArg \subseteq SlotOf(Pin)
  /\ SetArg \subseteq SlotOf(Pin)
  /\ GpioArg \subseteq Pin \X Int
  /\ MAX_PWM_NUM \in Nat /\ InitLimit \in Nat
  /\ LoadFault \subseteq Resource
  /\ NULL \notin Int /\ ERR \notin Int /\ NULL # ERR

VARIABLES
  mod,            \* where the module is between insmod and the end of rmmod
  held,           \* what pwm_init acquired and pwm_exit has not given back
  pwm_pin_count,
  duty_array,
  pwm_tsk,
  nTask,          \* threads created so far
  st, pos, stop,  \* of each thread: its control point, argument, stop flag
  level,          \* the output latch of each pin
  pc, call, ret,  \* of each client: control point, locals, last result
  created,        \* history: pins whose PWM_INIT returned 0
  i,              \* the loop variable of pwm_exit
  fault

devVars    == <<mod, held, i>>
taskVars   == <<nTask, st, pos, stop>>
arrayVars  == <<pwm_pin_count, duty_array, pwm_tsk>>
clientVars == <<pc, call, ret, created>>
vars == <<devVars, arrayVars, taskVars, level, clientVars, fault>>

-----------------------------------------------------------------------------
ZeroSlot == [pin |-> 0, min |-> 0, max |-> 0, duty_cycle |-> 0]
NewCall(a, n, t) == [arg |-> a, ld |-> n, idx |-> 0, tsk |-> t]
NoCall == NewCall(ZeroSlot, 0, NULL)

FillPc == {"fill_pin", "fill_min", "fill_max", "fill_duty"}
InitPc == {"store", "check", "undo", "print", "wake", "load", "incr"} \union FillPc

(* The locals of a call: its argument, its copy of pwm_pin_count, the loop *)
(* variable of PWM_SET and the result of kthread_create.                   *)
CallRecord ==
  [arg: SlotOf(Pin), ld: Nat, idx: Nat, tsk: Tid \union {NULL, ERR}]

TypeOK ==
  /\ mod \in {"out", "failed", "live", "going", "waiting", "unmapped", "gone"}
  /\ held \subseteq Resource
  /\ pwm_pin_count \in Nat
  /\ duty_array \in [Slot -> SlotOf(Pin)]
  /\ pwm_tsk \in [Slot -> Tid \union {NULL, ERR}]
  /\ nTask \in 0 .. InitLimit
  /\ st \in [Tid -> {"none", "new", "loop", "set", "high", "exited"}]
  /\ pos \in [Tid -> Slot \union {0}]
  /\ stop \in [Tid -> BOOLEAN]
  /\ level \in [Pin -> {0, 1}]
  /\ pc \in [Client -> {"closed", "user", "scan", "duty"} \union InitPc]
  /\ call \in [Client -> CallRecord]
  /\ ret \in [Client -> {"none", "done", "warned", "error"}]
  /\ created \subseteq Pin
  /\ i \in Nat
  /\ fault \in {"none", "oob", "null", "unmapped", "div0", "text", "stale"}

Init ==
  /\ mod = "out"
  /\ held = {}
  /\ pwm_pin_count = 0
  /\ duty_array = [s \in Slot |-> ZeroSlot]
  /\ pwm_tsk = [s \in Slot |-> NULL]
  /\ nTask = 0
  /\ st = [t \in Tid |-> "none"]
  /\ pos = [t \in Tid |-> 0]
  /\ stop = [t \in Tid |-> FALSE]
  /\ level = [p \in Pin |-> 0]
  /\ pc = [c \in Client |-> "closed"]
  /\ call = [c \in Client |-> NoCall]
  /\ ret = [c \in Client |-> "none"]
  /\ created = {}
  /\ i = 0
  /\ fault = "none"

-----------------------------------------------------------------------------
(* The outcome of an access the program may not make.                      *)
Oops(kind) ==
  /\ fault' = kind
  /\ UNCHANGED <<devVars, arrayVars, taskVars, level, clientVars>>

(* Client c goes on at control point l, or returns to user space with r.   *)
Goto(c, l) ==
  /\ pc' = [pc EXCEPT ![c] = l]
  /\ UNCHANGED <<ret, created>>

Return(c, r) ==
  /\ pc' = [pc EXCEPT ![c] = "user"]
  /\ call' = [call EXCEPT ![c] = NoCall]
  /\ ret' = [ret EXCEPT ![c] = r]

-----------------------------------------------------------------------------
(* insmod: every allocation of pwm_init either succeeds or is in F.  The   *)
(* memory allocations and ioremap are not checked; without a device number *)
(* the load fails, without a cdev it succeeds and leaves no device.        *)
pwm_init ==
  /\ mod = "out"
  /\ \E F \in SUBSET LoadFault :
       /\ held' = ({"gpio", "duty_array", "pwm_tsk"} \ F)
                    \union (IF "region" \in F THEN {} ELSE {"region"})
                    \union (IF {"region", "cdevp", "cdev_map"} \intersect F = {}
                              THEN {"cdevp", "cdev_map"} ELSE {})
       /\ mod' = IF "region" \in F THEN "failed" ELSE "live"
  /\ UNCHANGED <<i, arrayVars, taskVars, level, clientVars, fault>>

(* open and close of the device file.  pwm_exit frees the cdev without     *)
(* taking it out of the kernel's device map, where a later open finds it.  *)
open(c) ==
  /\ pc[c] = "closed"
  /\ "cdev_map" \in held
  /\ \/ /\ mod = "live"
        /\ pc' = [pc EXCEPT ![c] = "user"]
        /\ UNCHANGED <<call, ret, created, fault>>
        /\ UNCHANGED <<devVars, arrayVars, taskVars, level>>
     \/ /\ mod = "gone"
        /\ Oops("stale")

close(c) ==
  /\ pc[c] = "user"
  /\ pc' = [pc EXCEPT ![c] = "closed"]
  /\ ret' = [ret EXCEPT ![c] = "none"]
  /\ UNCHANGED <<call, created, fault, devVars, arrayVars, taskVars, level>>

-----------------------------------------------------------------------------
(* pwm_ioctl rejects a command of another type or number (-ENOTTY) or a    *)
(* bad pointer (-EFAULT).  Number 4 passes the check, matches no case and  *)
(* returns 0.                                                              *)
ioctl_other(c) ==
  /\ pc[c] = "user"
  /\ \E r \in {"error", "done"} : Return(c, r)
  /\ UNCHANGED <<created, fault, devVars, arrayVars, taskVars, level>>

(* GPIO_SET: drive a pin, or warn about a status that is neither.          *)
GPIO_SET(c, p, status) ==
  /\ pc[c] = "user"
  /\ \/ /\ status \notin {0, 1}
        /\ Return(c, "warned")
        /\ UNCHANGED <<created, fault, devVars, arrayVars, taskVars, level>>
     \/ /\ status \in {0, 1}
        /\ "gpio" \in held
        /\ level' = [level EXCEPT ![p] = status]
        /\ Return(c, "done")
        /\ UNCHANGED <<created, fault, devVars, arrayVars, taskVars>>
     \/ /\ status \in {0, 1}
        /\ "gpio" \notin held
        /\ Oops("unmapped")

-----------------------------------------------------------------------------
(* PWM_INIT.  kthread_create gets the current count as the thread's        *)
(* argument and the name of that index; it may fail.                       *)
PWM_INIT(c, a) ==
  /\ pc[c] = "user"
  /\ nTask < InitLimit
  /\ \/ /\ pwm_pin_count < MAX_PWM_NUM
        /\ Goto(c, "store")
        /\ \/ /\ st' = [st EXCEPT ![nTask] = "new"]
              /\ pos' = [pos EXCEPT ![nTask] = pwm_pin_count]
              /\ nTask' = nTask + 1
              /\ call' = [call EXCEPT ![c] = NewCall(a, pwm_pin_count, nTask)]
           \/ /\ call' = [call EXCEPT ![c] = NewCall(a, pwm_pin_count, ERR)]
              /\ UNCHANGED <<nTask, st, pos>>
        /\ UNCHANGED <<stop, fault, devVars, arrayVars, level>>
     \/ /\ pwm_pin_count >= MAX_PWM_NUM
        /\ Oops("oob")

(* The compiler may drop a register copy of pwm_pin_count and load it anew. *)
reload(c) ==
  /\ pc[c] \in {"store", "check", "undo", "wake", "scan"} \union FillPc
  /\ call[c].ld # pwm_pin_count
  /\ call' = [call EXCEPT ![c].ld = pwm_pin_count]
  /\ UNCHANGED <<pc, ret, created, fault, devVars, arrayVars, taskVars, level>>

(* What an access to entry k of array a hits.                              *)
Hit(a, k) ==
  CASE a \notin held               -> "null"
    [] a \in held /\ k \notin Slot -> "oob"
    [] OTHER                       -> "none"

(* pwm_tsk[pwm_pin_count] = the result of kthread_create.                  *)
init_store(c) ==
  /\ pc[c] = "store"
  /\ LET k == call[c].ld IN
       \/ /\ Hit("pwm_tsk", k) = "none"
          /\ pwm_tsk' = [pwm_tsk EXCEPT ![k] = call[c].tsk]
          /\ Goto(c, "check")
          /\ UNCHANGED <<call, pwm_pin_count, duty_array, fault, devVars, taskVars, level>>
       \/ /\ Hit("pwm_tsk", k) # "none"
          /\ Oops(Hit("pwm_tsk", k))

(* IS_ERR(pwm_tsk[pwm_pin_count]) tests the value just stored, or the entry *)
(* read again.                                                             *)
init_check(c) ==
  /\ pc[c] = "check"
  /\ \/ /\ call[c].ld \in Slot
        /\ \E v \in {call[c].tsk, pwm_tsk[call[c].ld]} :
             Goto(c, IF v = ERR THEN "undo" ELSE "fill_pin")
        /\ UNCHANGED <<call, fault, devVars, arrayVars, taskVars, level>>
     \/ /\ call[c].ld \notin Slot
        /\ Oops("oob")

(* Variants named Mut_... are wrong on purpose: each is the operation that *)
(* follows it with one plausible slip, and shows a property can fail.      *)
(* Here the error path also takes back an increment that was never made.   *)
Mut_init_undo(c) ==
  /\ pc[c] = "undo"
  /\ call[c].ld \in Slot
  /\ pwm_tsk' = [pwm_tsk EXCEPT ![call[c].ld] = NULL]
  /\ pwm_pin_count' = pwm_pin_count - 1
  /\ Return(c, "error")
  /\ UNCHANGED <<created, duty_array, fault, devVars, taskVars, level>>

(* The error path forgets to set err.                                      *)
Mut_init_undo_silent(c) ==
  /\ pc[c] = "undo"
  /\ call[c].ld \in Slot
  /\ pwm_tsk' = [pwm_tsk EXCEPT ![call[c].ld] = NULL]
  /\ Return(c, "done")
  /\ UNCHANGED <<created, pwm_pin_count, duty_array, fault, devVars, taskVars, level>>

(* The error path, after its printk: err = PTR_ERR(...), the entry becomes *)
(* NULL, return err.                                                       *)
init_undo(c) ==
  /\ pc[c] = "undo"
  /\ LET k == call[c].ld IN
       \/ /\ k \in Slot
          /\ pwm_tsk' = [pwm_tsk EXCEPT ![k] = NULL]
          /\ Return(c, IF pwm_tsk[k] = NULL THEN "warned" ELSE "error")
          /\ UNCHANGED <<created, pwm_pin_count, duty_array, fault, devVars, taskVars, level>>
       \/ /\ k \notin Slot
          /\ Oops("oob")

(* One store of the four that fill duty_array[pwm_pin_count], in order:    *)
(* the entry becomes new(its old value).                                   *)
Fill(c, from, new(_), to) ==
  /\ pc[c] = from
  /\ LET k == call[c].ld IN
       \/ /\ Hit("duty_array", k) = "none"
          /\ duty_array' = [duty_array EXCEPT ![k] = new(@)]
          /\ Goto(c, to)
          /\ UNCHANGED <<call, pwm_pin_count, pwm_tsk, fault, devVars, taskVars, level>>
       \/ /\ Hit("duty_array", k) # "none"
          /\ Oops(Hit("duty_array", k))

(* The pin is not stored; the thread starts with pin 0.                    *)
Mut_init_fill_pin(c) ==
  \/ Fill(c, "fill_pin", LAMBDA s : s, "fill_min")
  \/ Fill(c, "fill_min", LAMBDA s : [s EXCEPT !.min = call[c].arg.min], "fill_max")
  \/ Fill(c, "fill_max", LAMBDA s : [s EXCEPT !.max = call[c].arg.max], "fill_duty")
  \/ Fill(c, "fill_duty", LAMBDA s : [s EXCEPT !.duty_cycle = 0], "print")

(* The thread is woken before min and max are stored.                      *)
Mut_init_fill_early(c) ==
  Fill(c, "fill_pin", LAMBDA s : [s EXCEPT !.pin = call[c].arg.pin], "print")

init_fill(c) ==
  \/ Fill(c, "fill_pin", LAMBDA s : [s EXCEPT !.pin = call[c].arg.pin], "fill_min")
  \/ Fill(c, "fill_min", LAMBDA s : [s EXCEPT !.min = call[c].arg.min], "fill_max")
  \/ Fill(c, "fill_max", LAMBDA s : [s EXCEPT !.max = call[c].arg.max], "fill_duty")
  \/ Fill(c, "fill_duty", LAMBDA s : [s EXCEPT !.duty_cycle = 0], "print")

(* The thread is stored a second time, at the index loaded after printk.   *)
Mut_init_print(c) ==
  /\ pc[c] = "print"
  /\ Goto(c, "wake")
  /\ call' = [call EXCEPT ![c].ld = pwm_pin_count]
  /\ pwm_tsk' = [k \in Slot |-> IF k = pwm_pin_count THEN call[c].tsk ELSE pwm_tsk[k]]
  /\ UNCHANGED <<pwm_pin_count, duty_array, fault, devVars, taskVars, level>>

(* The count is loaded anew after the call of printk.                      *)
init_print(c) ==
  /\ pc[c] = "print"
  /\ Goto(c, "wake")
  /\ call' = [call EXCEPT ![c].ld = pwm_pin_count]
  /\ UNCHANGED <<fault, devVars, arrayVars, taskVars, level>>

(* wake_up_process is forgotten.                                           *)
Mut_init_wake(c) ==
  /\ pc[c] = "wake"
  /\ Goto(c, "load")
  /\ UNCHANGED <<call, fault, devVars, arrayVars, taskVars, level>>

(* wake_up_process(pwm_tsk[pwm_pin_count]) lets a new thread run.          *)
init_wake(c) ==
  /\ pc[c] = "wake"
  /\ LET k == call[c].ld IN
       \/ /\ k \in Slot
          /\ pwm_tsk[k] \in Tid
          /\ st' = [st EXCEPT ![pwm_tsk[k]] = IF @ = "new" THEN "loop" ELSE @]
          /\ Goto(c, "load")
          /\ UNCHANGED <<call, nTask, pos, stop, fault, devVars, arrayVars, level>>
       \/ /\ k \in Slot
          /\ pwm_tsk[k] \notin Tid
          /\ Oops("null")
       \/ /\ k \notin Slot
          /\ Oops("oob")

(* pwm_pin_count++ is a load and a store.                                  *)
init_load(c) ==
  /\ pc[c] = "load"
  /\ Goto(c, "incr")
  /\ call' = [call EXCEPT ![c].ld = pwm_pin_count]
  /\ UNCHANGED <<fault, devVars, arrayVars, taskVars, level>>

init_incr(c) ==
  /\ pc[c] = "incr"
  /\ pwm_pin_count' = call[c].ld + 1
  /\ created' = created \union {call[c].arg.pin}
  /\ Return(c, "done")
  /\ UNCHANGED <<duty_array, pwm_tsk, fault, devVars, taskVars, level>>

-----------------------------------------------------------------------------
(* PWM_SET searches the entries below the count for the pin ...            *)
PWM_SET(c, a) ==
  /\ pc[c] = "user"
  /\ Goto(c, "scan")
  /\ call' = [call EXCEPT ![c] = NewCall(a, pwm_pin_count, NULL)]
  /\ UNCHANGED <<fault, devVars, arrayVars, taskVars, level>>

(* The search never advances.                                              *)
Mut_set_scan(c) ==
  /\ pc[c] = "scan"
  /\ duty_array[call[c].idx].pin = call[c].arg.pin
  /\ Goto(c, "duty")
  /\ UNCHANGED <<call, fault, devVars, arrayVars, taskVars, level>>

set_scan(c) ==
  /\ pc[c] = "scan"
  /\ LET k == call[c].idx IN
       \/ /\ k < call[c].ld
          /\ k \in Slot
          /\ \/ /\ duty_array[k].pin = call[c].arg.pin
                /\ Goto(c, "duty")
                /\ UNCHANGED call
             \/ /\ duty_array[k].pin # call[c].arg.pin
                /\ call' = [call EXCEPT ![c].idx = @ + 1]
                /\ UNCHANGED <<pc, ret, created>>
          /\ UNCHANGED fault
       \/ /\ k < call[c].ld
          /\ k \notin Slot
          /\ fault' = "oob"
          /\ UNCHANGED clientVars
       \/ /\ k >= call[c].ld
          /\ Return(c, "warned")
          /\ UNCHANGED <<created, fault>>
  /\ UNCHANGED <<devVars, arrayVars, taskVars, level>>

(* ... and stores the duty cycle in the entry it found.                    *)
set_duty(c) ==
  /\ pc[c] = "duty"
  /\ duty_array' = [duty_array EXCEPT ![call[c].idx].duty_cycle = call[c].arg.duty_cycle]
  /\ Return(c, "done")
  /\ UNCHANGED <<created, pwm_pin_count, pwm_tsk, fault, devVars, taskVars, level>>

-----------------------------------------------------------------------------
(* A thread that does not look at its stop flag.                           *)
Mut_task_loop(t) ==
  /\ st[t] = "loop"
  /\ mod # "gone"
  /\ st' = [st EXCEPT ![t] = "set"]
  /\ UNCHANGED <<nTask, pos, stop, fault, devVars, arrayVars, level, clientVars>>

(* pwm_task.  At the top of the loop the thread leaves or goes on.  Its    *)
(* control point "loop" also covers the sleep of the low half, "high" the  *)
(* sleep of the high half.                                                 *)
task_loop(t) ==
  /\ st[t] = "loop"
  /\ mod # "gone"
  /\ st' = [st EXCEPT ![t] = IF stop[t] THEN "exited" ELSE "set"]
  /\ UNCHANGED <<nTask, pos, stop, fault, devVars, arrayVars, level, clientVars>>

(* A half period: drive the pin to v, then divide by PWM_RANGE.            *)
Half(t, from, v, to) ==
  /\ st[t] = from
  /\ mod # "gone"
  /\ LET s == duty_array[pos[t]] IN
       \/ /\ "gpio" \in held
          /\ level' = [level EXCEPT ![s.pin] = v]
          /\ \/ /\ PWM_RANGE(s) # 0
                /\ st' = [st EXCEPT ![t] = to]
                /\ UNCHANGED fault
             \/ /\ PWM_RANGE(s) = 0
                /\ fault' = "div0"
                /\ UNCHANGED st
          /\ UNCHANGED <<nTask, pos, stop, devVars, arrayVars, clientVars>>
       \/ /\ "gpio" \notin held
          /\ Oops("unmapped")

task_set(t) == Half(t, "set", 1, "high")

(* A thread that is stopped during the high half leaves at once.           *)
Mut_task_clr(t) ==
  \/ stop[t] /\ Half(t, "high", 1, "exited")
  \/ ~stop[t] /\ Half(t, "high", 0, "loop")

(* The low half drives the pin high again (GPSET for GPCLR).               *)
Mut_task_clr_set(t) == Half(t, "high", 1, "loop")

task_clr(t) == Half(t, "high", 0, "loop")

(* A thread that runs after the module's code was freed.                   *)
task_text(t) ==
  /\ st[t] \in {"loop", "set", "high"}
  /\ mod = "gone"
  /\ Oops("text")

-----------------------------------------------------------------------------
(* rmmod.  The device file pins the module (.owner = THIS_MODULE), so      *)
(* pwm_exit runs only when no client has it open.                          *)
pwm_exit ==
  /\ mod = "live"
  /\ \A c \in Client : pc[c] = "closed"
  /\ mod' = "going"
  /\ UNCHANGED <<held, i, arrayVars, taskVars, level, clientVars, fault>>

(* The stop flag is raised without waiting for the thread.                 *)
Mut_exit_stop ==
  /\ mod = "going"
  /\ i < pwm_pin_count
  /\ i \in Slot
  /\ stop' = [stop EXCEPT ![pwm_tsk[i]] = TRUE]
  /\ i' = i + 1
  /\ UNCHANGED <<mod, held, st, nTask, pos, arrayVars, level, clientVars, fault>>

(* kthread_stop(pwm_tsk[i]): raise the flag and wake the thread; one that  *)
(* never ran ends without running pwm_task.                                *)
exit_stop ==
  /\ mod = "going"
  /\ i < pwm_pin_count
  /\ \/ /\ i \in Slot
        /\ pwm_tsk[i] \in Tid
        /\ stop' = [stop EXCEPT ![pwm_tsk[i]] = TRUE]
        /\ st' = [st EXCEPT ![pwm_tsk[i]] = IF @ = "new" THEN "exited" ELSE @]
        /\ mod' = "waiting"
        /\ UNCHANGED <<held, i, nTask, pos, arrayVars, level, clientVars, fault>>
     \/ /\ i \in Slot
        /\ pwm_tsk[i] \notin Tid
        /\ Oops("null")
     \/ /\ i \notin Slot
        /\ Oops("oob")

(* ... and wait for it to end.                                             *)
exit_wait ==
  /\ mod = "waiting"
  /\ st[pwm_tsk[i]] = "exited"
  /\ mod' = "going"
  /\ i' = i + 1
  /\ UNCHANGED <<held, arrayVars, taskVars, level, clientVars, fault>>

(* iounmap, once the loop is done.                                         *)
exit_unmap ==
  /\ mod = "going"
  /\ i >= pwm_pin_count
  /\ mod' = "unmapped"
  /\ held' = held \ {"gpio"}
  /\ UNCHANGED <<i, arrayVars, taskVars, level, clientVars, fault>>

(* unregister_chrdev_region and kfree(cdevp); then the module is gone.     *)
exit_release ==
  /\ mod = "unmapped"
  /\ mod' = "gone"
  /\ held' = held \ {"region", "cdevp"}
  /\ UNCHANGED <<i, arrayVars, taskVars, level, clientVars, fault>>

-----------------------------------------------------------------------------
module_step == pwm_init \/ pwm_exit \/ exit_stop \/ exit_wait \/ exit_unmap \/ exit_release

init_step(c) ==
  \/ init_store(c) \/ init_check(c) \/ init_undo(c) \/ init_fill(c)
  \/ init_print(c) \/ init_wake(c) \/ init_load(c) \/ init_incr(c)

set_step(c) == set_scan(c) \/ set_duty(c)

user_step(c) ==
  \/ open(c) \/ close(c) \/ ioctl_other(c)
  \/ \E g \in GpioArg : GPIO_SET(c, g[1], g[2])
  \/ \E a \in SetArg : PWM_SET(c, a)
  \/ c \in Creator /\ \E a \in InitArg : PWM_INIT(c, a)

task_step(t) == task_loop(t) \/ task_set(t) \/ task_clr(t) \/ task_text(t)

Next ==
  /\ fault = "none"
  /\ \/ module_step
     \/ \E c \in Client : user_step(c) \/ init_step(c) \/ set_step(c) \/ reload(c)
     \/ \E t \in Tid : task_step(t)

Spec == Init /\ [][Next]_vars

(* What the kernel's scheduler and timers give: a call that is inside the  *)
(* driver, a thread that is not asleep for good, and a started pwm_exit    *)
(* all go on.  Nothing obliges a user to do anything.                      *)
Running == fault = "none"

Fairness ==
  /\ \A c \in Client : WF_vars(Running /\ (init_step(c) \/ set_step(c)))
  /\ \A t \in Tid : WF_vars(Running /\ task_step(t))
  /\ WF_vars(Running /\ (exit_stop \/ exit_wait \/ exit_unmap \/ exit_release))

FairSpec == Spec /\ Fairness

-----------------------------------------------------------------------------
(* What the demo program and the driver's constants suppose of the users:  *)
(* one process creates channels, at most MAX_PWM_NUM of them; the arrays   *)
(* and the register window were mapped; min < max, every duty cycle is     *)
(* within the range of its pin, and the products fit an int.               *)
Disciplined ==
  /\ \A c, d \in Creator : c = d
  /\ InitLimit <= MAX_PWM_NUM
  /\ LoadFault \intersect {"gpio", "duty_array", "pwm_tsk"} = {}
  /\ \A a \in InitArg :
       /\ 0 < a.max - a.min
       /\ PERIOD * (a.max - a.min) < IntHalf
       /\ \A b \in SetArg : b.pin = a.pin => b.duty_cycle \in 0 .. a.max - a.min

(* The driver itself never indexes past its arrays, follows a NULL or an   *)
(* unmapped pointer, divides by zero or runs freed code, whatever calls    *)
(* and threads interleave (pwm_ioctl, pwm_task and pwm_exit take no lock). *)
NoDriverFault == fault \in {"none", "stale"}

(* Every thread has ended before pwm_exit unmaps the registers it writes   *)
(* and the code it runs is freed, also one that a late PWM_INIT created.   *)
QuietAfterUnload ==
  mod \in {"unmapped", "gone"} => \A t \in Tid : st[t] \in {"none", "exited"}

(* A pin that only PWM drives is high only while some thread sleeps the    *)
(* high half of its period on it: kthread_stop may arrive at any point of  *)
(* pwm_task's loop and never leaves a servo or motor driven.               *)
HighOnlyInPulse ==
  \A p \in Pin \ {g[1] : g \in GpioArg} :
    level[p] = 1 => \E t \in Tid : st[t] = "high" /\ duty_array[pos[t]].pin = p

(* Once PWM_INIT returned 0 for a pin, PWM_SET finds that pin, whoever     *)
(* calls it: the entry PWM_INIT filled is below pwm_pin_count.             *)
CreatedIsWritable ==
  \A p \in created : \E k \in Slot : k < pwm_pin_count /\ duty_array[k].pin = p

(* No thread ever asks usleep_range for less than nothing or for more than *)
(* a period, not even on the first turn after wake_up_process or while     *)
(* PWM_SET changes its duty cycle.                                         *)
SleepsBounded ==
  \A t \in Tid : st[t] \in {"loop", "set", "high"} =>
    /\ soft_HIGH_TIME(duty_array[pos[t]]) \in 0 .. PERIOD
    /\ soft_LOW_TIME(duty_array[pos[t]]) \in 0 .. PERIOD

StableStep ==
  \A k \in Slot : k < pwm_pin_count =>
    /\ k < pwm_pin_count'
    /\ pwm_tsk'[k] = pwm_tsk[k]
    /\ duty_array'[k].pin = duty_array[k].pin
    /\ duty_array'[k].min = duty_array[k].min
    /\ duty_array'[k].max = duty_array[k].max

(* An entry below pwm_pin_count stays there with its pin, its range and    *)
(* its thread; PWM_SET changes only its duty cycle, and a PWM_INIT that    *)
(* fails or is under way leaves it alone.                                  *)
PublishedIsStable == [][StableStep]_vars

(* No two entries of pwm_tsk hold the same thread, so pwm_exit never stops *)
(* a thread whose task_struct an earlier kthread_stop has released.  This  *)
(* holds for racing creators too.                                          *)
NoDoubleStop ==
  \A j, k \in Slot : pwm_tsk[j] = pwm_tsk[k] /\ pwm_tsk[j] \in Tid => j = k

(* After rmmod an open of the device fails; it does not reach the cdev     *)
(* that pwm_exit freed.                                                    *)
OpenFailsAfterUnload == fault # "stale"

(* pwm_exit, once begun, ends: kthread_stop returns for every thread,      *)
(* wherever in its period the thread is.                                   *)
UnloadTerminates == mod = "going" ~> mod = "gone"

(* Every ioctl returns to its caller, also while another process creates   *)
(* channels under the PWM_SET loop.                                        *)
IoctlReturns == \A c \in Client : pc[c] \notin {"closed", "user"} ~> pc[c] = "user"

(* A channel below pwm_pin_count pulses again and again until the module   *)
(* is unloaded: its thread was woken and never gets stuck.                 *)
CreatedPulses ==
  \A k \in Slot :
    (k < pwm_pin_count /\ mod = "live") ~>
      (mod # "live" \/ \E t \in Tid : pos[t] = k /\ st[t] = "high")

-----------------------------------------------------------------------------
(* Inductive strengthenings, for the proofs in SoftPwmProofs.              *)

(* A thread is on its way into pwm_tsk from one call only, and not yet in  *)
(* it: with this, NoDoubleStop is inductive for any users.                 *)
OwnInv ==
  /\ \A k \in Slot : pwm_tsk[k] \in Tid => pwm_tsk[k] < nTask
  /\ \A c \in Client : pc[c] = "store" /\ call[c].tsk \in Tid =>
       /\ call[c].tsk < nTask
       /\ \A k \in Slot : pwm_tsk[k] # call[c].tsk
       /\ \A d \in Client : pc[d] = "store" /\ call[d].tsk = call[c].tsk => d = c
  /\ NoDoubleStop

(* An entry that one of the InitArg filled and the SetArg keep in range.   *)
GoodSlot(s) ==
  \E a \in InitArg :
    /\ s.pin = a.pin /\ s.min = a.min /\ s.max = a.max
    /\ s.duty_cycle \in 0 .. a.max - a.min

(* How far PWM_INIT has come: it owns entry pwm_pin_count of both arrays   *)
(* and the newest thread, which it wakes only after the last store.        *)
AddingInv(c) ==
  LET n == pwm_pin_count
      s == duty_array[n]
      l == pc[c]
  IN  /\ c \in Creator /\ mod = "live"
      /\ call[c].arg \in InitArg /\ call[c].ld = n /\ n \in Slot
      /\ \/ call[c].tsk = ERR /\ nTask = n /\ l \in {"store", "check", "undo"}
         \/ /\ call[c].tsk = n /\ nTask = n + 1 /\ l # "undo" /\ n \in Tid
            /\ st[n] \in IF l \in {"load", "incr"} THEN {"loop", "set", "high"} ELSE {"new"}
      /\ l # "store" => pwm_tsk[n] = call[c].tsk
      /\ l \notin {"store", "check", "undo", "fill_pin"} =>
           /\ s.pin = call[c].arg.pin
           /\ l # "fill_min" =>
                /\ s.min = call[c].arg.min
                /\ l # "fill_max" =>
                     /\ s.max = call[c].arg.max
                     /\ l # "fill_duty" =>
                          s.duty_cycle \in 0 .. call[c].arg.max - call[c].arg.min

(* Where PWM_SET's search is.                                              *)
SettingInv(c) ==
  /\ mod = "live"
  /\ call[c].arg \in SetArg
  /\ call[c].ld <= pwm_pin_count
  /\ pc[c] = "duty" =>
       /\ call[c].idx < pwm_pin_count
       /\ duty_array[call[c].idx].pin = call[c].arg.pin

(* A thread's entry and number are its index.                              *)
ThreadInv ==
  /\ \A t \in Tid : IF t < nTask THEN pos[t] = t ELSE st[t] = "none"
  /\ \A k \in 0 .. pwm_pin_count - 1 :
       /\ k \in Slot /\ k \in Tid /\ pwm_tsk[k] = k
       /\ st[k] \in {"loop", "set", "high", "exited"}
       /\ GoodSlot(duty_array[k])

(* What loading and unloading have done.                                   *)
LifeInv ==
  /\ mod \in {"out", "failed"} => pwm_pin_count = 0
  /\ mod # "live" => \A c \in Client : pc[c] = "closed"
  /\ mod \in {"out", "failed", "live"} => i = 0
  /\ mod \in {"live", "going", "waiting"} => {"gpio", "duty_array", "pwm_tsk"} \subseteq held
  /\ i <= pwm_pin_count
  /\ mod = "waiting" => i < pwm_pin_count
  /\ mod \in {"unmapped", "gone"} => i = pwm_pin_count
  /\ \A t \in Tid : (t < i => st[t] = "exited")
  /\ \A t \in Tid : (st[t] = "exited" => stop[t])
  /\ \A t \in Tid : (stop[t] => mod \notin {"out", "live"})

(* Every thread but one that is being added is counted.                    *)
CountInv == (\A c \in Client : pc[c] \notin InitPc) => nTask = pwm_pin_count

CallsInv ==
  \A c \in Client :
    /\ pc[c] \in InitPc => AddingInv(c)
    /\ pc[c] \in {"scan", "duty"} => SettingInv(c)

DisciplinedInv ==
  /\ TypeOK /\ ThreadInv /\ LifeInv /\ CountInv /\ CallsInv
  /\ NoDriverFault /\ CreatedIsWritable /\ HighOnlyInPulse

=============================================================================
