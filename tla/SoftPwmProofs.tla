---------------------------- MODULE SoftPwmProofs ----------------------------
(***************************************************************************)
(* Proofs about SoftPwm, for any number of clients, pins and channels.     *)
(* What holds for any users; and that DisciplinedInv is kept by load and   *)
(* unload, by the threads and by all commands but PWM_INIT.                *)
(***************************************************************************)
EXTENDS SoftPwm, PwmTimingProofs

(* More than the prover's default time, for a loaded machine.              *)
USE SMTT(30)

(* A call record keeps its type when one of its fields is updated.         *)
LEMMA NewCallType ==
  ASSUME NEW a \in SlotOf(Pin), NEW n \in Nat, NEW t \in Tid \union {NULL, ERR}
  PROVE  NewCall(a, n, t) \in CallRecord
  BY Zenon DEF NewCall, CallRecord

(* The locals of no call are well typed.                                   *)
LEMMA NoCallType == NoCall \in CallRecord
  BY SoftAssumption, NewCallType DEF NoCall, ZeroSlot, SlotOf, SoftAssumption

(* Fields of well-typed locals, and locals with one of them changed.       *)
LEMMA CallUpdate ==
  ASSUME NEW r \in CallRecord, NEW n \in Nat
  PROVE  /\ r.arg \in SlotOf(Pin) /\ r.ld \in Nat /\ r.idx \in Nat
         /\ r.tsk \in Tid \union {NULL, ERR}
         /\ [r EXCEPT !.ld = n] \in CallRecord
         /\ [r EXCEPT !.idx = n] \in CallRecord
  BY Zenon DEF CallRecord

(* An ioctl that returns leaves the client's part of the state well typed. *)
LEMMA ReturnType ==
  ASSUME TypeOK, NEW c \in Client, NEW r \in {"none", "done", "warned", "error"}, Return(c, r)
  PROVE  /\ pc' \in [Client -> {"closed", "user", "scan", "duty"} \union InitPc]
         /\ call' \in [Client -> CallRecord]
         /\ ret' \in [Client -> {"none", "done", "warned", "error"}]
  BY NoCallType, Zenon DEF Return, TypeOK

(* TypeOK holds at first, and every kind of step keeps it.                 *)
LEMMA TypeInit == Init => TypeOK
  BY SoftAssumption, NoCallType
     DEF Init, TypeOK, SoftAssumption, ZeroSlot, SlotOf, Slot, Resource

(* insmod and rmmod.                                                       *)
LEMMA TypeModule ==
  ASSUME TypeOK, module_step
  PROVE  TypeOK'
<1> USE SoftAssumption DEF SoftAssumption
<1>1. CASE pwm_init
  BY <1>1, Zenon DEF pwm_init, TypeOK, Resource, arrayVars, taskVars, clientVars
<1>2. CASE pwm_exit
  BY <1>2, Zenon DEF pwm_exit, TypeOK, arrayVars, taskVars, clientVars
<1>3. CASE exit_stop
  BY <1>3, ZenonT(60) DEF exit_stop, TypeOK, Oops, devVars, arrayVars, taskVars, clientVars
<1>4. CASE exit_wait
  BY <1>4 DEF exit_wait, TypeOK, arrayVars, taskVars, clientVars
<1>5. CASE exit_unmap
  BY <1>5, Zenon DEF exit_unmap, TypeOK, arrayVars, taskVars, clientVars
<1>6. CASE exit_release
  BY <1>6, Zenon DEF exit_release, TypeOK, arrayVars, taskVars, clientVars
<1>7. QED
  BY <1>1, <1>2, <1>3, <1>4, <1>5, <1>6, Zenon DEF module_step

(* The calls of user space.                                                *)
LEMMA TypeUser ==
  ASSUME TypeOK, NEW c \in Client, user_step(c)
  PROVE  TypeOK'
<1> USE SoftAssumption DEF SoftAssumption
<1>1. CASE open(c)
  BY <1>1, Zenon DEF open, TypeOK, Oops, devVars, arrayVars, taskVars, clientVars
<1>2. CASE close(c)
  BY <1>2 DEF close, TypeOK, devVars, arrayVars, taskVars
<1>3. CASE ioctl_other(c)
  BY <1>3, ReturnType DEF ioctl_other, TypeOK, devVars, arrayVars, taskVars
<1>4. ASSUME NEW p \in Pin, NEW status \in Int, GPIO_SET(c, p, status)
      PROVE  TypeOK'
  <2>1. CASE status \notin {0, 1}
    BY <1>4, <2>1, ReturnType, Zenon DEF GPIO_SET, TypeOK, devVars, arrayVars, taskVars
  <2>2. CASE status \in {0, 1} /\ "gpio" \in held
    <3>1. level' \in [Pin -> {0, 1}]
      BY <1>4, <2>2, Zenon DEF GPIO_SET, TypeOK
    <3>2. QED
      BY <1>4, <2>2, <3>1, ReturnType, Zenon DEF GPIO_SET, TypeOK, devVars, arrayVars, taskVars
  <2>3. CASE status \in {0, 1} /\ "gpio" \notin held
    BY <1>4, <2>3, Zenon DEF GPIO_SET, Oops, TypeOK, devVars, arrayVars, taskVars, clientVars
  <2>4. QED
    BY <2>1, <2>2, <2>3, Zenon
<1>5. ASSUME NEW a \in SetArg, PWM_SET(c, a)
      PROVE  TypeOK'
  BY <1>5, NewCallType, ZenonT(60) DEF PWM_SET, Goto, TypeOK, devVars, arrayVars, taskVars
<1>6. ASSUME NEW a \in InitArg, PWM_INIT(c, a)
      PROVE  TypeOK'
  <2>1. a \in SlotOf(Pin)
    BY Zenon
  <2>2. ASSUME pwm_pin_count < MAX_PWM_NUM
        PROVE  TypeOK'
    <3>1. nTask \in Tid /\ nTask + 1 \in 0 .. InitLimit /\ pwm_pin_count \in Slot
      BY <1>6, <2>2 DEF PWM_INIT, TypeOK, Tid, Slot
    <3>2. /\ NewCall(a, pwm_pin_count, nTask) \in CallRecord
          /\ NewCall(a, pwm_pin_count, ERR) \in CallRecord
      BY <2>1, <3>1, NewCallType, Zenon DEF TypeOK
    <3>3. call' \in [Client -> CallRecord]
      BY <1>6, <2>2, <3>2 DEF PWM_INIT, TypeOK
    <3>4. /\ nTask' \in 0 .. InitLimit
          /\ st' \in [Tid -> {"none", "new", "loop", "set", "high", "exited"}]
          /\ pos' \in [Tid -> Slot \union {0}]
      BY <1>6, <2>2, <3>1 DEF PWM_INIT, TypeOK
    <3>5. UNCHANGED <<mod, held, i, pwm_pin_count, duty_array, pwm_tsk, stop, level, ret, created, fault>>
          /\ pc' = [pc EXCEPT ![c] = "store"]
      BY <1>6, <2>2 DEF PWM_INIT, Goto, devVars, arrayVars, TypeOK
    <3>6. QED
      BY <3>3, <3>4, <3>5, Zenon DEF TypeOK, InitPc
  <2>3. ASSUME ~(pwm_pin_count < MAX_PWM_NUM)
        PROVE  TypeOK'
    BY <1>6, <2>3, ZenonT(60) DEF PWM_INIT, Oops, TypeOK, devVars, arrayVars, taskVars, clientVars
  <2>4. QED
    BY <2>2, <2>3, Zenon
<1>7. \A g \in GpioArg : g[1] \in Pin /\ g[2] \in Int
  BY Zenon
<1>8. QED
  BY <1>1, <1>2, <1>3, <1>4, <1>5, <1>6, <1>7, Zenon DEF user_step

(* The four stores of PWM_INIT.                                            *)
LEMMA TypeFill ==
  ASSUME TypeOK, NEW c \in Client, init_fill(c)
  PROVE  TypeOK'
<1> DEFINE k == call[c].ld
           e == duty_array[k]
<1>1. /\ call[c].arg.pin \in Pin
      /\ call[c].arg.min \in Int
      /\ call[c].arg.max \in Int
  BY Zenon DEF TypeOK, CallRecord, SlotOf
<1>2. k \in Slot =>
        /\ [e EXCEPT !.pin = call[c].arg.pin] \in SlotOf(Pin)
        /\ [e EXCEPT !.min = call[c].arg.min] \in SlotOf(Pin)
        /\ [e EXCEPT !.max = call[c].arg.max] \in SlotOf(Pin)
        /\ [e EXCEPT !.duty_cycle = 0] \in SlotOf(Pin)
  <2> HAVE k \in Slot
  <2>1. e \in SlotOf(Pin)
    BY Zenon DEF TypeOK
  <2> HIDE DEF e
  <2>2. QED
    BY <1>1, <2>1 DEF SlotOf
<1>3. duty_array' \in [Slot -> SlotOf(Pin)]
  BY <1>2, Zenon DEF init_fill, Fill, Oops, arrayVars, TypeOK
<1>4. /\ pc' \in [Client -> {"closed", "user", "scan", "duty"} \union InitPc]
      /\ fault' \in {"none", "oob", "null", "unmapped", "div0", "text", "stale"}
  BY ZenonT(30) DEF init_fill, Fill, Goto, Oops, Hit, clientVars, TypeOK, InitPc, FillPc
<1>5. UNCHANGED <<mod, held, i, pwm_pin_count, pwm_tsk, nTask, st, pos, stop, level,
                  call, ret, created>>
  BY Zenon DEF init_fill, Fill, Goto, Oops, devVars, arrayVars, taskVars, clientVars
<1>6. QED
  BY <1>3, <1>4, <1>5, Zenon DEF TypeOK

(* The steps inside pwm_ioctl.                                             *)
LEMMA TypeIoctl ==
  ASSUME TypeOK, NEW c \in Client, init_step(c) \/ set_step(c) \/ reload(c)
  PROVE  TypeOK'
<1> USE DEF TypeOK, devVars, arrayVars, taskVars, clientVars
<1>1. CASE init_store(c)
  BY <1>1, CallUpdate, ZenonT(60) DEF init_store, Hit, InitPc, Goto, Oops
<1>2. CASE init_check(c)
  BY <1>2 DEF init_check, InitPc, FillPc, Goto, Oops
<1>3. CASE init_undo(c)
  <2>1. CASE call[c].ld \in Slot
    BY <1>3, <2>1, ReturnType DEF init_undo
  <2>2. CASE call[c].ld \notin Slot
    BY <1>3, <2>2 DEF init_undo, Oops
  <2>3. QED
    BY <2>1, <2>2, Zenon
<1>4. CASE init_fill(c)
  BY <1>4, TypeFill, Zenon
<1>5. CASE init_print(c)
  BY <1>5, CallUpdate, Zenon DEF init_print, InitPc, Goto
<1>6. CASE init_wake(c)
  BY <1>6 DEF init_wake, InitPc, Goto, Oops
<1>7. CASE init_load(c)
  BY <1>7, CallUpdate, Zenon DEF init_load, InitPc, Goto
<1>8. CASE init_incr(c)
  <2>1. call[c].arg.pin \in Pin /\ call[c].ld + 1 \in Nat
    BY DEF CallRecord, SlotOf
  <2>2. QED
    BY <1>8, <2>1, ReturnType DEF init_incr
<1>9. CASE set_scan(c)
  <2> DEFINE k == call[c].idx
             n == call[c].ld
  <2>0. k \in Nat /\ n \in Nat /\ [call[c] EXCEPT !.idx = k + 1] \in CallRecord
    BY DEF CallRecord
  <2>a. k < n => ~(k >= n)
    BY <2>0
  <2>1. CASE k < n
    <3>2. \/ call' = call
          \/ call' = [call EXCEPT ![c] = [call[c] EXCEPT !.idx = call[c].idx + 1]]
      BY <1>9, <2>1, <2>a, Zenon DEF set_scan
    <3>3. call' \in [Client -> CallRecord]
      BY <2>0, <3>2, Zenon
    <3>4. /\ pc' \in [Client -> {"closed", "user", "scan", "duty"} \union InitPc]
          /\ UNCHANGED <<ret, created>>
          /\ fault' \in {fault, "oob"}
      BY <1>9, <2>1, <2>a, Zenon DEF set_scan, Goto
    <3>5. QED
      BY <1>9, <3>3, <3>4, Zenon DEF set_scan
  <2>2. CASE ~(k < n)
    BY <1>9, <2>2, ReturnType DEF set_scan
  <2>3. QED
    BY <2>1, <2>2, Zenon
<1>10. CASE set_duty(c)
  <2>1. call[c].arg.duty_cycle \in Int
    BY Zenon DEF CallRecord, SlotOf
  <2>2. duty_array' \in [Slot -> SlotOf(Pin)]
    BY <1>10, <2>1, ZenonT(60) DEF set_duty, SlotOf
  <2>3. QED
    BY <1>10, <2>2, ReturnType, Zenon DEF set_duty
<1>11. CASE reload(c)
  BY <1>11, CallUpdate, Zenon DEF reload
<1> HIDE DEF TypeOK, devVars, arrayVars, taskVars, clientVars
<1>12. QED
  BY <1>1, <1>2, <1>3, <1>4, <1>5, <1>6, <1>7, <1>8, <1>9, <1>10, <1>11, Zenon
     DEF init_step, set_step

(* The threads.                                                            *)
LEMMA TypeTask ==
  ASSUME TypeOK, NEW t \in Tid, task_step(t)
  PROVE  TypeOK'
<1> USE DEF TypeOK, Oops, devVars, arrayVars, taskVars, clientVars
<1>1. CASE task_loop(t)
  BY <1>1 DEF task_loop
<1>2. CASE task_set(t)
  BY <1>2 DEF task_set, Half
<1>3. CASE task_clr(t)
  BY <1>3 DEF task_clr, Half
<1>4. CASE task_text(t)
  BY <1>4, Zenon DEF task_text
<1>5. QED
  BY <1>1, <1>2, <1>3, <1>4, Zenon DEF task_step

(* Type correctness: whatever the users do and whichever allocation fails, *)
(* the thread arguments are indices of duty_array and the shared arrays    *)
(* keep entries of their own types (pwm_ioctl, pwm_task, pwm_exit).        *)
THEOREM TypeCorrect == Spec => []TypeOK
<1>1. TypeOK /\ [Next]_vars => TypeOK'
  <2> SUFFICES ASSUME TypeOK, [Next]_vars PROVE TypeOK'
    BY Zenon
  <2>1. CASE Next
    BY <2>1, TypeModule, TypeUser, TypeIoctl, TypeTask, Zenon DEF Next
  <2>2. CASE UNCHANGED vars
    BY <2>2, Zenon DEF TypeOK, vars, devVars, arrayVars, taskVars, clientVars
  <2>3. QED
    BY <2>1, <2>2, Zenon
<1>2. QED
  BY <1>1, TypeInit, PTL DEF Spec

-----------------------------------------------------------------------------
(* OwnInv speaks of pwm_tsk, nTask and the calls about to store a thread.  *)
LEMMA OwnKept ==
  ASSUME OwnInv, pwm_tsk' = pwm_tsk, nTask' = nTask,
         \A c \in Client : pc'[c] = "store" => pc[c] = "store" /\ call'[c].tsk = call[c].tsk
  PROVE  OwnInv'
  BY DEF OwnInv, NoDoubleStop

(* The null pointer and an ERR_PTR value are no threads.                   *)
LEMMA NotThreads == NULL \notin Tid /\ ERR \notin Tid
  BY SoftAssumption DEF SoftAssumption, Tid

(* Every step keeps OwnInv, whoever creates channels.                      *)
LEMMA OwnStep ==
  ASSUME TypeOK, OwnInv, [Next]_vars
  PROVE  OwnInv'
<1> USE DEF TypeOK, devVars, arrayVars, taskVars, clientVars
<1>1. CASE module_step
  BY <1>1, OwnKept, Zenon DEF module_step, pwm_init, pwm_exit, exit_stop, exit_wait,
     exit_unmap, exit_release, Oops
<1>2. ASSUME NEW t \in Tid, task_step(t)
      PROVE  OwnInv'
  BY <1>2, OwnKept, Zenon DEF task_step, task_loop, task_set, task_clr, task_text, Half, Oops
<1>3. ASSUME NEW c \in Client, init_store(c)
      PROVE  OwnInv'
  <2>1. CASE Hit("pwm_tsk", call[c].ld) # "none"
    BY <1>3, <2>1, OwnKept, Zenon DEF init_store, Oops
  <2>2. CASE Hit("pwm_tsk", call[c].ld) = "none"
    <3>1. /\ nTask' = nTask /\ call' = call
          /\ \A d \in Client : pc'[d] = "store" => pc[d] = "store" /\ d # c
          /\ pwm_tsk' = [pwm_tsk EXCEPT ![call[c].ld] = call[c].tsk]
          /\ pc[c] = "store"
      BY <1>3, <2>2, Zenon DEF init_store, Goto
    <3>2. QED
      BY <3>1 DEF OwnInv, NoDoubleStop
  <2>3. QED
    BY <2>1, <2>2, Zenon
<1>4. ASSUME NEW c \in Client, init_undo(c)
      PROVE  OwnInv'
  <2>1. /\ nTask' = nTask
        /\ \A d \in Client : pc'[d] = "store" => pc[d] = "store" /\ call'[d] = call[d]
        /\ \A k \in Slot : pwm_tsk'[k] \in {pwm_tsk[k], NULL}
    BY <1>4 DEF init_undo, Return, Oops
  <2>2. QED
    BY <2>1, NotThreads DEF OwnInv, NoDoubleStop
<1>5. ASSUME NEW c \in Client, init_check(c) \/ init_print(c) \/ init_wake(c) \/ init_load(c)
                                 \/ init_incr(c) \/ init_fill(c)
      PROVE  OwnInv'
  <2>1. CASE init_check(c)
    BY <2>1, OwnKept DEF init_check, Goto, Oops
  <2>2. CASE init_print(c)
    BY <2>2, OwnKept, Zenon DEF init_print, Goto
  <2>3. CASE init_wake(c)
    BY <2>3, OwnKept, Zenon DEF init_wake, Goto, Oops
  <2>4. CASE init_load(c)
    BY <2>4, OwnKept, Zenon DEF init_load, Goto
  <2>5. CASE init_incr(c)
    BY <2>5, OwnKept, Zenon DEF init_incr, Return
  <2>6. CASE init_fill(c)
    BY <2>6, OwnKept, Zenon DEF init_fill, Fill, Goto, Oops
  <2>7. QED
    BY <1>5, <2>1, <2>2, <2>3, <2>4, <2>5, <2>6, Zenon
<1>6. ASSUME NEW c \in Client, set_step(c) \/ reload(c)
      PROVE  OwnInv'
  <2>1. CASE reload(c)
    BY <2>1, OwnKept DEF reload
  <2>2. CASE set_duty(c)
    BY <2>2, OwnKept, Zenon DEF set_duty, Return
  <2>3. CASE set_scan(c)
    BY <2>3, OwnKept DEF set_scan, Goto, Return
  <2>4. QED
    BY <1>6, <2>1, <2>2, <2>3, Zenon DEF set_step
<1>7. ASSUME NEW c \in Client, user_step(c)
      PROVE  OwnInv'
  <2>1. CASE open(c) \/ close(c) \/ ioctl_other(c)
    BY <2>1, OwnKept DEF open, close, ioctl_other, Return, Oops
  <2>2. ASSUME NEW p, NEW status, GPIO_SET(c, p, status)
        PROVE  OwnInv'
    BY <2>2, OwnKept DEF GPIO_SET, Return, Oops
  <2>3. ASSUME NEW a \in SetArg, PWM_SET(c, a)
        PROVE  OwnInv'
    BY <2>3, OwnKept, Zenon DEF PWM_SET, Goto
  <2>4. ASSUME NEW a \in InitArg, PWM_INIT(c, a)
        PROVE  OwnInv'
    <3>1. CASE UNCHANGED clientVars /\ UNCHANGED nTask
      BY <2>4, <3>1, OwnKept, Zenon DEF PWM_INIT, Oops
    <3>2. CASE nTask' = nTask + 1
      <4>1. /\ pwm_tsk' = pwm_tsk /\ pc' = [pc EXCEPT ![c] = "store"]
            /\ call' = [call EXCEPT ![c] = NewCall(a, pwm_pin_count, nTask)]
        BY <2>4, <3>2 DEF PWM_INIT, Goto, Oops
      <4>2. call'[c].tsk = nTask
        BY <4>1 DEF NewCall
      <4>0. nTask \in Nat /\ nTask \in Tid
        BY <2>4, SoftAssumption DEF PWM_INIT, SoftAssumption, Tid
      <4>3. /\ \A k \in Slot : pwm_tsk[k] # nTask
            /\ \A d \in Client : pc[d] = "store" => call[d].tsk # nTask
        BY <4>0 DEF OwnInv
      <4>4. \A d \in Client : d # c => pc'[d] = pc[d] /\ call'[d] = call[d]
        BY <4>1, Zenon
      <4>5. \A k \in Slot : pwm_tsk'[k] \in Tid => pwm_tsk'[k] < nTask'
        BY <3>2, <4>0, <4>1 DEF OwnInv, Tid
      <4>6. ASSUME NEW d \in Client, pc'[d] = "store", call'[d].tsk \in Tid
            PROVE  /\ call'[d].tsk < nTask'
                   /\ \A k \in Slot : pwm_tsk'[k] # call'[d].tsk
                   /\ \A e \in Client : pc'[e] = "store" /\ call'[e].tsk = call'[d].tsk => e = d
        <5>1. CASE d = c
          BY <3>2, <4>0, <4>1, <4>2, <4>3, <4>4, <5>1
        <5>2. CASE d # c
          <6>1. pc[d] = "store" /\ call'[d].tsk = call[d].tsk /\ call[d].tsk \in Tid
            BY <4>4, <4>6, <5>2, Zenon
          <6>2. /\ call[d].tsk < nTask /\ call[d].tsk # nTask
                /\ \A k \in Slot : pwm_tsk[k] # call[d].tsk
                /\ \A e \in Client : pc[e] = "store" /\ call[e].tsk = call[d].tsk => e = d
            BY <4>3, <6>1, Zenon DEF OwnInv
          <6>3. call[d].tsk < nTask'
            BY <3>2, <4>0, <6>1, <6>2 DEF Tid
          <6>4. QED
            BY <4>1, <4>2, <4>4, <6>1, <6>2, <6>3, Zenon
        <5>3. QED
          BY <5>1, <5>2, Zenon
      <4>7. QED
        BY <4>1, <4>5, <4>6, Zenon DEF OwnInv, NoDoubleStop
    <3>3. CASE /\ nTask' = nTask /\ Goto(c, "store")
               /\ call' = [call EXCEPT ![c] = NewCall(a, pwm_pin_count, ERR)]
      <4>1. pwm_tsk' = pwm_tsk /\ pc' = [pc EXCEPT ![c] = "store"]
        BY <2>4, <3>3, Zenon DEF PWM_INIT, Goto, Oops
      <4>2. call'[c].tsk = ERR
        BY <3>3, Zenon DEF NewCall
      <4>3. QED
        BY <3>3, <4>1, <4>2, NotThreads DEF OwnInv, NoDoubleStop
    <3>4. QED
      BY <2>4, <3>1, <3>2, <3>3, Zenon DEF PWM_INIT, Oops
  <2>5. QED
    BY <1>7, <2>1, <2>2, <2>3, <2>4, Zenon DEF user_step
<1>8. CASE UNCHANGED vars
  BY <1>8, OwnKept, Zenon DEF vars
<1>9. QED
  BY <1>1, <1>2, <1>3, <1>4, <1>5, <1>6, <1>7, <1>8, Zenon DEF Next, init_step

(* However many processes race in PWM_INIT and whatever they overwrite, no *)
(* thread is in two entries of pwm_tsk: pwm_exit's kthread_stop loop never *)
(* stops a thread it has already stopped and released.                     *)
THEOREM NoThreadStoppedTwice == Spec => []NoDoubleStop
<1>1. Init => OwnInv
  BY SoftAssumption DEF Init, OwnInv, NoDoubleStop, SoftAssumption, Tid
<1>2. OwnInv => NoDoubleStop
  BY Zenon DEF OwnInv
<1>3. QED
  BY <1>1, <1>2, TypeCorrect, OwnStep, PTL DEF Spec

-----------------------------------------------------------------------------
(* An entry filled from a disciplined argument has times that fit.         *)
LEMMA GoodInRange ==
  ASSUME Disciplined, NEW s \in SlotOf(Pin), GoodSlot(s)
  PROVE  InRange(s) /\ PWM_RANGE(s) # 0
  BY RangeFits, Zenon DEF Disciplined, GoodSlot, InRange

(* Only one client is inside PWM_INIT, and while it is no other creates.   *)
LEMMA OneCreator ==
  ASSUME Disciplined, CallsInv, NEW c \in Client, NEW d \in Client,
         pc[c] \in InitPc, pc[d] \in InitPc \/ d \in Creator
  PROVE  c = d
  BY DEF Disciplined, CallsInv, AddingInv

(* DisciplinedInv holds before the module is loaded.                       *)
LEMMA DisciplinedInit ==
  ASSUME Disciplined, Init
  PROVE  DisciplinedInv
<1>1. TypeOK
  BY TypeInit, Zenon
<1>2. ThreadInv /\ LifeInv /\ CountInv
  BY DEF Init, ThreadInv, LifeInv, CountInv, Tid
<1>3. CallsInv
  BY Zenon DEF Init, CallsInv, InitPc, FillPc
<1>4. NoDriverFault /\ CreatedIsWritable /\ HighOnlyInPulse
  BY DEF Init, NoDriverFault, CreatedIsWritable, HighOnlyInPulse
<1>5. QED
  BY <1>1, <1>2, <1>3, <1>4, Zenon DEF DisciplinedInv

(* A thread inside pwm_task works on its own, complete entry, and the      *)
(* registers and the code are there.                                       *)
LEMMA RunningThread ==
  ASSUME Disciplined, DisciplinedInv, NEW t \in Tid, st[t] \in {"loop", "set", "high"}
  PROVE  /\ pos[t] = t /\ t \in Slot
         /\ GoodSlot(duty_array[t])
         /\ mod \in {"live", "going", "waiting"}
<1>i. /\ TypeOK /\ ThreadInv /\ LifeInv /\ CountInv /\ CallsInv
      /\ NoDriverFault /\ CreatedIsWritable /\ HighOnlyInPulse
  BY Zenon DEF DisciplinedInv
<1>1. t \in Nat /\ t < nTask /\ pos[t] = t /\ nTask \in Nat /\ pwm_pin_count \in Nat
  BY <1>i DEF ThreadInv, TypeOK, Tid
<1>2. CASE t < pwm_pin_count
  <2>1. t \in 0 .. pwm_pin_count - 1
    BY <1>1, <1>2
  <2>2. t \in Slot /\ GoodSlot(duty_array[t])
    BY <1>i, <2>1, Zenon DEF ThreadInv
  <2>3. mod \in {"live", "going", "waiting"}
    BY <1>i, <1>1, <1>2 DEF LifeInv, TypeOK
  <2>4. QED
    BY <1>1, <2>2, <2>3
<1>3. CASE ~(t < pwm_pin_count)
  <2>1. PICK c \in Client : pc[c] \in InitPc
    BY <1>i, <1>1, <1>3, Zenon DEF CountInv
  <2>2. AddingInv(c)
    BY <1>i, <2>1, Zenon DEF CallsInv
  <2>3. t = pwm_pin_count /\ pc[c] \in {"load", "incr"} /\ t \in Slot /\ mod = "live"
    BY <1>1, <1>3, <2>2 DEF AddingInv
  <2>4. GoodSlot(duty_array[t])
    BY <2>2, <2>3, Zenon DEF AddingInv, GoodSlot
  <2>5. QED
    BY <1>1, <2>3, <2>4
<1>4. QED
  BY <1>2, <1>3, Zenon

(* insmod and rmmod keep DisciplinedInv.                                   *)
LEMMA ModuleKeeps ==
  ASSUME Disciplined, DisciplinedInv, module_step, fault = "none"
  PROVE  DisciplinedInv'
<1>i. /\ TypeOK /\ ThreadInv /\ LifeInv /\ CountInv /\ CallsInv
      /\ NoDriverFault /\ CreatedIsWritable /\ HighOnlyInPulse
  BY Zenon DEF DisciplinedInv
<1>0. TypeOK'
  BY <1>i, TypeModule, Zenon
<1>1. /\ UNCHANGED <<pc, call, created, pwm_pin_count, duty_array, pwm_tsk, nTask, pos, level>>
      /\ \A c \in Client : pc[c] = "closed"
  BY <1>i, Zenon DEF module_step, pwm_init, pwm_exit, exit_stop, exit_wait, exit_unmap, exit_release,
     Oops, LifeInv, devVars, arrayVars, taskVars, clientVars
<1>2. ASSUME exit_stop
      PROVE  /\ i \in Tid /\ pwm_tsk[i] = i /\ st' = st /\ fault' = fault
             /\ stop' = [stop EXCEPT ![i] = TRUE] /\ mod' = "waiting" /\ UNCHANGED <<held, i>>
  <2>1. i \in 0 .. pwm_pin_count - 1
    BY <1>i, <1>2 DEF exit_stop, TypeOK
  <2>2. i \in Slot /\ i \in Tid /\ pwm_tsk[i] = i /\ st[i] # "new"
    BY <1>i, <2>1, Zenon DEF ThreadInv
  <2>3. QED
    BY <1>i, <1>2, <2>2, Zenon DEF exit_stop, TypeOK
<1>3. st' = st /\ fault' = fault
  BY <1>2, Zenon DEF module_step, pwm_init, pwm_exit, exit_wait, exit_unmap, exit_release, taskVars
<1>4. ThreadInv' /\ CountInv' /\ NoDriverFault' /\ CreatedIsWritable' /\ HighOnlyInPulse'
  BY <1>i, <1>1, <1>3 DEF ThreadInv, CountInv, NoDriverFault, CreatedIsWritable, HighOnlyInPulse, GoodSlot
<1>5. CallsInv'
  BY <1>i, <1>1, Zenon DEF CallsInv, InitPc, FillPc
<1>6. LifeInv'
  <2>1. CASE pwm_init
    BY <1>i, <1>1, <1>3, <2>1, Zenon DEF pwm_init, LifeInv, Disciplined, taskVars, TypeOK
  <2>2. CASE pwm_exit
    BY <1>i, <1>1, <1>3, <2>2, Zenon DEF pwm_exit, LifeInv, taskVars
  <2>3. CASE exit_stop
    BY <1>i, <1>1, <1>2, <1>3, <2>3, Zenon DEF exit_stop, LifeInv, TypeOK
  <2>4. CASE exit_wait
    <3>1. /\ i \in Nat /\ pwm_pin_count \in Nat /\ i \in 0 .. pwm_pin_count - 1
      BY <1>i, <2>4 DEF exit_wait, LifeInv, TypeOK
    <3>2. st[i] = "exited" /\ UNCHANGED <<held, stop>>
      BY <1>i, <2>4, <3>1, Zenon DEF exit_wait, ThreadInv, taskVars
    <3>3. QED
      BY <1>i, <1>1, <1>3, <2>4, <3>1, <3>2 DEF exit_wait, LifeInv, Tid
  <2>5. CASE exit_unmap
    BY <1>i, <1>1, <1>3, <2>5 DEF exit_unmap, LifeInv, taskVars, TypeOK
  <2>6. CASE exit_release
    BY <1>i, <1>1, <1>3, <2>6, Zenon DEF exit_release, LifeInv, taskVars
  <2>7. QED
    BY <2>1, <2>2, <2>3, <2>4, <2>5, <2>6, Zenon DEF module_step
<1>7. QED
  BY <1>0, <1>4, <1>5, <1>6, Zenon DEF DisciplinedInv

-----------------------------------------------------------------------------
(* Frame facts, one for each conjunct that ranges over several actors.     *)
LEMMA ThreadKept ==
  ASSUME TypeOK, ThreadInv, UNCHANGED <<pwm_pin_count, pwm_tsk, nTask, pos>>,
         \A t \in Tid : st'[t] = st[t] \/ (t < nTask /\ st'[t] \in {"loop", "set", "high", "exited"}),
         \A k \in 0 .. pwm_pin_count - 1 : GoodSlot(duty_array[k]) => GoodSlot(duty_array'[k])
  PROVE  ThreadInv'
  BY Zenon DEF ThreadInv, TypeOK

(* A live module that is not being unloaded stays as it is.                *)
LEMMA LifeKept ==
  ASSUME LifeInv, mod = "live", UNCHANGED <<devVars, pwm_pin_count, stop>>,
         \A t \in Tid : st'[t] = "exited" => st[t] = "exited"
  PROVE  LifeInv'
  BY Zenon DEF LifeInv, devVars

(* Pins that stay as they are stay explained by the same threads.          *)
LEMMA HighKept ==
  ASSUME HighOnlyInPulse,
         \A p \in Pin \ {g[1] : g \in GpioArg} : level'[p] = level[p],
         \A t \in Tid : st[t] = "high" =>
           st'[t] = "high" /\ duty_array'[pos'[t]].pin = duty_array[pos[t]].pin
  PROVE  HighOnlyInPulse'
<1> SUFFICES ASSUME NEW p \in Pin \ {g[1] : g \in GpioArg}, level'[p] = 1
             PROVE  \E t \in Tid : st'[t] = "high" /\ duty_array'[pos'[t]].pin = p
  BY Zenon DEF HighOnlyInPulse
<1>1. PICK t \in Tid : st[t] = "high" /\ duty_array[pos[t]].pin = p
  BY Zenon DEF HighOnlyInPulse
<1>2. QED
  BY <1>1, Zenon

(* A PWM_INIT under way does not notice the steps of others.               *)
LEMMA AddingKept ==
  ASSUME NEW c \in Client, AddingInv(c), pc'[c] = pc[c], call'[c] = call[c],
         UNCHANGED <<mod, pwm_pin_count, nTask, pwm_tsk>>,
         duty_array'[pwm_pin_count] = duty_array[pwm_pin_count],
         \A t \in Tid : \/ st'[t] = st[t]
                        \/ /\ st[t] \in {"loop", "set", "high"}
                           /\ st'[t] \in {"loop", "set", "high"}
  PROVE  AddingInv(c)'
  BY DEF AddingInv

(* Nor does a PWM_SET.                                                     *)
LEMMA SettingKept ==
  ASSUME TypeOK, NEW c \in Client, SettingInv(c), pc'[c] = pc[c], call'[c] = call[c],
         mod' = mod, pwm_pin_count' \in Nat, pwm_pin_count <= pwm_pin_count',
         \A k \in 0 .. pwm_pin_count - 1 : duty_array'[k].pin = duty_array[k].pin
  PROVE  SettingInv(c)'
  BY DEF SettingInv, TypeOK, CallRecord

(* Entries that keep their pins keep what was created writable.            *)
LEMMA CreatedKept ==
  ASSUME CreatedIsWritable, created' = created, pwm_pin_count' \in Nat,
         pwm_pin_count \in Nat, pwm_pin_count <= pwm_pin_count',
         \A k \in 0 .. pwm_pin_count - 1 : duty_array'[k].pin = duty_array[k].pin
  PROVE  CreatedIsWritable'
  BY DEF CreatedIsWritable, Slot

(* A step that leaves all the invariant reads alone.                       *)
LEMMA NothingRead ==
  ASSUME DisciplinedInv, TypeOK', NoDriverFault',
         UNCHANGED <<mod, held, i, pwm_pin_count, duty_array, pwm_tsk>>,
         UNCHANGED <<nTask, st, pos, stop, level, pc, call, created>>
  PROVE  DisciplinedInv'
<1>i. /\ TypeOK /\ ThreadInv /\ LifeInv /\ CountInv /\ CallsInv
      /\ NoDriverFault /\ CreatedIsWritable /\ HighOnlyInPulse
  BY Zenon DEF DisciplinedInv
<1>1. ThreadInv'
  BY <1>i, Zenon DEF ThreadInv, GoodSlot
<1>2. LifeInv'
  BY <1>i, Zenon DEF LifeInv
<1>3. CountInv' /\ CreatedIsWritable' /\ HighOnlyInPulse'
  BY <1>i, Zenon DEF CountInv, CreatedIsWritable, HighOnlyInPulse
<1>4. CallsInv'
  <2>1. ASSUME NEW c \in Client PROVE AddingInv(c) => AddingInv(c)'
    BY <2>1, AddingKept, Zenon
  <2>2. ASSUME NEW c \in Client PROVE SettingInv(c) => SettingInv(c)'
    <3>1. mod' = mod /\ pc'[c] = pc[c] /\ call'[c] = call[c]
          /\ pwm_pin_count' = pwm_pin_count /\ duty_array' = duty_array
      BY Zenon
    <3>2. QED
      BY <3>1, Zenon DEF SettingInv
  <2>3. QED
    BY <1>i, <2>1, <2>2, Zenon DEF CallsInv
<1>5. QED
  BY <1>i, <1>1, <1>2, <1>3, <1>4, Zenon DEF DisciplinedInv

-----------------------------------------------------------------------------
(* A step of a thread: its half periods only move the thread and its pin,  *)
(* and none of the faults can happen.                                      *)
LEMMA TaskNoFault ==
  ASSUME Disciplined, DisciplinedInv, NEW t \in Tid, task_step(t)
  PROVE  /\ UNCHANGED <<devVars, arrayVars, nTask, pos, stop, clientVars, fault>>
         /\ \/ /\ st[t] = "loop" /\ level' = level
               /\ st' = [st EXCEPT ![t] = IF stop[t] THEN "exited" ELSE "set"]
            \/ /\ st[t] = "set" /\ st' = [st EXCEPT ![t] = "high"]
               /\ level' = [level EXCEPT ![duty_array[t].pin] = 1]
            \/ /\ st[t] = "high" /\ st' = [st EXCEPT ![t] = "loop"]
               /\ level' = [level EXCEPT ![duty_array[t].pin] = 0]
<1>1. st[t] \in {"loop", "set", "high"}
  BY Zenon DEF task_step, task_loop, task_set, task_clr, task_text, Half
<1>2. pos[t] = t /\ t \in Slot /\ GoodSlot(duty_array[t]) /\ mod \in {"live", "going", "waiting"}
  BY <1>1, RunningThread
<1>3. duty_array[t] \in SlotOf(Pin)
  BY <1>2, Zenon DEF DisciplinedInv, TypeOK
<1>4. "gpio" \in held /\ PWM_RANGE(duty_array[t]) # 0
  BY <1>2, <1>3, GoodInRange, Zenon DEF DisciplinedInv, LifeInv
<1>5. CASE task_loop(t)
  BY <1>5, Zenon DEF task_loop
<1>6. CASE task_set(t)
  BY <1>2, <1>4, <1>6, Zenon DEF task_set, Half
<1>7. CASE task_clr(t)
  BY <1>2, <1>4, <1>7, Zenon DEF task_clr, Half
<1>8. QED
  BY <1>2, <1>5, <1>6, <1>7, Zenon DEF task_step, task_text

(* A step of a thread keeps DisciplinedInv.                                *)
LEMMA TaskKeeps ==
  ASSUME Disciplined, DisciplinedInv, NEW t \in Tid, task_step(t)
  PROVE  DisciplinedInv'
<1>i. /\ TypeOK /\ ThreadInv /\ LifeInv /\ CountInv /\ CallsInv
      /\ NoDriverFault /\ CreatedIsWritable /\ HighOnlyInPulse
  BY Zenon DEF DisciplinedInv
<1>0. TypeOK'
  BY <1>i, TypeTask, Zenon
<1>1. /\ UNCHANGED <<mod, held, i, pwm_pin_count, duty_array, pwm_tsk, nTask, pos, stop,
                     pc, call, created, fault>>
      /\ st[t] \in {"loop", "set", "high"}
      /\ st' = [st EXCEPT ![t] = st'[t]]
      /\ st'[t] \in {"loop", "set", "high", "exited"}
      /\ st'[t] = "exited" => stop[t]
  BY <1>i, TaskNoFault DEF TypeOK, devVars, arrayVars, clientVars
<1>t. /\ st \in [Tid -> {"none", "new", "loop", "set", "high", "exited"}] /\ level \in [Pin -> {0, 1}]
      /\ pwm_pin_count \in Nat
  BY <1>i DEF TypeOK
<1>2. /\ pos[t] = t /\ t \in Slot /\ t < nTask /\ mod \in {"live", "going", "waiting"}
      /\ GoodSlot(duty_array[t]) /\ duty_array[t] \in SlotOf(Pin)
  BY <1>i, <1>1, RunningThread DEF ThreadInv, TypeOK
<1>3. ThreadInv'
  <2>1. \A u \in Tid : st'[u] = st[u] \/ (u < nTask /\ st'[u] \in {"loop", "set", "high", "exited"})
    BY <1>t, <1>1, <1>2, Zenon
  <2>2. QED
    BY <1>i, <1>1, <2>1, ThreadKept, Zenon
<1>4. LifeInv'
  BY <1>i, <1>t, <1>1, <1>2 DEF LifeInv
<1>5. CountInv' /\ NoDriverFault' /\ CreatedIsWritable'
  BY <1>i, <1>1, Zenon DEF CountInv, NoDriverFault, CreatedIsWritable
<1>6. CallsInv'
  <2> SUFFICES ASSUME NEW c \in Client
               PROVE  /\ pc'[c] \in InitPc => AddingInv(c)'
                      /\ pc'[c] \in {"scan", "duty"} => SettingInv(c)'
    BY <1>i, Zenon DEF CallsInv
  <2>1. pc[c] \in InitPc => AddingInv(c)'
    <3> HAVE pc[c] \in InitPc
    <3>1. AddingInv(c)
      BY <1>i, Zenon DEF CallsInv
    <3>2. st'[t] # "exited"
      BY <1>i, <1>1, <3>1, Zenon DEF AddingInv, LifeInv
    <3>3. QED
      <4>1. \A u \in Tid : \/ st'[u] = st[u]
                            \/ /\ st[u] \in {"loop", "set", "high"}
                               /\ st'[u] \in {"loop", "set", "high"}
        BY <1>t, <1>1, <3>2, Zenon
      <4>2. pc'[c] = pc[c] /\ call'[c] = call[c]
        BY <1>1, Zenon
      <4>3. QED
        BY <1>1, <3>1, <4>1, <4>2, AddingKept, Zenon
  <2>2. pc[c] \in {"scan", "duty"} => SettingInv(c)'
    <3>1. pc[c] \in {"scan", "duty"} => SettingInv(c)
      BY <1>i, Zenon DEF CallsInv
    <3>2. /\ pc'[c] = pc[c] /\ call'[c] = call[c] /\ mod' = mod /\ duty_array' = duty_array
          /\ pwm_pin_count' \in Nat /\ pwm_pin_count <= pwm_pin_count'
      BY <1>t, <1>1
    <3>3. QED
      BY <1>i, <3>1, <3>2, SettingKept, Zenon
  <2>3. QED
    BY <1>1, <2>1, <2>2
<1>7. HighOnlyInPulse'
  <2> DEFINE q == duty_array[t].pin
  <2>0. q \in Pin
    BY <1>2, Zenon DEF SlotOf
  <2>a. \/ /\ st[t] = "loop" /\ level' = level
           /\ st' = [st EXCEPT ![t] = IF stop[t] THEN "exited" ELSE "set"]
        \/ /\ st[t] = "set" /\ st' = [st EXCEPT ![t] = "high"] /\ level' = [level EXCEPT ![q] = 1]
        \/ /\ st[t] = "high" /\ st' = [st EXCEPT ![t] = "loop"] /\ level' = [level EXCEPT ![q] = 0]
    BY TaskNoFault, Zenon
  <2> HIDE DEF q
  <2>b. q = duty_array[pos[t]].pin /\ q = duty_array'[pos'[t]].pin
    BY <1>1, <1>2, Zenon DEF q
  <2>1. CASE st[t] = "loop"
    <3>1. level' = level /\ \A u \in Tid : st[u] = "high" => st'[u] = "high"
      BY <1>t, <2>a, <2>1, Zenon
    <3>2. QED
      BY <1>i, <1>1, <3>1, HighKept, Zenon
  <2>2. CASE st[t] = "set"
    <3>1. st'[t] = "high" /\ \A u \in Tid : st[u] = "high" => st'[u] = "high"
      BY <1>t, <2>a, <2>2, Zenon
    <3>2. \A p \in Pin : p # q => level'[p] = level[p]
      BY <1>t, <2>a, <2>2
    <3>3. ASSUME NEW p \in Pin \ {g[1] : g \in GpioArg}, level'[p] = 1
          PROVE  \E u \in Tid : st'[u] = "high" /\ duty_array'[pos'[u]].pin = p
      <4>1. CASE p = q
        BY <2>b, <3>1, <4>1, Zenon
      <4>2. CASE p # q
        <5>1. level[p] = 1
          BY <3>2, <3>3, <4>2, Zenon
        <5>2. PICK u \in Tid : st[u] = "high" /\ duty_array[pos[u]].pin = p
          BY <1>i, <5>1, Zenon DEF HighOnlyInPulse
        <5>3. QED
          BY <1>1, <3>1, <5>2, Zenon
      <4>3. QED
        BY <4>1, <4>2, Zenon
    <3>4. QED
      BY <3>3, Zenon DEF HighOnlyInPulse
  <2>3. CASE st[t] = "high"
    <3>1. level' = [level EXCEPT ![q] = 0] /\ \A u \in Tid : u # t => st'[u] = st[u]
      BY <1>t, <2>a, <2>3, Zenon
    <3>2. ASSUME NEW p \in Pin \ {g[1] : g \in GpioArg}, level'[p] = 1
          PROVE  \E u \in Tid : st'[u] = "high" /\ duty_array'[pos'[u]].pin = p
      <4>1. p # q /\ level[p] = 1
        BY <1>t, <2>0, <3>1, <3>2
      <4>2. PICK u \in Tid : st[u] = "high" /\ duty_array[pos[u]].pin = p
        BY <1>i, <4>1, Zenon DEF HighOnlyInPulse
      <4>3. QED
        BY <1>1, <2>b, <3>1, <4>1, <4>2, Zenon
    <3>3. QED
      BY <3>2, Zenon DEF HighOnlyInPulse
  <2>4. QED
    BY <1>1, <2>1, <2>2, <2>3, Zenon
<1>8. QED
  BY <1>0, <1>3, <1>4, <1>5, <1>6, <1>7, Zenon DEF DisciplinedInv

-----------------------------------------------------------------------------
(* A step that changes only one client's own state, outside PWM_INIT, and  *)
(* perhaps the level of a pin that GPIO_SET drives.                        *)
LEMMA ClientOnly ==
  ASSUME DisciplinedInv, TypeOK', NoDriverFault', NEW c \in Client,
         UNCHANGED <<devVars, arrayVars, taskVars, created>>,
         mod = "live", pc[c] \notin InitPc, pc'[c] \notin InitPc,
         pc'[c] \in {"scan", "duty"} => SettingInv(c)',
         \A d \in Client : d # c => pc'[d] = pc[d] /\ call'[d] = call[d],
         \A p \in Pin \ {g[1] : g \in GpioArg} : level'[p] = level[p]
  PROVE  DisciplinedInv'
<1>i. /\ TypeOK /\ ThreadInv /\ LifeInv /\ CountInv /\ CallsInv
      /\ NoDriverFault /\ CreatedIsWritable /\ HighOnlyInPulse
  BY Zenon DEF DisciplinedInv
<1>1. UNCHANGED <<mod, pwm_pin_count, duty_array, pwm_tsk, nTask, st, pos, stop>>
  BY Zenon DEF devVars, arrayVars, taskVars
<1>2. ThreadInv' /\ LifeInv'
  <2>1. ThreadInv'
    BY <1>i, <1>1, ThreadKept, Zenon
  <2>2. LifeInv'
    BY <1>i, <1>1, LifeKept, Zenon DEF taskVars
  <2>3. QED
    BY <2>1, <2>2, Zenon
<1>3. CountInv' /\ CreatedIsWritable'
  <2>1. CountInv'
    BY <1>i, <1>1, Zenon DEF CountInv
  <2>2. CreatedIsWritable'
    BY <1>i, <1>1, Zenon DEF CreatedIsWritable
  <2>3. QED
    BY <2>1, <2>2, Zenon
<1>4. HighOnlyInPulse'
  BY <1>i, <1>1, HighKept, Zenon
<1>5. CallsInv'
  <2> SUFFICES ASSUME NEW d \in Client, d # c
               PROVE  /\ pc'[d] \in InitPc => AddingInv(d)'
                      /\ pc'[d] \in {"scan", "duty"} => SettingInv(d)'
    BY <1>i, Zenon DEF CallsInv
  <2>1. pc'[d] = pc[d] /\ call'[d] = call[d]
    BY Zenon
  <2>2. pc[d] \in InitPc => AddingInv(d)'
    BY <1>i, <1>1, <2>1, AddingKept, Zenon DEF CallsInv
  <2>3. pc[d] \in {"scan", "duty"} => SettingInv(d)'
    <3>1. pwm_pin_count' \in Nat /\ pwm_pin_count <= pwm_pin_count'
      BY <1>i, <1>1 DEF TypeOK
    <3>2. pc[d] \in {"scan", "duty"} => SettingInv(d)
      BY <1>i, Zenon DEF CallsInv
    <3>3. QED
      BY <1>i, <1>1, <2>1, <3>1, <3>2, SettingKept, ZenonT(30)
  <2>4. QED
    BY <2>1, <2>2, <2>3, Zenon
<1>6. QED
  BY <1>2, <1>3, <1>4, <1>5, Zenon DEF DisciplinedInv

(* What a new control point or new locals of one client leave alone.       *)
LEMMA PcUpdate ==
  ASSUME TypeOK, NEW c \in Client, NEW l, pc' = [pc EXCEPT ![c] = l]
  PROVE  pc'[c] = l /\ \A d \in Client : d # c => pc'[d] = pc[d]
  BY Zenon DEF TypeOK

(* The same for its locals.                                                *)
LEMMA CallUpdated ==
  ASSUME TypeOK, NEW c \in Client, NEW r, call' = [call EXCEPT ![c] = r]
  PROVE  call'[c] = r /\ \A d \in Client : d # c => call'[d] = call[d]
  BY Zenon DEF TypeOK

-----------------------------------------------------------------------------
(* open, close, the rejected commands, GPIO_SET and the start of PWM_SET.  *)
LEMMA UserKeeps ==
  ASSUME Disciplined, DisciplinedInv, NEW c \in Client, fault = "none",
         user_step(c), ~(c \in Creator /\ \E a \in InitArg : PWM_INIT(c, a))
  PROVE  DisciplinedInv'
<1>i. /\ TypeOK /\ ThreadInv /\ LifeInv /\ CountInv /\ CallsInv
      /\ NoDriverFault /\ CreatedIsWritable /\ HighOnlyInPulse
  BY Zenon DEF DisciplinedInv
<1>0. TypeOK'
  BY <1>i, TypeUser
<1>a. "closed" \notin InitPc /\ "user" \notin InitPc /\ "scan" \notin InitPc /\ "duty" \notin InitPc
  BY Zenon DEF InitPc, FillPc
<1>b. pc[c] = "user" => mod = "live" /\ "gpio" \in held
  BY <1>i, Zenon DEF LifeInv
<1>1. CASE open(c)
  <2>1. CASE mod = "live"
    <3>1. /\ pc[c] = "closed" /\ pc' = [pc EXCEPT ![c] = "user"]
          /\ UNCHANGED <<call, created, fault, devVars, arrayVars, taskVars, level>>
      BY <1>1, <2>1, Zenon DEF open
    <3>2. pc'[c] = "user" /\ \A d \in Client : d # c => pc'[d] = pc[d]
      BY <1>i, <3>1, PcUpdate, Zenon
    <3>3. QED
      BY <1>i, <1>0, <1>a, <2>1, <3>1, <3>2, ClientOnly, Zenon DEF NoDriverFault
  <2>2. CASE mod = "gone"
    <3>1. UNCHANGED <<devVars, arrayVars, taskVars, level, clientVars>> /\ fault' = "stale"
      BY <1>1, <2>2, Zenon DEF open, Oops
    <3>2. QED
      BY <1>i, <1>0, <3>1, NothingRead, Zenon DEF devVars, arrayVars, taskVars, clientVars, NoDriverFault
  <2>3. QED
    BY <1>1, <2>1, <2>2 DEF open
<1>2. CASE close(c)
  <2>1. /\ pc[c] = "user" /\ pc' = [pc EXCEPT ![c] = "closed"]
        /\ UNCHANGED <<call, created, fault, devVars, arrayVars, taskVars, level>>
    BY <1>2, Zenon DEF close
  <2>2. pc'[c] = "closed" /\ \A d \in Client : d # c => pc'[d] = pc[d]
    BY <1>i, <2>1, PcUpdate, Zenon
  <2>3. QED
    BY <1>i, <1>0, <1>a, <1>b, <2>1, <2>2, ClientOnly, Zenon DEF NoDriverFault
<1>3. CASE ioctl_other(c)
  <2>1. /\ pc[c] = "user"
        /\ pc' = [pc EXCEPT ![c] = "user"] /\ call' = [call EXCEPT ![c] = NoCall]
        /\ UNCHANGED <<created, fault, devVars, arrayVars, taskVars, level>>
    BY <1>3 DEF ioctl_other, Return
  <2>2. pc'[c] = "user" /\ \A d \in Client : d # c => pc'[d] = pc[d] /\ call'[d] = call[d]
    BY <1>i, <2>1, PcUpdate, CallUpdated
  <2>3. QED
    BY <1>i, <1>0, <1>a, <1>b, <2>1, <2>2, ClientOnly, Zenon DEF NoDriverFault
<1>4. ASSUME NEW g \in GpioArg, GPIO_SET(c, g[1], g[2])
      PROVE  DisciplinedInv'
  <2>1. /\ pc[c] = "user" /\ \E r : Return(c, r)
        /\ UNCHANGED <<devVars, arrayVars, taskVars, created, fault>>
        /\ level' = level \/ level' = [level EXCEPT ![g[1]] = g[2]]
    BY <1>4, <1>b, Zenon DEF GPIO_SET
  <2>2. pc' = [pc EXCEPT ![c] = "user"] /\ call' = [call EXCEPT ![c] = NoCall]
    BY <2>1, Zenon DEF Return
  <2>3. pc'[c] = "user" /\ \A d \in Client : d # c => pc'[d] = pc[d] /\ call'[d] = call[d]
    BY <1>i, <2>2, PcUpdate, CallUpdated, ZenonT(60)
  <2>4. \A p \in Pin \ {h[1] : h \in GpioArg} : level'[p] = level[p]
    BY <1>i, <1>4, <2>1, Zenon DEF TypeOK
  <2>5. QED
    BY <1>i, <1>0, <1>a, <1>b, <2>1, <2>3, <2>4, ClientOnly, Zenon DEF NoDriverFault
<1>5. ASSUME NEW a \in SetArg, PWM_SET(c, a)
      PROVE  DisciplinedInv'
  <2>1. /\ pc[c] = "user" /\ pc' = [pc EXCEPT ![c] = "scan"]
        /\ call' = [call EXCEPT ![c] = NewCall(a, pwm_pin_count, NULL)]
        /\ UNCHANGED <<created, fault, devVars, arrayVars, taskVars, level>>
    BY <1>5, Zenon DEF PWM_SET, Goto
  <2>2. /\ pc'[c] = "scan" /\ call'[c] = NewCall(a, pwm_pin_count, NULL)
        /\ \A d \in Client : d # c => pc'[d] = pc[d] /\ call'[d] = call[d]
    BY <1>i, <2>1, PcUpdate, CallUpdated, ZenonT(60)
  <2>3. SettingInv(c)'
    <3>1. call'[c].arg = a /\ call'[c].ld = pwm_pin_count
      <4>1. /\ NewCall(a, pwm_pin_count, NULL).arg = a
            /\ NewCall(a, pwm_pin_count, NULL).ld = pwm_pin_count
        BY Zenon DEF NewCall
      <4>2. QED
        BY <2>2, <4>1, Zenon
    <3>2. mod' = "live" /\ pwm_pin_count' = pwm_pin_count /\ pwm_pin_count \in Nat
      BY <1>i, <1>b, <2>1, Zenon DEF devVars, arrayVars, TypeOK
    <3>3. call'[c].ld <= pwm_pin_count'
      BY <3>1, <3>2
    <3>4. QED
      BY <1>5, <2>2, <3>1, <3>2, <3>3, Zenon DEF SettingInv
  <2>4. QED
    BY <1>i, <1>0, <1>a, <1>b, <2>1, <2>2, <2>3, ClientOnly, Zenon DEF NoDriverFault
<1>6. QED
  BY <1>1, <1>2, <1>3, <1>4, <1>5, Zenon DEF user_step

(* PWM_SET's search and its store; reload matters only to the search.      *)
LEMMA SetKeeps ==
  ASSUME Disciplined, DisciplinedInv, NEW c \in Client, fault = "none", set_step(c) \/ reload(c)
  PROVE  DisciplinedInv'
<1>i. /\ TypeOK /\ ThreadInv /\ LifeInv /\ CountInv /\ CallsInv
      /\ NoDriverFault /\ CreatedIsWritable /\ HighOnlyInPulse
  BY Zenon DEF DisciplinedInv
<1>0. TypeOK'
  BY <1>i, TypeIoctl, Zenon
<1>a. "user" \notin InitPc /\ "scan" \notin InitPc /\ "duty" \notin InitPc
  BY Zenon DEF InitPc, FillPc
<1>b. /\ call[c].ld \in Nat /\ call[c].idx \in Nat /\ pwm_pin_count \in Nat
      /\ call[c].arg.duty_cycle \in Int
  BY <1>i, Zenon DEF TypeOK, CallRecord, SlotOf
<1>1. CASE reload(c)
  <2>1. pc[c] = "scan" /\ mod = "live"
    BY <1>i, <1>1, Zenon DEF reload, CallsInv, AddingInv, SettingInv, InitPc
  <2>2. SettingInv(c)'
    BY <1>i, <1>1, <1>b, <2>1 DEF reload, CallsInv, SettingInv, TypeOK, CallRecord, devVars, arrayVars
  <2>3. QED
    BY <1>i, <1>0, <1>1, <1>a, <2>1, <2>2, ClientOnly DEF reload, NoDriverFault, TypeOK
<1>2. CASE set_scan(c)
  <2>1. pc[c] = "scan" /\ SettingInv(c) /\ mod = "live"
    BY <1>i, <1>2, ZenonT(30) DEF set_scan, CallsInv, SettingInv
  <2>2. call[c].idx < call[c].ld => call[c].idx \in Slot
    BY <1>i, <1>b, <2>1 DEF SettingInv, ThreadInv
  <2>3. CASE call[c].idx < call[c].ld
    <3>1. \/ /\ duty_array[call[c].idx].pin = call[c].arg.pin
             /\ pc' = [pc EXCEPT ![c] = "duty"] /\ call' = call
          \/ pc' = pc /\ call' = [call EXCEPT ![c].idx = call[c].idx + 1]
      BY <1>2, <1>b, <2>2, <2>3 DEF set_scan, Goto
    <3>2. UNCHANGED <<devVars, arrayVars, taskVars, level, created, fault>>
      BY <1>2, <1>b, <2>2, <2>3, Zenon DEF set_scan, Goto
    <3>3. SettingInv(c)'
      BY <1>i, <1>b, <2>1, <2>3, <3>1, <3>2 DEF SettingInv, TypeOK, CallRecord, devVars, arrayVars
    <3>4. QED
      BY <1>i, <1>0, <1>a, <2>1, <3>1, <3>2, <3>3, ClientOnly DEF NoDriverFault, TypeOK
  <2>4. CASE ~(call[c].idx < call[c].ld)
    BY <1>i, <1>0, <1>2, <1>a, <2>1, <2>4, ClientOnly DEF set_scan, Return, NoDriverFault, TypeOK
  <2>5. QED
    BY <2>3, <2>4, Zenon
<1>3. CASE set_duty(c)
  <2> DEFINE k == call[c].idx
  <2>1. pc[c] = "duty" /\ SettingInv(c) /\ mod = "live"
    BY <1>i, <1>3, ZenonT(30) DEF set_duty, CallsInv, SettingInv
  <2>2. k \in 0 .. pwm_pin_count - 1 /\ k \in Slot /\ GoodSlot(duty_array[k])
    BY <1>i, <1>b, <2>1 DEF SettingInv, ThreadInv
  <2>3. /\ UNCHANGED <<devVars, pwm_pin_count, pwm_tsk, taskVars, level, created, fault>>
        /\ duty_array' = [duty_array EXCEPT ![k].duty_cycle = call[c].arg.duty_cycle]
        /\ pc' = [pc EXCEPT ![c] = "user"] /\ call' = [call EXCEPT ![c] = NoCall]
    BY <1>3, Zenon DEF set_duty, Return
  <2>4. \A n \in Slot : /\ duty_array'[n].pin = duty_array[n].pin
                        /\ n # k => duty_array'[n] = duty_array[n]
    <3>1. duty_array \in [Slot -> SlotOf(Pin)]
      BY <1>i, Zenon DEF TypeOK
    <3>2. QED
      BY <2>2, <2>3, <3>1, Zenon DEF SlotOf
  <2>5. GoodSlot(duty_array'[k])
    <3>1. PICK a \in InitArg :
            /\ duty_array[k].pin = a.pin /\ duty_array[k].min = a.min
            /\ duty_array[k].max = a.max
      BY <2>2, Zenon DEF GoodSlot
    <3>2. call[c].arg.duty_cycle \in 0 .. a.max - a.min
      BY <2>1, <3>1, Zenon DEF SettingInv, Disciplined
    <3>3. QED
      BY <1>i, <2>2, <2>3, <3>1, <3>2 DEF GoodSlot, TypeOK, SlotOf
  <2>6. \A n \in 0 .. pwm_pin_count - 1 : n \in Slot /\ (GoodSlot(duty_array[n]) => GoodSlot(duty_array'[n]))
    BY <1>i, <2>4, <2>5, ZenonT(30) DEF ThreadInv
  <2>7. ThreadInv' /\ LifeInv' /\ CreatedIsWritable'
    BY <1>i, <1>b, <2>1, <2>3, <2>4, <2>6, ThreadKept, LifeKept, CreatedKept DEF taskVars
  <2>8. HighOnlyInPulse'
    <3>1. \A t \in Tid : st[t] = "high" => pos[t] \in Slot
      BY RunningThread, Zenon
    <3>2. QED
      BY <1>i, <2>3, <2>4, <3>1, HighKept, Zenon DEF taskVars
  <2>9. CountInv' /\ NoDriverFault'
    BY <1>i, <1>a, <2>1, <2>3 DEF CountInv, NoDriverFault, taskVars, TypeOK
  <2>10. CallsInv'
    <3> SUFFICES ASSUME NEW d \in Client, d # c
                 PROVE  /\ pc'[d] \in InitPc => AddingInv(d)'
                        /\ pc'[d] \in {"scan", "duty"} => SettingInv(d)'
      BY <1>i, <1>a, <2>3, Zenon DEF CallsInv, TypeOK
    <3>1. pc'[d] = pc[d] /\ call'[d] = call[d]
      BY <2>3
    <3>2. ASSUME pc[d] \in InitPc PROVE AddingInv(d)'
      <4>1. AddingInv(d) /\ pwm_pin_count \in Slot /\ pwm_pin_count # k
        BY <1>i, <1>b, <2>2, <3>2 DEF CallsInv, AddingInv
      <4>2. duty_array'[pwm_pin_count] = duty_array[pwm_pin_count] /\ mod' = mod
        BY <2>3, <2>4, <4>1, Zenon DEF devVars
      <4>3. QED
        BY <2>3, <3>1, <4>1, <4>2, AddingKept, ZenonT(30) DEF taskVars
    <3>3. pc[d] \in {"scan", "duty"} => SettingInv(d)'
      BY <1>i, <1>b, <2>3, <2>4, <2>6, <3>1, SettingKept DEF CallsInv, devVars
    <3>4. QED
      BY <3>1, <3>2, <3>3, Zenon
  <2>11. QED
    BY <1>0, <2>7, <2>8, <2>9, <2>10, Zenon DEF DisciplinedInv
<1>4. QED
  BY <1>1, <1>2, <1>3 DEF set_step

=============================================================================
