---------------------------- MODULE XenoPwmSafety ----------------------------
(***************************************************************************)
(* Proofs about XenoPwm, for any number of clients, pins and channels:     *)
(* what holds for disciplined users, with the inductive invariant          *)
(* DisciplinedInv, which extends CalmInv; and that xenoPWM then implements  *)
(* PwmService.                                                             *)
(***************************************************************************)
EXTENDS XenoPwmService, XenoPwmProofs

(* More than the prover's default time, for a loaded machine.              *)
USE SMTT(30)

LEMMA GoodTimes ==
  ASSUME Disciplined, NEW s \in SlotOf(Pin), GoodSlot(s)
  PROVE  /\ PWM_RANGE(s) # 0
         /\ xeno_HIGH_TIME(s) \in 0 .. PERIOD /\ xeno_LOW_TIME(s) \in 0 .. PERIOD
<1>1. /\ 0 < s.max - s.min /\ s.max - s.min < IntHalf /\ s.max - s.min \in Int
      /\ s.duty_cycle \in 0 .. s.max - s.min
  BY DEF Disciplined, GoodSlot, InitialDuty, SlotOf
<1>2. PWM_RANGE(s) = s.max - s.min
  BY <1>1, WrapFits, TimingAssumption DEF PWM_RANGE, TimingAssumption
<1>3. QED
  BY <1>1, <1>2, XenoTimes

(* Only one client is inside PWM_INIT.                                     *)
LEMMA OneCreator ==
  ASSUME Disciplined, DisciplinedInv, NEW c \in Client, NEW d \in Client,
         pc[c] \in InitPc, pc[d] \in InitPc \/ d \in Creator
  PROVE  c = d
  BY Zenon DEF Disciplined, DisciplinedInv, AddingInv

LEMMA DisciplinedInit == ASSUME Disciplined, Init PROVE DisciplinedInv
<1>1. CalmInv
  BY AnyInit, Zenon DEF AnyInv, CalmInv, Init
<1>2. NoDriverFault /\ HighOnlyInPulse /\ SleepsBounded
  BY DEF Init, NoDriverFault, HighOnlyInPulse, SleepsBounded
<1>3. QED
  BY <1>1, <1>2, Zenon DEF Init, DisciplinedInv, InitPc, FillPc

LEMMA ModuleKeeps ==
  ASSUME Disciplined, DisciplinedInv, CalmInv', module_step, fault = "none"
  PROVE  DisciplinedInv'
<1>0. CalmInv /\ CalmInv'
  BY Zenon DEF DisciplinedInv
<1>1. UNCHANGED <<arrayVars, st, nap, level, clientVars>>
  BY Zenon DEF module_step, xeno_pwm_init, xeno_pwm_exit, exit_destroy, exit_join, exit_unmap,
     exit_unregister, Oops, taskVars
<1>2. UNCHANGED <<pwm_pin_count, duty_array, pc, call>>
  BY <1>1 DEF arrayVars, clientVars
<1>3. mod' \in {"live", "going", "waiting"} => {"gpio", "duty_array"} \subseteq held'
  BY Zenon DEF module_step, xeno_pwm_init, xeno_pwm_exit, exit_destroy, exit_join, exit_unmap,
     exit_unregister, Oops, devVars, Disciplined, DisciplinedInv, Resource
<1>4. fault' \in {"none", "unreg"}
  <2>1. mod = "going" /\ i < pwm_pin_count => i \in Slot /\ st[i] # "none"
    <3>1. i \in Nat /\ pwm_pin_count \in Nat /\ pwm_pin_count <= MAX_PWM_NUM /\ MAX_PWM_NUM \in Nat
      BY <1>0, XenoAssumption, Zenon DEF CalmInv, TypeOK, CountInv, XenoAssumption
    <3>2. i < pwm_pin_count => i \in Slot
      BY <3>1 DEF Slot
    <3>3. QED
      BY <1>0, <3>2, Zenon DEF CalmInv, CountInv
  <2>2. QED
    BY <2>1, Zenon DEF module_step, xeno_pwm_init, xeno_pwm_exit, exit_destroy, exit_join, exit_unmap,
       exit_unregister, Oops
<1>5. NoDriverFault' /\ HighOnlyInPulse' /\ SleepsBounded'
  BY <1>0, <1>1, <1>2, <1>4, Zenon
     DEF DisciplinedInv, CalmInv, CountInv, NoDriverFault, HighOnlyInPulse, SleepsBounded
<1>6. QED
  BY <1>1, <1>2, <1>3, <1>5 DEF DisciplinedInv, AddingInv, SettingInv, GoodSlot

(* A task runs only while the registers are mapped.                        *)
LEMMA RunningWhenMapped ==
  ASSUME DisciplinedInv, NEW k \in Slot, st[k] \in {"loop", "set", "high"}
  PROVE  mod \in {"live", "going", "waiting"}
<1>1. TypeOK /\ CountInv /\ LifeInv
  BY Zenon DEF DisciplinedInv, CalmInv
<1>2. mod \in {"out", "unmapped", "gone"} => \A c \in Client : ~Starting(c)
  BY <1>1, Zenon DEF LifeInv, Starting
<1>3. k \in Nat /\ pwm_pin_count \in Nat
  BY <1>1 DEF TypeOK, Slot
<1>4. QED
  BY <1>1, <1>2, <1>3 DEF TypeOK, CountInv, LifeInv

(* A running task has its registers, and an entry in range.                *)
LEMMA TaskEntry ==
  ASSUME Disciplined, DisciplinedInv, NEW k \in Slot, st[k] \in {"loop", "set", "high"}
  PROVE  /\ "gpio" \in held /\ duty_array[k] \in SlotOf(Pin) /\ PWM_RANGE(duty_array[k]) # 0
         /\ xeno_HIGH_TIME(duty_array[k]) \in 0 .. PERIOD
         /\ xeno_LOW_TIME(duty_array[k]) \in 0 .. PERIOD
<1>1. CalmInv /\ GoodSlot(duty_array[k])
  BY Zenon DEF DisciplinedInv
<1>2. duty_array[k] \in SlotOf(Pin)
  BY <1>1, Zenon DEF CalmInv, TypeOK
<1>3. mod \in {"live", "going", "waiting"}
  BY RunningWhenMapped, Zenon
<1>4. QED
  BY <1>1, <1>2, <1>3, GoodTimes, Zenon DEF DisciplinedInv

(* The effect of a task's step, which never faults.                        *)
LEMMA TaskEffect ==
  ASSUME Disciplined, DisciplinedInv, NEW k \in Slot, task_step(k)
  PROVE  /\ UNCHANGED <<devVars, arrayVars, clientVars, fault>>
         /\ \/ /\ st[k] = "loop" /\ level' = level /\ nap' = nap
               /\ st' = [st EXCEPT ![k] = IF stop[k] THEN "exited" ELSE "set"]
            \/ /\ st[k] = "set" /\ st' = [st EXCEPT ![k] = "high"]
               /\ level' = [level EXCEPT ![duty_array[k].pin] = 1]
               /\ nap' = [nap EXCEPT ![k] = xeno_HIGH_TIME(duty_array[k])]
            \/ /\ st[k] = "high" /\ st' = [st EXCEPT ![k] = "loop"]
               /\ level' = [level EXCEPT ![duty_array[k].pin] = 0]
               /\ nap' = [nap EXCEPT ![k] = xeno_LOW_TIME(duty_array[k])]
<1>1. st[k] \in {"loop", "set", "high"}
  BY Zenon DEF task_step, task_loop, task_set, task_clr
<1>2. "gpio" \in held /\ PWM_RANGE(duty_array[k]) # 0
  BY <1>1, TaskEntry, Zenon
<1>3. QED
  BY <1>2, Zenon DEF task_step, task_loop, task_set, task_clr, Half

LEMMA TaskKeeps ==
  ASSUME Disciplined, DisciplinedInv, NEW k \in Slot, task_step(k)
  PROVE  DisciplinedInv'
<1> DEFINE s == duty_array[k]
<1>0. CalmInv /\ HighOnlyInPulse /\ SleepsBounded
  BY Zenon DEF DisciplinedInv
<1>1. /\ CalmInv' /\ UNCHANGED <<devVars, arrayVars, stop, lost, clientVars>>
      /\ st[k] \in {"loop", "set", "high"}
  <2>1. AnyInv /\ ~raced
    BY <1>0, Zenon DEF AnyInv, CalmInv, CountInv
  <2>2. /\ AnyInv' /\ UNCHANGED <<devVars, arrayVars, stop, lost, raced, clientVars>>
        /\ st[k] \in {"loop", "set", "high"}
    BY <2>1, TaskStep, Zenon
  <2>3. QED
    BY <2>1, <2>2, Zenon DEF AnyInv, CalmInv
<1>2. UNCHANGED <<mod, held, pwm_pin_count, duty_array, pc, call>>
  BY <1>1, Zenon DEF devVars, arrayVars, clientVars
<1>3. /\ "gpio" \in held /\ s \in SlotOf(Pin) /\ PWM_RANGE(s) # 0
      /\ xeno_HIGH_TIME(s) \in 0 .. PERIOD /\ xeno_LOW_TIME(s) \in 0 .. PERIOD
  BY <1>1, TaskEntry, Zenon
<1>4. /\ fault' = fault
      /\ \/ /\ st[k] = "loop" /\ level' = level /\ nap' = nap
            /\ st' = [st EXCEPT ![k] = IF stop[k] THEN "exited" ELSE "set"]
         \/ /\ st[k] = "set" /\ st' = [st EXCEPT ![k] = "high"]
            /\ level' = [level EXCEPT ![s.pin] = 1]
            /\ nap' = [nap EXCEPT ![k] = xeno_HIGH_TIME(s)]
         \/ /\ st[k] = "high" /\ st' = [st EXCEPT ![k] = "loop"]
            /\ level' = [level EXCEPT ![s.pin] = 0]
            /\ nap' = [nap EXCEPT ![k] = xeno_LOW_TIME(s)]
  BY TaskEffect, Zenon
<1>5. /\ level \in [Pin -> {0, 1}] /\ nap \in [Slot -> Int]
      /\ st \in [Slot -> {"none", "loop", "set", "high", "exited"}] /\ s.pin \in Pin
  BY <1>0, <1>3, Zenon DEF CalmInv, TypeOK, SlotOf
<1>6. SleepsBounded'
  <2>1. \A j \in Slot : nap'[j] = nap[j] \/ nap'[j] \in 0 .. PERIOD
    BY <1>3, <1>4, <1>5, Zenon
  <2>2. QED
    BY <1>0, <2>1, Zenon DEF SleepsBounded
<1>7. HighOnlyInPulse'
  <2>1. \A j \in Slot : j # k => st'[j] = st[j]
    BY <1>4, <1>5, Zenon
  <2>2. st'[k] = "high" \/ level'[s.pin] = 0 \/ st[k] = "loop"
    BY <1>4, <1>5
  <2>3. \A p \in Pin : p # s.pin => level'[p] = level[p]
    BY <1>4, <1>5, Zenon
  <2>4. st[k] = "loop" => level' = level
    BY <1>4, Zenon
  <2>5. QED
    BY <1>0, <1>2, <2>1, <2>2, <2>3, <2>4 DEF HighOnlyInPulse
<1>8. \A j \in Slot : st'[j] # "none" => st[j] # "none"
  BY <1>1, <1>4, <1>5, Zenon
<1>9. NoDriverFault'
  BY <1>1, <1>4, Zenon DEF DisciplinedInv, NoDriverFault
<1>10. QED
  BY <1>1, <1>2, <1>6, <1>7, <1>8, <1>9, Zenon DEF DisciplinedInv, AddingInv, SettingInv, GoodSlot

(* What a step of client c must show: its own call is in order, the counted *)
(* entries keep their pins, the entry another call fills is left alone, and *)
(* no task's pulse or pin is disturbed.                                     *)
LEMMA ClientKeeps ==
  ASSUME Disciplined, DisciplinedInv, CalmInv', NEW c \in Client,
         \A d \in Client : d # c => pc'[d] = pc[d] /\ call'[d] = call[d],
         UNCHANGED <<mod, held, fault>>, \A k \in Slot : nap'[k] \in {nap[k], NoNap},
         pc'[c] \in InitPc => AddingInv(c)',
         pc'[c] \in {"scan", "duty"} => SettingInv(c)',
         pwm_pin_count <= pwm_pin_count',
         \A k \in Slot : k < pwm_pin_count => duty_array'[k].pin = duty_array[k].pin,
         pc[c] \in InitPc \/ /\ pwm_pin_count' = pwm_pin_count
                             /\ duty_array'[pwm_pin_count] = duty_array[pwm_pin_count],
         \A k \in Slot : st'[k] # "none" => GoodSlot(duty_array'[k]),
         \A k \in Slot : st[k] = "high" => st'[k] = "high" /\ duty_array'[k].pin = duty_array[k].pin,
         \A p \in Pin \ {g[1] : g \in GpioArg} : level'[p] = level[p]
  PROVE  DisciplinedInv'
<1>1. ASSUME NEW d \in Client, pc'[d] \in InitPc
      PROVE  AddingInv(d)'
  <2>1. CASE d # c
    <3>1. pc[d] \in InitPc /\ AddingInv(d)
      BY <1>1, <2>1, Zenon DEF DisciplinedInv
    <3>2. pc[c] \notin InitPc
      BY <2>1, <3>1, OneCreator, Zenon
    <3>3. /\ pwm_pin_count' = pwm_pin_count /\ pc'[d] = pc[d] /\ call'[d] = call[d]
          /\ duty_array'[pwm_pin_count] = duty_array[pwm_pin_count]
      BY <2>1, <3>2, Zenon
    <3>4. QED
      BY <3>1, <3>3, Zenon DEF AddingInv
  <2>2. QED
    BY <1>1, <2>1, Zenon
<1>2. ASSUME NEW d \in Client, pc'[d] \in {"scan", "duty"}
      PROVE  SettingInv(d)'
  <2>1. CASE d # c
    <3>1. SettingInv(d) /\ pc'[d] = pc[d] /\ call'[d] = call[d]
      BY <1>2, <2>1, Zenon DEF DisciplinedInv
    <3>2. /\ pwm_pin_count \in Nat /\ pwm_pin_count' \in Nat /\ call[d].idx \in Nat
          /\ pwm_pin_count <= MAX_PWM_NUM /\ MAX_PWM_NUM \in Nat
      <4>1. TypeOK /\ CountInv /\ pwm_pin_count' \in Nat
        BY Zenon DEF DisciplinedInv, CalmInv, TypeOK
      <4>2. QED
        BY <4>1, XenoAssumption, Zenon DEF TypeOK, CallRecord, CountInv, XenoAssumption
    <3>3. \A k \in 0 .. pwm_pin_count - 1 : k \in Slot /\ duty_array'[k].pin = duty_array[k].pin
      BY <3>2 DEF Slot
    <3>4. QED
      BY <3>1, <3>2, <3>3 DEF SettingInv, Slot
  <2>2. QED
    BY <1>2, <2>1, Zenon
<1>3. HighOnlyInPulse'
  BY DEF DisciplinedInv, HighOnlyInPulse
<1>4. NoDriverFault' /\ SleepsBounded'
  <2>1. lost' = {}
    BY Zenon DEF CalmInv, CountInv
  <2>2. QED
    BY <2>1, Zenon DEF DisciplinedInv, NoDriverFault, SleepsBounded
<1>5. QED
  BY <1>1, <1>2, <1>3, <1>4, Zenon DEF DisciplinedInv

(* The steps that leave arrays and tasks alone.                            *)
LEMMA QuietClient ==
  ASSUME Disciplined, DisciplinedInv, CalmInv', NEW c \in Client,
         \A d \in Client : d # c => pc'[d] = pc[d] /\ call'[d] = call[d],
         UNCHANGED <<fault, devVars, arrayVars, taskVars>>,
         pc'[c] \in InitPc => AddingInv(c)',
         pc'[c] \in {"scan", "duty"} => SettingInv(c)',
         \A p \in Pin \ {g[1] : g \in GpioArg} : level'[p] = level[p]
  PROVE  DisciplinedInv'
<1>1. UNCHANGED <<mod, held, nap, fault, pwm_pin_count, duty_array, st>>
  BY Zenon DEF devVars, arrayVars, taskVars
<1>2. pwm_pin_count <= pwm_pin_count'
  BY <1>1 DEF DisciplinedInv, CalmInv, TypeOK
<1>3. \A k \in Slot : st'[k] # "none" => GoodSlot(duty_array'[k])
  BY <1>1, Zenon DEF DisciplinedInv
<1>4. QED
  BY <1>1, <1>2, <1>3, ClientKeeps, Zenon

(* A call that returns without a change to arrays and tasks.               *)
LEMMA QuietReturn ==
  ASSUME Disciplined, DisciplinedInv, CalmInv', NEW c \in Client, NEW v, Return(c, v),
         UNCHANGED <<fault, devVars, arrayVars, taskVars>>,
         \A p \in Pin \ {g[1] : g \in GpioArg} : level'[p] = level[p]
  PROVE  DisciplinedInv'
<1>1. TypeOK
  BY Zenon DEF DisciplinedInv, CalmInv
<1>2. pc'[c] = "user" /\ \A d \in Client : d # c => pc'[d] = pc[d] /\ call'[d] = call[d]
  BY <1>1, ClientMoves, Zenon DEF Return
<1>3. "user" \notin InitPc
  BY Zenon DEF InitPc, FillPc
<1>4. QED
  BY <1>2, <1>3, QuietClient, Zenon

LEMMA UserKeeps ==
  ASSUME Disciplined, DisciplinedInv, CalmInv', NEW c \in Client, user_step(c)
  PROVE  DisciplinedInv'
<1>a. TypeOK /\ pwm_pin_count \in Nat
  BY Zenon DEF DisciplinedInv, CalmInv, TypeOK
<1>b. "user" \notin InitPc /\ "closed" \notin InitPc /\ "scan" \notin InitPc
  BY Zenon DEF InitPc, FillPc
<1>c. pc[c] \notin {"closed"} => {"gpio", "duty_array"} \subseteq held
  BY Zenon DEF DisciplinedInv, CalmInv, LifeInv
<1>1. CASE open(c) \/ close(c)
  <2>1. /\ pc'[c] \in {"user", "closed"} /\ call' = call /\ level' = level
        /\ \A d \in Client : d # c => pc'[d] = pc[d]
        /\ UNCHANGED <<fault, devVars, arrayVars, taskVars>>
    BY <1>1, <1>a DEF open, close, Goto, TypeOK
  <2>2. QED
    BY <1>b, <2>1, QuietClient, Zenon
<1>2. CASE ioctl_other(c)
  BY <1>2, QuietReturn, Zenon DEF ioctl_other
<1>3. ASSUME NEW g \in GpioArg, GPIO_SET(c, g[1], g[2])
      PROVE  DisciplinedInv'
  <2>2. \A p \in Pin \ {h[1] : h \in GpioArg} : level'[p] = level[p]
    BY <1>3, <1>a, <1>c DEF GPIO_SET, TypeOK
  <2>3. \E v \in {"done", "warned"} : Return(c, v) /\ UNCHANGED <<fault, devVars, arrayVars, taskVars>>
    BY <1>3, <1>c, Zenon DEF GPIO_SET
  <2>4. QED
    BY <2>2, <2>3, QuietReturn
<1>4. ASSUME NEW a \in SetArg, PWM_SET(c, a)
      PROVE  DisciplinedInv'
  <2>1. /\ pc'[c] = "scan" /\ call'[c] = NewCall(a, pwm_pin_count)
        /\ \A d \in Client : d # c => pc'[d] = pc[d] /\ call'[d] = call[d]
    BY <1>4, <1>a, ClientMoves, Zenon DEF PWM_SET, Goto
  <2>2. UNCHANGED <<fault, devVars, arrayVars, taskVars, level, pwm_pin_count>>
    BY <1>4, Zenon DEF PWM_SET, arrayVars
  <2>3. call'[c].arg = a /\ call'[c].idx = 0
    BY <2>1 DEF NewCall
  <2>4. SettingInv(c)'
    BY <1>a, <2>1, <2>2, <2>3 DEF SettingInv, Slot
  <2>5. QED
    BY <1>b, <2>1, <2>2, <2>4, QuietClient, Zenon
<1>5. ASSUME NEW a \in InitArg, c \in Creator, PWM_INIT(c, a)
      PROVE  DisciplinedInv'
  <2>0. raced' = raced
    BY Zenon DEF DisciplinedInv, CalmInv, CountInv, TypeOK
  <2>1. /\ pc'[c] = "fill_pin" /\ call'[c] = NewCall(a, pwm_pin_count)
        /\ \A d \in Client : d # c => pc'[d] = pc[d] /\ call'[d] = call[d]
    BY <1>5, <1>a, ClientMoves, Zenon DEF PWM_INIT, Goto
  <2>2. UNCHANGED <<fault, devVars, arrayVars, taskVars, level, pwm_pin_count>>
    BY <1>5, <2>0, Zenon DEF PWM_INIT, arrayVars, taskVars
  <2>3. call'[c].arg = a /\ call'[c].ld = pwm_pin_count
    BY <2>1 DEF NewCall
  <2>4. pwm_pin_count \in Slot
    BY <1>5, <1>a, XenoAssumption DEF PWM_INIT, Disciplined, Slot, XenoAssumption
  <2>5. AddingInv(c)'
    BY <1>5, <2>1, <2>2, <2>3, <2>4, Zenon DEF AddingInv
  <2>6. QED
    BY <2>1, <2>2, <2>5, QuietClient, Zenon
<1>6. QED
  BY <1>1, <1>2, <1>3, <1>4, <1>5, Zenon DEF user_step

(* The entry PWM_INIT fills is at the count and no task's until it starts. *)
LEMMA Adding ==
  ASSUME Disciplined, DisciplinedInv, NEW c \in Client, pc[c] \in InitPc
  PROVE  /\ TypeOK /\ AddingInv(c) /\ "duty_array" \in held
         /\ pwm_pin_count \in Nat /\ pwm_pin_count \in Slot
         /\ call[c].ld = pwm_pin_count /\ call[c].arg \in InitArg
         /\ duty_array \in [Slot -> SlotOf(Pin)] /\ duty_array[pwm_pin_count] \in SlotOf(Pin)
         /\ ~Starting(c) => st[pwm_pin_count] = "none"
<1>1. TypeOK /\ CountInv /\ AddingInv(c) /\ "duty_array" \in held
  BY DEF DisciplinedInv, CalmInv, LifeInv, InitPc, FillPc
<1>2. \A d \in Client : Starting(d) => d = c
  <2>1. \A d \in Client : Starting(d) => pc[d] \in InitPc
    BY Zenon DEF Starting, InitPc
  <2>2. QED
    BY <2>1, OneCreator, Zenon
<1>3. pwm_pin_count \in Nat /\ pwm_pin_count \in Slot
  BY <1>1, Zenon DEF TypeOK, AddingInv
<1>4. ~Starting(c) => st[pwm_pin_count] = "none"
  BY <1>1, <1>2, <1>3 DEF CountInv
<1>5. QED
  BY <1>1, <1>3, <1>4, Zenon DEF TypeOK, AddingInv

(* A store of PWM_INIT makes its entry one field more like the argument.   *)
LEMMA StoreKeeps ==
  ASSUME NEW c \in Client, AddingInv(c), pc[c] \in FillPc, UNCHANGED <<call, pwm_pin_count>>,
         duty_array[pwm_pin_count] \in SlotOf(Pin), pc'[c] = AfterFill(pc[c]),
         duty_array'[pwm_pin_count] = Stored(duty_array[pwm_pin_count], call[c].arg, pc[c])
  PROVE  AddingInv(c)'
<1>1. c \in Creator
  BY Zenon DEF AddingInv
<1>2. CASE pc[c] = "fill_pin"
  BY <1>1, <1>2, Zenon DEF AddingInv, AfterFill, Stored, SlotOf
<1>3. CASE pc[c] = "fill_min"
  BY <1>1, <1>3, Zenon DEF AddingInv, AfterFill, Stored, SlotOf
<1>4. CASE pc[c] = "fill_max"
  BY <1>1, <1>4 DEF AddingInv, AfterFill, Stored, SlotOf
<1>5. CASE pc[c] = "fill_duty"
  BY <1>1, <1>5 DEF AddingInv, AfterFill, Stored, SlotOf
<1>6. QED
  BY <1>2, <1>3, <1>4, <1>5, Zenon DEF FillPc

LEMMA FillKeeps ==
  ASSUME Disciplined, DisciplinedInv, CalmInv', NEW c \in Client, pc[c] \in InitPc, init_fill(c)
  PROVE  DisciplinedInv'
<1> DEFINE n == pwm_pin_count
<1>1. /\ TypeOK /\ n \in Nat /\ n \in Slot /\ duty_array \in [Slot -> SlotOf(Pin)]
      /\ AddingInv(c) /\ duty_array[n] \in SlotOf(Pin)
  BY Adding, Zenon
<1>2. /\ duty_array' = [duty_array EXCEPT ![n] = Stored(duty_array[n], call[c].arg, pc[c])]
      /\ pc' = [pc EXCEPT ![c] = AfterFill(pc[c])] /\ call' = call /\ pc[c] \in FillPc
      /\ UNCHANGED <<pwm_pin_count, fault, devVars, taskVars, level>>
  BY Adding, Zenon DEF init_fill, Goto
<1>3. /\ duty_array'[n] = Stored(duty_array[n], call[c].arg, pc[c])
      /\ \A k \in Slot : k # n => duty_array'[k] = duty_array[k]
  BY <1>1, <1>2, Zenon
<1>4. pc'[c] = AfterFill(pc[c]) /\ \A d \in Client : d # c => pc'[d] = pc[d]
  BY <1>1, <1>2, Zenon DEF TypeOK
<1>5. AddingInv(c)'
  BY <1>1, <1>2, <1>3, <1>4, StoreKeeps, Zenon
<1>6. st[n] = "none"
  BY <1>2, Adding, Zenon DEF Starting, FillPc
<1>7. UNCHANGED <<mod, held, nap, fault, st, level, pwm_pin_count>>
  BY <1>2, Zenon DEF devVars, taskVars
<1>8. AfterFill(pc[c]) \notin {"scan", "duty"}
  BY <1>2, Zenon DEF AfterFill, FillPc
<1>9. /\ \A k \in Slot : k < n => duty_array'[k].pin = duty_array[k].pin
      /\ \A k \in Slot : st[k] # "none" => duty_array'[k] = duty_array[k]
  <2> ~(n < n)
    BY <1>1
  <2>1. \A k \in Slot : k < n => duty_array'[k] = duty_array[k]
    BY <1>3, Zenon
  <2>2. \A k \in Slot : st[k] # "none" => duty_array'[k] = duty_array[k]
    BY <1>3, <1>6, Zenon
  <2>3. QED
    BY <2>1, <2>2, Zenon
<1>10. \A k \in Slot : st'[k] # "none" => GoodSlot(duty_array'[k])
  <2>1. \A k \in Slot : st[k] # "none" => GoodSlot(duty_array[k])
    BY Zenon DEF DisciplinedInv
  <2>2. QED
    BY <1>7, <1>9, <2>1, Zenon
<1>11. \A k \in Slot : st[k] = "high" => st'[k] = "high" /\ duty_array'[k].pin = duty_array[k].pin
  BY <1>7, <1>9, Zenon
<1>12. n <= n'
  BY <1>1, <1>7
<1>13. QED
  BY <1>2, <1>4, <1>5, <1>7, <1>8, <1>9, <1>10, <1>11, <1>12, ClientKeeps, Zenon

LEMMA StartKeeps ==
  ASSUME Disciplined, DisciplinedInv, CalmInv', NEW c \in Client, pc[c] \in InitPc, init_task(c)
  PROVE  DisciplinedInv'
<1> DEFINE n == pwm_pin_count
<1>1. /\ TypeOK /\ n \in Nat /\ n \in Slot /\ call[c].ld = n /\ AddingInv(c)
      /\ pc[c] = "task" /\ st[n] = "none" /\ call[c].arg \in InitArg
  BY Adding, Zenon DEF init_task, Starting
<1>2. CASE Return(c, "error") /\ UNCHANGED <<fault, devVars, arrayVars, taskVars, level>>
  BY <1>2, QuietReturn, Zenon
<1>3. CASE /\ st' = [st EXCEPT ![n] = "loop"] /\ pc' = [pc EXCEPT ![c] = "load"] /\ call' = call
           /\ nap' = [nap EXCEPT ![n] = NoNap] /\ UNCHANGED <<fault, devVars, arrayVars, level>>
  <2>0. \A k \in Slot : nap'[k] \in {nap[k], NoNap}
    BY <1>1, <1>3, Zenon DEF TypeOK
  <2>1. pc'[c] = "load" /\ \A d \in Client : d # c => pc'[d] = pc[d]
    BY <1>1, <1>3, Zenon DEF TypeOK
  <2>2. UNCHANGED <<mod, held, pwm_pin_count, duty_array>>
    BY <1>3, Zenon DEF devVars, arrayVars
  <2>3. AddingInv(c)'
    BY <1>1, <1>3, <2>1, <2>2, Zenon DEF AddingInv
  <2>4. GoodSlot(duty_array[n])
    <3>1. /\ duty_array[n].pin = call[c].arg.pin /\ duty_array[n].min = call[c].arg.min
          /\ duty_array[n].max = call[c].arg.max /\ duty_array[n].duty_cycle = InitialDuty
      BY <1>1, Zenon DEF AddingInv
    <3>2. /\ InitialDuty <= call[c].arg.max - call[c].arg.min
          /\ call[c].arg.max - call[c].arg.min \in Int
      BY <1>1, XenoAssumption DEF Disciplined, XenoAssumption, SlotOf
    <3>3. QED
      BY <1>1, <3>1, <3>2 DEF GoodSlot, InitialDuty
  <2>5. \A k \in Slot : k # n => st'[k] = st[k]
    BY <1>1, <1>3, Zenon DEF TypeOK
  <2>6. \A k \in Slot : st'[k] # "none" => GoodSlot(duty_array'[k])
    <3>1. \A k \in Slot : st[k] # "none" => GoodSlot(duty_array[k])
      BY Zenon DEF DisciplinedInv
    <3>2. QED
      BY <2>2, <2>4, <2>5, <3>1, Zenon
  <2>7. \A k \in Slot : st[k] = "high" => st'[k] = "high"
    BY <1>1, <2>5, Zenon
  <2>8. n <= n'
    BY <1>1, <2>2
  <2>9. QED
    BY <1>3, <2>0, <2>1, <2>2, <2>3, <2>6, <2>7, <2>8, ClientKeeps, Zenon
<1>4. QED
  BY <1>1, <1>2, <1>3, Zenon DEF init_task, Enter, Goto

LEMMA InitKeeps ==
  ASSUME Disciplined, DisciplinedInv, CalmInv', NEW c \in Client, pc[c] \in InitPc,
         init_fill(c) \/ init_print(c) \/ init_task(c) \/ init_load(c) \/ init_incr(c) \/ reload(c)
  PROVE  DisciplinedInv'
<1> DEFINE n == pwm_pin_count
<1>1. TypeOK /\ AddingInv(c) /\ n \in Nat /\ n \in Slot /\ call[c].ld = n
  BY Adding, Zenon
<1>2. ASSUME NEW l \in {"task", "incr"},
             l = "task" => pc[c] = "print", l = "incr" => pc[c] = "load",
             pc' = [pc EXCEPT ![c] = l], call' = [call EXCEPT ![c].ld = n],
             UNCHANGED <<fault, devVars, arrayVars, taskVars, level>>
      PROVE  DisciplinedInv'
  <2>1. /\ pc'[c] = l /\ call'[c] = [call[c] EXCEPT !.ld = n]
        /\ \A d \in Client : d # c => pc'[d] = pc[d] /\ call'[d] = call[d]
    BY <1>1, <1>2, ClientMoves, Zenon
  <2>2. call'[c].arg = call[c].arg /\ call'[c].ld = n
    BY <1>1, <2>1, Zenon DEF TypeOK, CallRecord
  <2>3. UNCHANGED <<pwm_pin_count, duty_array>>
    BY <1>2, Zenon DEF arrayVars
  <2>4. AddingInv(c)'
    BY <1>1, <1>2, <2>1, <2>2, <2>3, Zenon DEF AddingInv
  <2>5. QED
    BY <1>2, <2>1, <2>4, QuietClient, Zenon
<1>3. CASE init_print(c)
  BY <1>1, <1>2, <1>3, Zenon DEF init_print, Goto
<1>4. CASE init_load(c)
  BY <1>2, <1>4, Zenon DEF init_load, Goto
<1>5. CASE init_incr(c)
  <2>1. /\ pc'[c] = "user" /\ n' = n + 1
        /\ \A d \in Client : d # c => pc'[d] = pc[d] /\ call'[d] = call[d]
        /\ UNCHANGED <<duty_array, fault, devVars, taskVars, level>>
    BY <1>1, <1>5, ClientMoves, Zenon DEF init_incr, Return
  <2>2. UNCHANGED <<mod, held, nap, st>> /\ n <= n' /\ "user" \notin InitPc
    BY <1>1, <2>1 DEF devVars, taskVars, InitPc, FillPc
  <2>3. \A k \in Slot : st'[k] # "none" => GoodSlot(duty_array'[k])
    <3>1. \A k \in Slot : st[k] # "none" => GoodSlot(duty_array[k])
      BY Zenon DEF DisciplinedInv
    <3>2. QED
      BY <2>1, <2>2, <3>1, Zenon
  <2>4. QED
    BY <2>1, <2>2, <2>3, ClientKeeps, Zenon
<1>6. QED
  BY <1>1, <1>3, <1>4, <1>5, FillKeeps, StartKeeps, Zenon DEF reload

LEMMA SetKeeps ==
  ASSUME Disciplined, DisciplinedInv, CalmInv', NEW c \in Client, pc[c] \in {"scan", "duty"},
         set_scan(c) \/ set_duty(c) \/ reload(c)
  PROVE  DisciplinedInv'
<1> DEFINE n == pwm_pin_count
           k == call[c].idx
           a == call[c].arg
<1>a. TypeOK /\ CountInv /\ SettingInv(c) /\ call[c] \in CallRecord
  BY Zenon DEF DisciplinedInv, CalmInv, TypeOK
<1>b. /\ n \in Nat /\ k \in Nat /\ call[c].ld \in Nat /\ call[c].ld <= n /\ n <= MAX_PWM_NUM
      /\ MAX_PWM_NUM \in Nat /\ duty_array \in [Slot -> SlotOf(Pin)]
      /\ a \in SetArg /\ a \in SlotOf(Pin)
  BY <1>a, XenoAssumption, Zenon DEF TypeOK, CallRecord, CountInv, SettingInv, XenoAssumption
<1>c. "scan" \notin InitPc /\ "duty" \notin InitPc /\ "user" \notin InitPc
  BY Zenon DEF InitPc, FillPc
<1>1. ASSUME NEW r \in CallRecord, NEW l \in {"scan", "duty"}, call' = [call EXCEPT ![c] = r],
             pc' = [pc EXCEPT ![c] = l], r.arg = a, r.idx <= n,
             \A j \in Slot : j < r.idx => duty_array[j].pin # a.pin,
             l = "duty" => r.idx < n /\ duty_array[r.idx].pin = a.pin,
             UNCHANGED <<fault, devVars, arrayVars, taskVars, level>>
      PROVE  DisciplinedInv'
  <2>1. /\ pc'[c] = l /\ call'[c] = r
        /\ \A d \in Client : d # c => pc'[d] = pc[d] /\ call'[d] = call[d]
    BY <1>1, <1>a, ClientMoves, Zenon
  <2>2. UNCHANGED <<pwm_pin_count, duty_array>>
    BY <1>1, Zenon DEF arrayVars
  <2>3. SettingInv(c)'
    BY <1>1, <1>b, <2>1, <2>2, Zenon DEF SettingInv
  <2>4. QED
    BY <1>1, <1>c, <2>1, <2>3, QuietClient
<1>2. call = [call EXCEPT ![c] = call[c]] /\ pc = [pc EXCEPT ![c] = pc[c]]
  BY <1>a, Zenon DEF TypeOK
<1>3. CASE reload(c)
  <2> DEFINE r == [call[c] EXCEPT !.ld = n]
  <2>1. r \in CallRecord /\ r.arg = a /\ r.idx = k
    BY <1>a, <1>b, Zenon DEF CallRecord
  <2>2. call' = [call EXCEPT ![c] = r]
    BY <1>3, Zenon DEF reload
  <2> HIDE DEF r
  <2>3. pc' = [pc EXCEPT ![c] = pc[c]] /\ UNCHANGED <<fault, devVars, arrayVars, taskVars, level>>
    BY <1>2, <1>3, Zenon DEF reload
  <2>4. QED
    BY <1>1, <1>a, <2>1, <2>2, <2>3, Zenon DEF SettingInv
<1>4. CASE set_scan(c)
  <2>a. k < call[c].ld => k \in Slot
    BY <1>b DEF Slot
  <2>0. UNCHANGED <<fault, devVars, arrayVars, taskVars, level>>
    BY <1>4, <2>a, Zenon DEF set_scan
  <2>1. CASE Return(c, "warned")
    BY <2>0, <2>1, QuietReturn, Zenon
  <2>2. CASE k < call[c].ld /\ duty_array[k].pin = a.pin /\ pc' = [pc EXCEPT ![c] = "duty"] /\ call' = call
    <3>1. k < n /\ call' = [call EXCEPT ![c] = call[c]]
      BY <1>2, <1>b, <2>2
    <3>2. QED
      BY <1>1, <1>a, <2>0, <2>2, <3>1, Zenon DEF SettingInv
  <2>3. CASE k < call[c].ld /\ duty_array[k].pin # a.pin /\ pc' = pc
             /\ call' = [call EXCEPT ![c] = [call[c] EXCEPT !.idx = k + 1]]
    <3> DEFINE r == [call[c] EXCEPT !.idx = k + 1]
    <3>1. r \in CallRecord /\ r.arg = a /\ r.idx = k + 1
      BY <1>a, <1>b DEF CallRecord
    <3>2. call' = [call EXCEPT ![c] = r]
      BY <2>3, Zenon
    <3> HIDE DEF r
    <3>3. k + 1 <= n
      BY <1>b, <2>3
    <3>4. \A j \in Slot : j < k + 1 => duty_array[j].pin # a.pin
      BY <1>a, <1>b, <2>3 DEF SettingInv, Slot
    <3>5. pc[c] = "scan" /\ pc' = [pc EXCEPT ![c] = "scan"]
      BY <1>2, <1>4, <2>3, Zenon DEF set_scan
    <3>6. QED
      BY <1>1, <2>0, <3>1, <3>2, <3>3, <3>4, <3>5, Zenon
  <2>4. QED
    BY <1>4, <2>a, <2>1, <2>2, <2>3, Zenon DEF set_scan, Goto
<1>5. CASE set_duty(c)
  <2>1. pc[c] = "duty" /\ Return(c, "done") /\ UNCHANGED <<pwm_pin_count, fault, devVars, taskVars, level>>
        /\ duty_array' = [duty_array EXCEPT ![k] = [duty_array[k] EXCEPT !.duty_cycle = a.duty_cycle]]
    BY <1>5, Zenon DEF set_duty
  <2>2. k < n /\ k \in Slot /\ duty_array[k].pin = a.pin
    BY <1>a, <1>b, <2>1 DEF SettingInv, Slot
  <2>3. /\ \A j \in Slot : j # k => duty_array'[j] = duty_array[j]
        /\ duty_array'[k].pin = duty_array[k].pin /\ duty_array'[k].min = duty_array[k].min
        /\ duty_array'[k].max = duty_array[k].max /\ duty_array'[k].duty_cycle = a.duty_cycle
    BY <1>b, <2>1, <2>2, Zenon DEF SlotOf
  <2>4. /\ pc'[c] = "user" /\ \A d \in Client : d # c => pc'[d] = pc[d] /\ call'[d] = call[d]
    BY <1>a, <2>1, ClientMoves, Zenon DEF Return
  <2>5. UNCHANGED <<mod, held, nap, st>> /\ n <= n'
    BY <1>b, <2>1 DEF devVars, taskVars
  <2>6. GoodSlot(duty_array[k]) => GoodSlot(duty_array'[k])
    BY <1>b, <2>2, <2>3, ZenonT(60) DEF GoodSlot, Disciplined
  <2>7. \A j \in Slot : st'[j] # "none" => GoodSlot(duty_array'[j])
    <3>1. \A j \in Slot : st[j] # "none" => GoodSlot(duty_array[j])
      BY Zenon DEF DisciplinedInv
    <3>2. QED
      BY <2>3, <2>5, <2>6, <3>1, Zenon
  <2>8. \A j \in Slot : duty_array'[j].pin = duty_array[j].pin
    BY <2>3, Zenon
  <2>9. duty_array'[n] = duty_array[n]
    <3>1. n # k
      BY <1>b, <2>2
    <3>2. QED
      BY <1>b, <2>1, <3>1
  <2>10. QED
    BY <1>c, <2>1, <2>4, <2>5, <2>7, <2>8, <2>9, ClientKeeps, Zenon
<1>6. QED
  BY <1>3, <1>4, <1>5, Zenon

(* One creator's PWM_INIT calls cannot overlap, so no task is lost.        *)
LEMMA StaysCalm ==
  ASSUME Disciplined, DisciplinedInv, [Next]_vars
  PROVE  CalmInv' /\ \A k \in Slot : ~lost_step(k)
<1>1. AnyInv /\ ~raced /\ AnyInv'
  <2>1. AnyInv /\ ~raced
    BY Zenon DEF DisciplinedInv, CalmInv, CountInv, AnyInv
  <2>2. QED
    BY <2>1, AnyStep, Zenon
<1>2. \A k \in Slot : ~lost_step(k)
  BY <1>1, LostStep, Zenon
<1>3. ASSUME NEW c \in Client, user_step(c)
      PROVE  ~raced'
  <2>1. ASSUME NEW a, c \in Creator, PWM_INIT(c, a)
        PROVE  ~raced'
    <3>1. \A d \in Client \ {c} : pc[d] \notin InitPc
      BY <2>1, OneCreator, Zenon
    <3>2. QED
      BY <1>1, <2>1, <3>1, Zenon DEF PWM_INIT
  <2>2. CASE \/ open(c) \/ close(c) \/ ioctl_other(c)
             \/ \E g \in GpioArg : GPIO_SET(c, g[1], g[2])
             \/ \E a \in SetArg : PWM_SET(c, a)
    BY <1>1, <2>2, Zenon DEF open, close, ioctl_other, GPIO_SET, PWM_SET, Oops, taskVars
  <2>3. QED
    BY <1>3, <2>1, <2>2, Zenon DEF user_step
<1>4. CASE UNCHANGED vars
  BY <1>1, <1>2, <1>4, Zenon DEF vars, taskVars, AnyInv, CalmInv
<1>5. CASE Next
  <2>1. ~raced'
    BY <1>1, <1>2, <1>3, <1>5, AnyModule, AnyTask, AnyCount, AnyIoctl, TaskStep, Zenon
       DEF Next, ioctl_step
  <2>2. QED
    BY <1>1, <1>2, <2>1, Zenon DEF AnyInv, CalmInv
<1>6. QED
  BY <1>4, <1>5, Zenon

LEMMA DisciplinedAlways == ASSUME Disciplined PROVE Spec => []DisciplinedInv
<1>1. Init => DisciplinedInv
  BY DisciplinedInit, Zenon
<1>2. DisciplinedInv /\ [Next]_vars => DisciplinedInv'
  <2> SUFFICES ASSUME DisciplinedInv, [Next]_vars
               PROVE  DisciplinedInv'
    OBVIOUS
  <2>1. CalmInv' /\ \A k \in Slot : ~lost_step(k)
    BY StaysCalm, Zenon
  <2>2. CASE UNCHANGED vars
    <3>1. UNCHANGED <<mod, held, pwm_pin_count, duty_array, st, nap, lost, level, pc, call, fault>>
      BY <2>2, Zenon DEF vars, devVars, arrayVars, taskVars, clientVars
    <3>2. QED
      BY <2>1, <3>1 DEF DisciplinedInv, AddingInv, SettingInv, GoodSlot, NoDriverFault,
         HighOnlyInPulse, SleepsBounded
  <2>3. ASSUME NEW c \in Client, ioctl_step(c) \/ reload(c)
        PROVE  DisciplinedInv'
    <3>1. pc[c] \in InitPc \/ pc[c] \in {"scan", "duty"}
      BY <2>3, Zenon DEF ioctl_step, init_fill, init_print, init_task, init_load, init_incr, set_scan,
         set_duty, reload, InitPc
    <3>2. "scan" \notin InitPc /\ "duty" \notin InitPc
      BY Zenon DEF InitPc, FillPc
    <3>3. CASE pc[c] \in InitPc
      <4>1. ~set_scan(c) /\ ~set_duty(c)
        BY <3>2, <3>3, Zenon DEF set_scan, set_duty
      <4>2. QED
        BY <2>1, <2>3, <3>3, <4>1, InitKeeps, Zenon DEF ioctl_step
    <3>4. CASE pc[c] \in {"scan", "duty"}
      <4>1. ~init_fill(c) /\ ~init_print(c) /\ ~init_task(c) /\ ~init_load(c) /\ ~init_incr(c)
        BY <3>4, Zenon DEF init_fill, init_print, init_task, init_load, init_incr, FillPc
      <4>2. QED
        BY <2>1, <2>3, <3>4, <4>1, SetKeeps, Zenon DEF ioctl_step
    <3>5. QED
      BY <3>1, <3>3, <3>4, Zenon
  <2>4. QED
    BY <2>1, <2>2, <2>3, ModuleKeeps, UserKeeps, TaskKeeps, Zenon DEF Next
<1>3. QED
  BY <1>1, <1>2, PTL DEF Spec

(* With disciplined users xenoPWM makes no access it may not make.         *)
THEOREM DriverNeverFaults == ASSUME Disciplined PROVE Spec => []NoDriverFault
<1>1. DisciplinedInv => NoDriverFault
  BY DEF DisciplinedInv
<1>2. QED
  BY <1>1, DisciplinedAlways, PTL

(* With disciplined users a pin is high only while its task sleeps there,  *)
(* so rtdm_task_destroy leaves no pin high.                                *)
THEOREM PinsFallWithTasks == ASSUME Disciplined PROVE Spec => []HighOnlyInPulse
<1>1. DisciplinedInv => HighOnlyInPulse
  BY Zenon DEF DisciplinedInv
<1>2. QED
  BY <1>1, DisciplinedAlways, PTL

(* With disciplined users every delay is between 0 and one period.         *)
THEOREM SleepsStayBounded == ASSUME Disciplined PROVE Spec => []SleepsBounded
<1>1. DisciplinedInv => SleepsBounded
  BY Zenon DEF DisciplinedInv
<1>2. QED
  BY <1>1, DisciplinedAlways, PTL

-----------------------------------------------------------------------------
(* What a step of one client does to the abstract clients of PwmService.   *)
LEMMA ClientMaps ==
  ASSUME TypeOK, NEW c \in Client, NEW l, NEW r,
         pc' = [pc EXCEPT ![c] = l], call' = [call EXCEPT ![c] = r]
  PROVE  /\ opBar' = [opBar EXCEPT ![c] = OpOf(l)]
         /\ argBar' = [argBar EXCEPT ![c] = r.arg]
         /\ seenBar' = [seenBar EXCEPT ![c] = IF l \in {"scan", "duty"} THEN r.ld ELSE 0]
  BY Zenon DEF TypeOK, opBar, argBar, seenBar

LEMMA ClientsSame ==
  ASSUME pc' = pc, call' = call
  PROVE  opBar' = opBar /\ argBar' = argBar /\ seenBar' = seenBar
  BY Zenon DEF opBar, argBar, seenBar

(* A call that goes on without a change its users could see.               *)
LEMMA ClientGoesOn ==
  ASSUME TypeOK, NEW c \in Client, NEW l, NEW r, OpOf(l) = OpOf(pc[c]), r.arg = call[c].arg,
         l \in {"scan", "duty"} <=> pc[c] \in {"scan", "duty"},
         l \in {"scan", "duty"} => r.ld = call[c].ld,
         pc' = [pc EXCEPT ![c] = l], call' = [call EXCEPT ![c] = r]
  PROVE  opBar' = opBar /\ argBar' = argBar /\ seenBar' = seenBar
<1>1. /\ opBar' = [opBar EXCEPT ![c] = OpOf(l)]
      /\ argBar' = [argBar EXCEPT ![c] = r.arg]
      /\ seenBar' = [seenBar EXCEPT ![c] = IF l \in {"scan", "duty"} THEN r.ld ELSE 0]
  BY ClientMaps, Zenon
<1>2. /\ opBar[c] = OpOf(l) /\ argBar[c] = r.arg
      /\ seenBar[c] = IF l \in {"scan", "duty"} THEN r.ld ELSE 0
  BY Zenon DEF opBar, argBar, seenBar
<1>3. opBar' = opBar /\ argBar' = argBar
  BY <1>1, <1>2, ZenonT(60) DEF opBar, argBar
<1>4. seenBar' = seenBar
  BY <1>1, <1>2, ZenonT(60) DEF seenBar
<1>5. QED
  BY <1>3, <1>4, Zenon

(* The table of channels depends on the tasks and on their entries.        *)
LEMMA TableSame ==
  ASSUME mod' = mod, st' = st,
         \A k \in Slot : st[k] # "none" => duty_array'[k] = duty_array[k]
  PROVE  stateBar' = stateBar /\ phaseBar' = phaseBar /\ chanBar' = chanBar
<1>1. stateBar' = stateBar /\ phaseBar' = phaseBar
  BY Zenon DEF stateBar, phaseBar
<1>2. \A k \in Slot : phaseBar[k] # "none" => st[k] # "none"
  BY Zenon DEF phaseBar, PhaseOf
<1>3. QED
  BY <1>1, <1>2, Zenon DEF chanBar

LEMMA TableKept ==
  ASSUME UNCHANGED <<devVars, arrayVars, taskVars>>
  PROVE  UNCHANGED Service!table
<1>1. UNCHANGED <<mod, st, duty_array, pwm_pin_count>>
  BY Zenon DEF devVars, arrayVars, taskVars
<1>2. QED
  BY <1>1, TableSame, Zenon DEF Service!table

(* A channel below the count is in the table with its entry.               *)
LEMMA CountedInTable ==
  ASSUME DisciplinedInv
  PROVE  /\ pwm_pin_count \in Nat
         /\ \A k \in 0 .. pwm_pin_count - 1 : k \in Slot /\ chanBar[k] = duty_array[k] /\ phaseBar[k] # "none"
<1>1. TypeOK /\ CountInv
  BY Zenon DEF DisciplinedInv, CalmInv
<1>2. pwm_pin_count \in Nat /\ pwm_pin_count <= MAX_PWM_NUM /\ MAX_PWM_NUM \in Nat
  BY <1>1, XenoAssumption, Zenon DEF TypeOK, CountInv, XenoAssumption
<1>3. \A k \in 0 .. pwm_pin_count - 1 : k \in Slot /\ k < pwm_pin_count
  BY <1>2 DEF Slot
<1>4. \A k \in 0 .. pwm_pin_count - 1 : st[k] \in {"loop", "set", "high", "exited"}
  BY <1>1, <1>3, Zenon DEF TypeOK, CountInv
<1>5. \A k \in 0 .. pwm_pin_count - 1 : PhaseOf(st[k]) # "none"
  BY <1>4, Zenon DEF PhaseOf
<1>6. QED
  BY <1>2, <1>3, <1>5, Zenon DEF phaseBar, chanBar

LEMMA OnWhenLive ==
  ASSUME DisciplinedInv
  PROVE  /\ mod = "live" <=> stateBar = "on"
         /\ \A c \in Client : pc[c] # "closed" => mod = "live" /\ stateBar = "on"
<1>1. TypeOK /\ LifeInv
  BY Zenon DEF DisciplinedInv, CalmInv
<1>2. mod = "live" <=> stateBar = "on"
  BY <1>1, Zenon DEF stateBar, StateOf, TypeOK
<1>3. QED
  BY <1>1, <1>2, Zenon DEF LifeInv

LEMMA ServiceInit ==
  ASSUME Init
  PROVE  Service!Init
<1>1. stateBar = "off" /\ phaseBar = [k \in Slot |-> "none"]
  BY Zenon DEF Init, stateBar, StateOf, phaseBar, PhaseOf
<1>2. chanBar = [k \in Slot |-> ZeroSlot]
  BY <1>1, Zenon DEF chanBar
<1>3. opBar = [c \in Client |-> "closed"]
  BY Zenon DEF Init, opBar, OpOf
<1>4. argBar = [c \in Client |-> ZeroSlot] /\ seenBar = [c \in Client |-> 0]
  BY Zenon DEF Init, argBar, seenBar, NoCall, NewCall
<1>5. QED
  BY <1>1, <1>2, <1>3, <1>4, Zenon DEF Init, Service!Init

(* A step of PwmService, or none.                                          *)
ServiceStep == Service!Next \/ UNCHANGED Service!vars

LEMMA Stutter ==
  ASSUME UNCHANGED Service!table, UNCHANGED <<level, opBar, argBar, seenBar, ret>>
  PROVE  ServiceStep
  BY Zenon DEF ServiceStep, Service!vars

(* A return to user space is the end of an abstract call.                  *)
LEMMA ReturnMaps ==
  ASSUME TypeOK, NEW c \in Client, NEW r, Return(c, r), stateBar = "on"
  PROVE  Service!Leave(c, OpOf(pc[c]), r)
<1>1. /\ opBar' = [opBar EXCEPT ![c] = OpOf("user")]
      /\ argBar' = [argBar EXCEPT ![c] = NoCall.arg]
      /\ seenBar' = [seenBar EXCEPT ![c] = IF "user" \in {"scan", "duty"} THEN NoCall.ld ELSE 0]
  BY ClientMaps, ZenonT(60) DEF Return
<1>2. OpOf("user") = "idle" /\ NoCall.arg = ZeroSlot
  BY Zenon DEF OpOf, NoCall, NewCall
<1>3. QED
  BY <1>1, <1>2, Zenon DEF Return, Service!Leave, opBar

-----------------------------------------------------------------------------
(* Loading, the request to unload and the end of the last task are steps   *)
(* of the service; the stop loop is not seen.                              *)
LEMMA ModuleMaps ==
  ASSUME DisciplinedInv, DisciplinedInv', module_step
  PROVE  ServiceStep
<1>1. UNCHANGED <<pc, call, ret, pwm_pin_count, duty_array, st, level>>
  BY Zenon DEF module_step, xeno_pwm_init, xeno_pwm_exit, exit_destroy, exit_join, exit_unmap,
     exit_unregister, Oops, arrayVars, taskVars, clientVars
<1>2. /\ opBar' = opBar /\ argBar' = argBar /\ seenBar' = seenBar
      /\ phaseBar' = phaseBar /\ chanBar' = chanBar
  BY <1>1, ClientsSame, Zenon DEF phaseBar, chanBar
<1>3. CASE xeno_pwm_init
  <2>1. stateBar = "off" /\ stateBar' = "on"
    BY <1>3, Zenon DEF xeno_pwm_init, stateBar, StateOf
  <2>2. QED
    BY <1>1, <1>2, <2>1, Zenon DEF ServiceStep, Service!Next, Service!Load
<1>4. CASE xeno_pwm_exit
  <2>1. stateBar = "on" /\ stateBar' = "stopping"
    BY <1>4, Zenon DEF xeno_pwm_exit, stateBar, StateOf
  <2>2. \A c \in Client : opBar[c] = "closed"
    BY <1>4, Zenon DEF xeno_pwm_exit, opBar, OpOf
  <2>3. QED
    BY <1>1, <1>2, <2>1, <2>2, Zenon DEF ServiceStep, Service!Next, Service!Stop
<1>5. CASE exit_unmap
  <2>1. stateBar = "stopping" /\ stateBar' = "over" /\ mod' = "unmapped"
    BY <1>5, ZenonT(30) DEF exit_unmap, stateBar, StateOf
  <2>2. \A k \in Slot : st'[k] \in {"none", "exited"}
    <3>1. CountInv' /\ LifeInv'
      BY Zenon DEF DisciplinedInv, CalmInv
    <3>2. i' = pwm_pin_count' /\ \A c \in Client : ~Starting(c)'
      BY <2>1, <3>1, Zenon DEF LifeInv, Starting
    <3>3. \A k \in Slot : st'[k] # "none" => k < i'
      BY <3>1, <3>2, Zenon DEF CountInv
    <3>4. QED
      BY <3>1, <3>3, Zenon DEF LifeInv
  <2>3. \A k \in Slot : phaseBar[k] \in {"none", "ended"}
    BY <1>1, <2>2, Zenon DEF phaseBar, PhaseOf
  <2>4. QED
    BY <1>1, <1>2, <2>1, <2>3, Zenon DEF ServiceStep, Service!Next, Service!Finish
<1>6. CASE exit_destroy \/ exit_join \/ exit_unregister
  <2>1. stateBar' = stateBar
    BY <1>6, Zenon DEF exit_destroy, exit_join, exit_unregister, Oops, devVars, stateBar, StateOf
  <2>2. QED
    BY <1>1, <1>2, <2>1, Stutter, Zenon DEF Service!table
<1>7. QED
  BY <1>3, <1>4, <1>5, <1>6, Zenon DEF module_step

(* A task's half periods are the channel's pulses; its end is seen only    *)
(* while the module is being unloaded.                                     *)
LEMMA TaskMaps ==
  ASSUME Disciplined, DisciplinedInv, NEW k \in Slot, task_step(k)
  PROVE  ServiceStep
<1>i. TypeOK /\ CountInv /\ LifeInv
  BY Zenon DEF DisciplinedInv, CalmInv
<1>1. /\ UNCHANGED <<devVars, arrayVars, clientVars>>
      /\ \/ /\ st[k] = "loop" /\ level' = level
            /\ st' = [st EXCEPT ![k] = IF stop[k] THEN "exited" ELSE "set"]
         \/ /\ st[k] = "set" /\ st' = [st EXCEPT ![k] = "high"]
            /\ level' = [level EXCEPT ![duty_array[k].pin] = 1]
         \/ /\ st[k] = "high" /\ st' = [st EXCEPT ![k] = "loop"]
            /\ level' = [level EXCEPT ![duty_array[k].pin] = 0]
  BY TaskEffect, Zenon
<1>2. UNCHANGED <<mod, pwm_pin_count, duty_array, pc, call, ret>>
  BY <1>1, Zenon DEF devVars, arrayVars, clientVars
<1>3. st[k] \in {"loop", "set", "high"} /\ st'[k] \in {"loop", "set", "high", "exited"}
  BY <1>i, <1>1, Zenon DEF TypeOK
<1>4. mod \in {"live", "going", "waiting"}
  BY <1>3, RunningWhenMapped, Zenon
<1>5. /\ stateBar' = stateBar /\ stateBar \in {"on", "stopping"}
      /\ opBar' = opBar /\ argBar' = argBar /\ seenBar' = seenBar
  BY <1>2, <1>4, ClientsSame, Zenon DEF stateBar, StateOf
<1>6. /\ phaseBar' = [phaseBar EXCEPT ![k] = PhaseOf(st'[k])]
      /\ phaseBar[k] = PhaseOf(st[k])
  BY <1>i, <1>1, ZenonT(60) DEF phaseBar, TypeOK
<1>7. phaseBar[k] # "none" /\ phaseBar'[k] # "none"
  BY <1>3, <1>6, Zenon DEF PhaseOf, phaseBar
<1>8. chanBar' = chanBar /\ chanBar[k] = duty_array[k]
  <2>1. \A j \in Slot : phaseBar'[j] = "none" <=> phaseBar[j] = "none"
    BY <1>6, <1>7, Zenon DEF phaseBar
  <2>2. QED
    BY <1>2, <1>7, <2>1, Zenon DEF chanBar
<1>9. CASE st[k] = "loop" /\ ~stop[k]
  <2>1. phaseBar' = phaseBar /\ level' = level
    BY <1>i, <1>1, <1>6, <1>9, Zenon DEF phaseBar, PhaseOf, TypeOK
  <2>2. QED
    BY <1>2, <1>5, <1>8, <2>1, Stutter, Zenon DEF Service!table
<1>10. CASE st[k] = "loop" /\ stop[k]
  <2>1. /\ phaseBar' = [phaseBar EXCEPT ![k] = "ended"] /\ phaseBar[k] = "low"
        /\ level' = level /\ stateBar = "stopping"
    BY <1>i, <1>1, <1>4, <1>6, <1>10, Zenon DEF PhaseOf, LifeInv, stateBar, StateOf, TypeOK
  <2>2. QED
    BY <1>2, <1>5, <1>8, <2>1, Zenon DEF ServiceStep, Service!Next, Service!End
<1>11. CASE st[k] = "set"
  <2>1. phaseBar' = [phaseBar EXCEPT ![k] = "high"] /\ phaseBar[k] = "low"
    BY <1>i, <1>1, <1>6, <1>11, Zenon DEF PhaseOf, TypeOK
  <2>2. QED
    BY <1>1, <1>2, <1>5, <1>8, <1>11, <2>1, Zenon
       DEF ServiceStep, Service!Next, Service!Raise, Service!Pulse
<1>12. CASE st[k] = "high"
  <2>1. phaseBar' = [phaseBar EXCEPT ![k] = "low"] /\ phaseBar[k] = "high"
    BY <1>i, <1>1, <1>6, <1>12, Zenon DEF PhaseOf, TypeOK
  <2>2. QED
    BY <1>1, <1>2, <1>5, <1>8, <1>12, <2>1, Zenon
       DEF ServiceStep, Service!Next, Service!Fall, Service!Pulse
<1>13. QED
  BY <1>1, <1>9, <1>10, <1>11, <1>12, Zenon

-----------------------------------------------------------------------------
(* An access the driver may not make leaves everything else as it is.      *)
LEMMA OopsMaps == ASSUME NEW f, Oops(f) PROVE ServiceStep
<1>1. UNCHANGED <<devVars, arrayVars, taskVars, level, pc, call, ret>>
  BY Zenon DEF Oops, clientVars
<1>2. QED
  BY <1>1, ClientsSame, TableKept, Stutter, Zenon

(* open, close, the commands that do not touch the channels, and the start *)
(* of the two that do.                                                     *)
LEMMA UserMaps ==
  ASSUME DisciplinedInv, DisciplinedInv', NEW c \in Client, user_step(c)
  PROVE  ServiceStep
<1>i. TypeOK
  BY Zenon DEF DisciplinedInv, CalmInv
<1>a. /\ mod = "live" <=> stateBar = "on"
      /\ pc[c] = "user" => stateBar = "on" /\ OpOf(pc[c]) = "idle"
  BY OnWhenLive, Zenon DEF OpOf
<1>b. call = [call EXCEPT ![c] = call[c]]
  BY <1>i, Zenon DEF TypeOK
<1>1. CASE open(c)
  <2>1. /\ pc' = [pc EXCEPT ![c] = "user"] /\ UNCHANGED <<call, ret>> /\ mod = "live"
        /\ UNCHANGED <<devVars, arrayVars, taskVars, level>> /\ pc[c] = "closed"
    BY <1>1, Zenon DEF open, Goto
  <2>2. /\ opBar' = [opBar EXCEPT ![c] = OpOf("user")]
        /\ argBar' = [argBar EXCEPT ![c] = call[c].arg]
        /\ seenBar' = [seenBar EXCEPT ![c] = IF "user" \in {"scan", "duty"} THEN call[c].ld ELSE 0]
    BY <1>i, <1>b, <2>1, ClientMaps, Zenon
  <2>3. opBar[c] = "closed" /\ opBar' = [opBar EXCEPT ![c] = "idle"] /\ argBar' = argBar /\ seenBar' = seenBar
    BY <2>1, <2>2, Zenon DEF opBar, OpOf, argBar, seenBar
  <2>4. QED
    BY <1>a, <2>1, <2>3, TableKept, Zenon DEF ServiceStep, Service!Next, Service!Open
<1>2. CASE close(c)
  <2>1. /\ pc' = [pc EXCEPT ![c] = "closed"] /\ call' = call /\ ret' = [ret EXCEPT ![c] = "none"]
        /\ UNCHANGED <<devVars, arrayVars, taskVars, level>> /\ pc[c] = "user"
    BY <1>2, Zenon DEF close
  <2>2. /\ opBar' = [opBar EXCEPT ![c] = OpOf("closed")]
        /\ argBar' = [argBar EXCEPT ![c] = call[c].arg]
        /\ seenBar' = [seenBar EXCEPT ![c] = IF "closed" \in {"scan", "duty"} THEN call[c].ld ELSE 0]
    BY <1>i, <1>b, <2>1, ClientMaps, Zenon
  <2>3. opBar[c] = "idle" /\ opBar' = [opBar EXCEPT ![c] = "closed"] /\ argBar' = argBar /\ seenBar' = seenBar
    BY <2>1, <2>2, Zenon DEF opBar, OpOf, argBar, seenBar
  <2>4. QED
    BY <2>1, <2>3, TableKept, Zenon DEF ServiceStep, Service!Next, Service!Close
<1>3. ASSUME NEW r \in {"done", "warned"}, pc[c] = "user", Return(c, r),
             UNCHANGED <<devVars, arrayVars, taskVars>>,
             level' = level \/ (r = "done" /\ \E g \in GpioArg : level' = [level EXCEPT ![g[1]] = g[2]])
      PROVE  ServiceStep
  <2>1. Service!Leave(c, "idle", r) /\ UNCHANGED Service!table
    BY <1>i, <1>3, <1>a, ReturnMaps, TableKept, Zenon
  <2>2. QED
    BY <1>3, <2>1, Zenon DEF ServiceStep, Service!Next, Service!Other, Service!Drive
<1>4. CASE ioctl_other(c)
  BY <1>3, <1>4, Zenon DEF ioctl_other
<1>5. ASSUME NEW g \in GpioArg, GPIO_SET(c, g[1], g[2]) PROVE ServiceStep
  BY <1>3, <1>5, OopsMaps, Zenon DEF GPIO_SET
<1>6. ASSUME NEW a, NEW l \in {"scan", "fill_pin"}, pc[c] = "user", Goto(c, l),
             call' = [call EXCEPT ![c] = NewCall(a, pwm_pin_count)],
             UNCHANGED <<devVars, arrayVars, taskVars, level>>
      PROVE  /\ Service!Enter(c, OpOf(l), a, IF l = "scan" THEN pwm_pin_count ELSE 0)
             /\ UNCHANGED <<Service!table, level>>
  <2> DEFINE r == NewCall(a, pwm_pin_count)
  <2>1. r.arg = a /\ r.ld = pwm_pin_count
    BY Zenon DEF NewCall
  <2> HIDE DEF r
  <2>2. /\ opBar' = [opBar EXCEPT ![c] = OpOf(l)]
        /\ argBar' = [argBar EXCEPT ![c] = r.arg]
        /\ seenBar' = [seenBar EXCEPT ![c] = IF l \in {"scan", "duty"} THEN r.ld ELSE 0]
    BY <1>i, <1>6, ClientMaps, Zenon DEF Goto, r
  <2>3. l \in {"scan", "duty"} <=> l = "scan"
    BY <1>6, Zenon
  <2>4. opBar[c] = "idle" /\ stateBar = "on" /\ ret' = ret
    BY <1>6, <1>a, Zenon DEF opBar, Goto
  <2>5. seenBar' = [seenBar EXCEPT ![c] = IF l = "scan" THEN pwm_pin_count ELSE 0]
    BY <2>1, <2>2, <2>3, Zenon
  <2>6. QED
    BY <1>6, <2>1, <2>2, <2>4, <2>5, TableKept, Zenon DEF Service!Enter
<1>7. ASSUME NEW a \in SetArg, PWM_SET(c, a) PROVE ServiceStep
  <2>1. Service!Enter(c, "write", a, pwm_pin_count) /\ UNCHANGED <<Service!table, level>>
    BY <1>6, <1>7, Zenon DEF PWM_SET, OpOf
  <2>2. QED
    BY <2>1, Zenon DEF ServiceStep, Service!Next, Service!Write
<1>8. ASSUME NEW a \in InitArg, PWM_INIT(c, a) PROVE ServiceStep
  <2>0. raced' = raced
    BY Zenon DEF DisciplinedInv, CalmInv, CountInv, TypeOK
  <2>a. /\ pc[c] = "user" /\ Goto(c, "fill_pin") /\ OpOf("fill_pin") = "create"
        /\ call' = [call EXCEPT ![c] = NewCall(a, pwm_pin_count)]
        /\ UNCHANGED <<devVars, arrayVars, taskVars, level>>
    BY <1>8, <2>0, Zenon DEF PWM_INIT, OpOf, taskVars
  <2>1. Service!Enter(c, "create", a, 0) /\ UNCHANGED <<Service!table, level>>
    BY <1>6, <2>a, Zenon
  <2>2. QED
    BY <2>1, Zenon DEF ServiceStep, Service!Next, Service!Create
<1>9. QED
  BY <1>1, <1>2, <1>4, <1>5, <1>7, <1>8, Zenon DEF user_step

-----------------------------------------------------------------------------
(* PWM_SET: a new copy of the count is a new look, the search is not seen  *)
(* until it stores or gives up.                                            *)
LEMMA SetMaps ==
  ASSUME DisciplinedInv, NEW c \in Client, reload(c) \/ set_scan(c) \/ set_duty(c)
  PROVE  ServiceStep
<1>i. /\ TypeOK /\ \A d \in Client : pc[d] \in InitPc => AddingInv(d)
      /\ \A d \in Client : pc[d] \in {"scan", "duty"} => SettingInv(d)
  BY Zenon DEF DisciplinedInv, CalmInv
<1>a. /\ call[c].ld \in Nat /\ call[c].idx \in Nat /\ pwm_pin_count \in Nat
      /\ pwm_pin_count <= MAX_PWM_NUM /\ MAX_PWM_NUM \in Nat
      /\ pc[c] \in {"scan", "duty"} => call[c].ld <= pwm_pin_count
  BY <1>i, XenoAssumption, ZenonT(30) DEF TypeOK, CallRecord, DisciplinedInv, CalmInv, CountInv, XenoAssumption
<1>b. pc[c] \in {"scan", "duty"} =>
        /\ SettingInv(c) /\ stateBar = "on" /\ OpOf(pc[c]) = "write"
        /\ opBar[c] = "write" /\ argBar[c] = call[c].arg /\ seenBar[c] = call[c].ld
  BY <1>i, OnWhenLive, Zenon DEF OpOf, opBar, argBar, seenBar
<1>c. \A k \in 0 .. pwm_pin_count - 1 : k \in Slot /\ chanBar[k] = duty_array[k]
  BY CountedInTable, Zenon
<1>1. CASE reload(c)
  <2>1. pc[c] = "scan"
    BY <1>i, <1>1, Zenon DEF reload, AddingInv, InitPc
  <2> DEFINE r == [call[c] EXCEPT !.ld = pwm_pin_count]
  <2>2. /\ pc' = pc /\ call' = [call EXCEPT ![c] = r]
        /\ UNCHANGED <<ret, devVars, arrayVars, taskVars, level>>
    BY <1>1, Zenon DEF reload
  <2>3. r.arg = call[c].arg /\ r.ld = pwm_pin_count
    BY <1>i, <1>a, CallFields DEF TypeOK
  <2> HIDE DEF r
  <2>4. pc' = [pc EXCEPT ![c] = "scan"]
    BY <1>i, <2>1, <2>2, Zenon DEF TypeOK
  <2>5. /\ opBar' = [opBar EXCEPT ![c] = OpOf("scan")]
        /\ argBar' = [argBar EXCEPT ![c] = r.arg]
        /\ seenBar' = [seenBar EXCEPT ![c] = IF "scan" \in {"scan", "duty"} THEN r.ld ELSE 0]
    BY <1>i, <2>2, <2>4, ClientMaps, Zenon
  <2>6. opBar' = opBar /\ argBar' = argBar /\ seenBar' = [seenBar EXCEPT ![c] = pwm_pin_count]
    BY <2>1, <2>3, <2>5, ZenonT(60) DEF opBar, argBar
  <2>7. QED
    BY <1>b, <2>1, <2>2, <2>6, TableKept, Zenon DEF ServiceStep, Service!Next, Service!Look
<1>2. CASE set_scan(c)
  <2> DEFINE k == call[c].idx
  <2>0. pc[c] = "scan" /\ (k < call[c].ld => k \in Slot)
    BY <1>2, <1>a DEF set_scan, Slot
  <2>1. pc[c] = "scan" /\ UNCHANGED <<devVars, arrayVars, taskVars, level>>
    BY <1>2, <2>0, Zenon DEF set_scan
  <2>2. CASE k < call[c].ld /\ duty_array[k].pin = call[c].arg.pin
    <3>1. pc' = [pc EXCEPT ![c] = "duty"] /\ call' = call /\ ret' = ret
      BY <1>2, <1>a, <2>0, <2>2 DEF set_scan, Goto
    <3>2. OpOf("duty") = OpOf(pc[c]) /\ call = [call EXCEPT ![c] = call[c]]
      BY <1>i, <2>1, Zenon DEF OpOf, TypeOK
    <3>3. opBar' = opBar /\ argBar' = argBar /\ seenBar' = seenBar
      BY <1>i, <2>1, <3>1, <3>2, ClientGoesOn, Zenon
    <3>4. QED
      BY <2>1, <3>1, <3>3, TableKept, Stutter, Zenon
  <2>3. CASE k < call[c].ld /\ duty_array[k].pin # call[c].arg.pin
    <3> DEFINE r == [call[c] EXCEPT !.idx = k + 1]
    <3>1. pc' = pc /\ call' = [call EXCEPT ![c] = r] /\ ret' = ret
      BY <1>2, <1>a, <2>0, <2>3 DEF set_scan
    <3>2. r.arg = call[c].arg /\ r.ld = call[c].ld
      BY <1>i DEF TypeOK, CallRecord
    <3> HIDE DEF r
    <3>3. pc = [pc EXCEPT ![c] = pc[c]]
      BY <1>i, Zenon DEF TypeOK
    <3>4. opBar' = opBar /\ argBar' = argBar /\ seenBar' = seenBar
      BY <1>i, <3>1, <3>2, <3>3, ClientGoesOn, Zenon
    <3>5. QED
      BY <2>1, <3>1, <3>4, TableKept, Stutter, Zenon
  <2>4. CASE ~(k < call[c].ld)
    <3>1. Return(c, "warned")
      BY <1>2, <1>a, <2>4, Zenon DEF set_scan
    <3>2. Service!Leave(c, "write", "warned") /\ UNCHANGED Service!table
      BY <1>i, <1>b, <2>1, <3>1, ReturnMaps, TableKept, ZenonT(30)
    <3>3. \A j \in 0 .. call[c].ld - 1 : j \in 0 .. pwm_pin_count - 1 /\ j < k
      BY <1>a, <2>1, <2>4
    <3>4. \A j \in 0 .. seenBar[c] - 1 : chanBar[j].pin # argBar[c].pin
      BY <1>b, <1>c, <2>1, <3>3, Zenon DEF SettingInv
    <3>5. QED
      BY <2>1, <3>2, <3>4, Zenon DEF ServiceStep, Service!Next, Service!Miss
  <2>5. QED
    BY <2>2, <2>3, <2>4, Zenon
<1>3. CASE set_duty(c)
  <2> DEFINE k == call[c].idx
             v == call[c].arg.duty_cycle
  <2>1. /\ pc[c] = "duty" /\ Return(c, "done") /\ UNCHANGED <<devVars, taskVars, level, pwm_pin_count>>
        /\ duty_array' = [duty_array EXCEPT ![k].duty_cycle = v]
    BY <1>3, Zenon DEF set_duty
  <2>2. /\ k < pwm_pin_count /\ duty_array[k].pin = call[c].arg.pin
        /\ \A j \in Slot : j < k => duty_array[j].pin # call[c].arg.pin
    BY <1>b, <2>1, ZenonT(30) DEF SettingInv
  <2>3. k \in 0 .. pwm_pin_count - 1 /\ \A j \in 0 .. k - 1 : j \in 0 .. pwm_pin_count - 1 /\ j < k
    BY <1>a, <2>2
  <2>4. Service!Leave(c, "write", "done")
    BY <1>i, <1>b, <2>1, ReturnMaps, Zenon
  <2>5. stateBar' = stateBar /\ phaseBar' = phaseBar
    BY <2>1, Zenon DEF stateBar, phaseBar, devVars, taskVars
  <2>6. chanBar' = [chanBar EXCEPT ![k].duty_cycle = v]
    <3>1. k \in Slot /\ chanBar[k] = duty_array[k] /\ phaseBar[k] # "none"
      BY <2>3, CountedInTable, Zenon
    <3>2. duty_array \in [Slot -> SlotOf(Pin)]
      BY <1>i, Zenon DEF TypeOK
    <3>3. \A j \in Slot : chanBar'[j] = [chanBar EXCEPT ![k].duty_cycle = v][j]
      BY <2>1, <2>5, <3>1, <3>2, Zenon DEF chanBar
    <3>4. QED
      BY <3>3, Zenon DEF chanBar
  <2>7. chanBar[k].pin = argBar[c].pin /\ \A j \in 0 .. k - 1 : chanBar[j].pin # argBar[c].pin
    BY <1>b, <1>c, <2>1, <2>2, <2>3, Zenon
  <2>8. argBar[c].duty_cycle = v
    BY <1>b, <2>1, Zenon
  <2>9. QED
    BY <2>1, <2>3, <2>4, <2>5, <2>6, <2>7, <2>8, Zenon DEF ServiceStep, Service!Next, Service!Store
<1>4. QED
  BY <1>1, <1>2, <1>3, Zenon

-----------------------------------------------------------------------------
(* Until it starts the task, PWM_INIT is not seen to fill the entry.       *)
LEMMA InitUnseen ==
  ASSUME DisciplinedInv, NEW c \in Client, NEW l \in InitPc, NEW r, pc[c] \in InitPc,
         Starting(c) <=> l \in {"load", "incr"}, r.arg = call[c].arg,
         pc' = [pc EXCEPT ![c] = l], call' = [call EXCEPT ![c] = r],
         UNCHANGED <<ret, devVars, pwm_pin_count, taskVars, level>>,
         \A k \in Slot : st[k] # "none" => duty_array'[k] = duty_array[k]
  PROVE  ServiceStep
<1>1. TypeOK
  BY Zenon DEF DisciplinedInv, CalmInv
<1>2. OpOf(l) = OpOf(pc[c]) /\ l \notin {"scan", "duty"} /\ pc[c] \notin {"scan", "duty"}
  BY DEF OpOf, InitPc, FillPc, Starting
<1>3. opBar' = opBar /\ argBar' = argBar /\ seenBar' = seenBar
  BY <1>1, <1>2, ClientGoesOn, Zenon
<1>4. UNCHANGED Service!table
  BY TableSame, Zenon DEF Service!table, devVars, taskVars
<1>5. QED
  BY <1>3, <1>4, Stutter, Zenon

(* The start of the task puts the filled entry in the table.               *)
LEMMA StartMaps ==
  ASSUME Disciplined, DisciplinedInv, NEW c \in Client, init_task(c)
  PROVE  ServiceStep
<1> DEFINE n == pwm_pin_count
           a == call[c].arg
<1>0. pc[c] = "task" /\ pc[c] \in InitPc
  BY Zenon DEF init_task, InitPc
<1>i. TypeOK /\ AddingInv(c) /\ stateBar = "on" /\ opBar[c] = "create" /\ OpOf(pc[c]) = "create"
  BY <1>0, OnWhenLive, Zenon DEF DisciplinedInv, CalmInv, opBar, OpOf
<1>1. n \in Slot /\ call[c].ld = n /\ st[n] = "none"
  BY <1>0, Adding, Zenon DEF Starting
<1>3. CASE /\ st' = [st EXCEPT ![n] = "loop"] /\ Goto(c, "load") /\ st[n] = "none"
           /\ UNCHANGED <<call, fault, devVars, arrayVars, level>>
  <2>1. /\ phaseBar' = [phaseBar EXCEPT ![n] = "low"] /\ phaseBar[n] = "none"
        /\ stateBar' = stateBar /\ pwm_pin_count' = n
    <3>1. PhaseOf("loop") = "low" /\ PhaseOf("none") = "none"
      BY Zenon DEF PhaseOf
    <3>2. \A k \in Slot : st'[k] = IF k = n THEN "loop" ELSE st[k]
      BY <1>i, <1>3, Zenon DEF TypeOK
    <3>3. \A k \in Slot : PhaseOf(st'[k]) = IF k = n THEN "low" ELSE PhaseOf(st[k])
      BY <3>1, <3>2, Zenon
    <3>4. phaseBar' = [phaseBar EXCEPT ![n] = "low"]
      BY <3>3, Zenon DEF phaseBar
    <3>5. QED
      BY <1>1, <1>3, <3>1, <3>4, Zenon DEF phaseBar, stateBar, devVars, arrayVars
  <2>2. duty_array[n] = [pin |-> a.pin, min |-> a.min, max |-> a.max, duty_cycle |-> InitialDuty]
    <3>1. /\ duty_array[n].pin = a.pin /\ duty_array[n].min = a.min /\ duty_array[n].max = a.max
          /\ duty_array[n].duty_cycle = InitialDuty
      BY <1>0, <1>i, Zenon DEF AddingInv
    <3>2. duty_array[n] \in SlotOf(Pin)
      BY <1>i, <1>1, Zenon DEF TypeOK
    <3>3. QED
      BY <3>1, <3>2, Zenon DEF SlotOf
  <2>3. chanBar' = [chanBar EXCEPT ![n] = duty_array[n]]
    <3>1. \A k \in Slot : chanBar'[k] = [chanBar EXCEPT ![n] = duty_array[n]][k]
      BY <1>1, <1>3, <2>1 DEF chanBar, arrayVars, phaseBar
    <3>2. QED
      BY <3>1, Zenon DEF chanBar
  <2>4. call' = [call EXCEPT ![c] = call[c]] /\ pc' = [pc EXCEPT ![c] = "load"] /\ ret' = ret
    BY <1>i, <1>3, Zenon DEF TypeOK, Goto
  <2>5. /\ opBar' = [opBar EXCEPT ![c] = OpOf("load")]
        /\ argBar' = [argBar EXCEPT ![c] = call[c].arg]
        /\ seenBar' = [seenBar EXCEPT ![c] = IF "load" \in {"scan", "duty"} THEN call[c].ld ELSE 0]
    BY <1>i, <2>4, ClientMaps, Zenon
  <2>6. /\ opBar' = [opBar EXCEPT ![c] = "publish"] /\ argBar' = argBar /\ seenBar' = seenBar
        /\ argBar[c] = a
    BY <1>0, <2>5, Zenon DEF argBar, seenBar, OpOf
  <2>7. Service!Start(c)
    BY <1>i, <1>1, <1>3, <2>1, <2>2, <2>3, <2>4, <2>6, Zenon DEF Service!Start
  <2>8. QED
    BY <2>7, Zenon DEF ServiceStep, Service!Next
<1>4. CASE Return(c, "error") /\ UNCHANGED <<fault, devVars, arrayVars, taskVars, level>>
  <2>1. Service!Leave(c, "create", "error") /\ UNCHANGED Service!table
    BY <1>i, <1>4, ReturnMaps, TableKept, Zenon
  <2>2. QED
    BY <1>4, <2>1, Zenon DEF ServiceStep, Service!Next, Service!Fail
<1>5. QED
  BY <1>1, <1>3, <1>4, Zenon DEF init_task, Enter

(* The new count publishes the channel.                                    *)
LEMMA IncrMaps ==
  ASSUME DisciplinedInv, NEW c \in Client, init_incr(c)
  PROVE  ServiceStep
<1>1. pc[c] = "incr" /\ pc[c] \in InitPc
  BY Zenon DEF init_incr, InitPc
<1>2. TypeOK /\ AddingInv(c) /\ stateBar = "on" /\ OpOf(pc[c]) = "publish"
  BY <1>1, OnWhenLive, Zenon DEF DisciplinedInv, CalmInv, OpOf
<1>3. pwm_pin_count' = pwm_pin_count + 1
  BY <1>2, Zenon DEF AddingInv, init_incr
<1>4. Service!Leave(c, "publish", "done")
  BY <1>2, ReturnMaps, Zenon DEF init_incr
<1>5. UNCHANGED <<stateBar, phaseBar, chanBar, level>>
  BY Zenon DEF init_incr, stateBar, phaseBar, chanBar, devVars, taskVars
<1>6. QED
  BY <1>3, <1>4, <1>5, Zenon DEF ServiceStep, Service!Next, Service!Publish

LEMMA InitMaps ==
  ASSUME Disciplined, DisciplinedInv, NEW c \in Client,
         init_fill(c) \/ init_print(c) \/ init_task(c) \/ init_load(c) \/ init_incr(c)
  PROVE  ServiceStep
<1>1. CASE init_fill(c)
  <2> DEFINE n == call[c].ld
  <2>1. pc[c] \in FillPc /\ pc[c] \in InitPc /\ ~Starting(c)
    BY <1>1, Zenon DEF init_fill, InitPc, FillPc, Starting
  <2>2. CASE "duty_array" \notin held \/ n \notin Slot
    BY <1>1, <2>2, OopsMaps, Zenon DEF init_fill
  <2>3. CASE "duty_array" \in held /\ n \in Slot
    <3>1. TypeOK /\ CountInv /\ AddingInv(c)
      BY <2>1, Zenon DEF DisciplinedInv, CalmInv
    <3>2. st[n] = "none"
      BY <2>1, Adding, Zenon
    <3>3. /\ duty_array' = [duty_array EXCEPT ![n] = Stored(@, call[c].arg, pc[c])]
          /\ pc' = [pc EXCEPT ![c] = AfterFill(pc[c])] /\ call' = [call EXCEPT ![c] = call[c]]
          /\ UNCHANGED <<ret, devVars, pwm_pin_count, taskVars, level>>
      BY <1>1, <2>3, <3>1, Zenon DEF init_fill, Goto, TypeOK
    <3>4. AfterFill(pc[c]) \in InitPc /\ AfterFill(pc[c]) \notin {"load", "incr"}
      BY <2>1, Zenon DEF AfterFill, InitPc, FillPc
    <3>5. \A k \in Slot : st[k] # "none" => duty_array'[k] = duty_array[k]
      BY <3>1, <3>2, <3>3, Zenon DEF TypeOK
    <3>6. QED
      BY <2>1, <3>3, <3>4, <3>5, InitUnseen, Zenon
  <2>4. QED
    BY <2>2, <2>3, Zenon
<1>2. CASE init_print(c) \/ init_load(c)
  <2> DEFINE r == [call[c] EXCEPT !.ld = pwm_pin_count]
             l == IF pc[c] = "print" THEN "task" ELSE "incr"
  <2>1. CASE call[c].ld \notin Slot /\ pc[c] = "print"
    BY <1>2, <2>1, OopsMaps, Zenon DEF init_print, init_load
  <2>2. CASE ~(call[c].ld \notin Slot /\ pc[c] = "print")
    <3>1. pc[c] \in {"print", "load"} /\ pc[c] \in InitPc /\ l \in InitPc /\ (Starting(c) <=> l \in {"load", "incr"})
      BY <1>2, Zenon DEF init_print, init_load, InitPc, Starting
    <3>2. /\ pc' = [pc EXCEPT ![c] = l] /\ call' = [call EXCEPT ![c] = r]
          /\ UNCHANGED <<ret, devVars, arrayVars, taskVars, level>>
      BY <1>2, <2>2, Zenon DEF init_print, init_load, Goto
    <3>3. r.arg = call[c].arg
      BY CallFields, Zenon DEF DisciplinedInv, CalmInv, TypeOK
    <3>4. QED
      BY <3>1, <3>2, <3>3, InitUnseen, Zenon DEF arrayVars
  <2>3. QED
    BY <2>1, <2>2, Zenon
<1>3. QED
  BY <1>1, <1>2, StartMaps, IncrMaps, Zenon

LEMMA ServiceStepAlways ==
  ASSUME Disciplined, DisciplinedInv, DisciplinedInv', [Next]_vars
  PROVE  ServiceStep
<1>1. CASE UNCHANGED vars
  BY <1>1, ClientsSame, TableKept, Stutter, Zenon DEF vars, clientVars
<1>2. ASSUME NEW c \in Client, user_step(c) \/ ioctl_step(c) \/ reload(c) PROVE ServiceStep
  BY <1>2, UserMaps, SetMaps, InitMaps, Zenon DEF ioctl_step
<1>3. CASE module_step
  BY <1>3, ModuleMaps, Zenon
<1>4. ASSUME NEW k \in Slot, task_step(k) PROVE ServiceStep
  BY <1>4, TaskMaps, Zenon
<1>5. \A k \in Slot : ~lost_step(k)
  BY StaysCalm, Zenon
<1>6. QED
  BY <1>1, <1>2, <1>3, <1>4, <1>5, Zenon DEF Next

(* xenoPWM implements the table of channels of PwmService, with any number *)
(* of processes, pins and channels, for disciplined users: every step of   *)
(* its ioctls, its tasks and its unloading is a step of the service or is  *)
(* not seen.                                                               *)
THEOREM XenoImplementsService == ASSUME Disciplined PROVE Spec => ImplementsService
<1>1. Init => Service!Init
  BY ServiceInit, Zenon
<1>2. DisciplinedInv /\ DisciplinedInv' /\ [Next]_vars => [Service!Next]_(Service!vars)
  BY ServiceStepAlways, Zenon DEF ServiceStep
<1>3. Spec => []DisciplinedInv
  BY DisciplinedAlways
<1>4. QED
  BY <1>1, <1>2, <1>3, PTL DEF Spec, ImplementsService, Service!Spec

=============================================================================
