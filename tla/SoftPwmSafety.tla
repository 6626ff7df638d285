---------------------------- MODULE SoftPwmSafety ----------------------------
(***************************************************************************)
(* The safety of softPWM for disciplined users (one creating process, no   *)
(* more than MAX_PWM_NUM channels, duty cycles in range), for any number   *)
(* of clients, pins and channels: PWM_INIT keeps DisciplinedInv too, so it *)
(* is inductive.  Then what single steps leave standing, and the steps of  *)
(* the module, of the threads and at the start of commands as steps of     *)
(* PwmService.                                                             *)
(***************************************************************************)
EXTENDS SoftPwmService, SoftPwmProofs

(* More than the prover's default time, for a loaded machine.              *)
USE SMTT(30)

(* The creator is alone in PWM_INIT, so what its steps owe to the other    *)
(* clients is only that the entries below the count keep their pins.       *)
LEMMA CallsKept ==
  ASSUME Disciplined, DisciplinedInv, TypeOK', NEW c \in Creator, mod' = mod,
         pwm_pin_count <= pwm_pin_count',
         \A k \in 0 .. pwm_pin_count - 1 : duty_array'[k].pin = duty_array[k].pin,
         \A d \in Client : d # c => pc'[d] = pc[d] /\ call'[d] = call[d],
         pc'[c] \notin {"scan", "duty"},
         pc'[c] \in InitPc => AddingInv(c)'
  PROVE  CallsInv'
<1>i. /\ TypeOK /\ ThreadInv /\ LifeInv /\ CountInv /\ CallsInv
      /\ NoDriverFault /\ CreatedIsWritable /\ HighOnlyInPulse
  BY Zenon DEF DisciplinedInv
<1> SUFFICES ASSUME NEW d \in Client, d # c
             PROVE  /\ pc'[d] \in InitPc => AddingInv(d)'
                    /\ pc'[d] \in {"scan", "duty"} => SettingInv(d)'
  BY <1>i, SoftAssumption, Zenon DEF CallsInv, SoftAssumption
<1>1. pc'[d] = pc[d] /\ call'[d] = call[d]
  BY Zenon
<1>2. pc[d] \notin InitPc
  BY <1>i, OneCreator, SoftAssumption, Zenon DEF SoftAssumption
<1>3. pc[d] \in {"scan", "duty"} => SettingInv(d)'
  BY <1>i, <1>1, SettingKept, Zenon DEF CallsInv, TypeOK
<1>4. QED
  BY <1>1, <1>2, <1>3, Zenon

(* The start of PWM_INIT keeps DisciplinedInv.                             *)
LEMMA PwmInitKeeps ==
  ASSUME Disciplined, DisciplinedInv, NEW c \in Creator, NEW a \in InitArg,
         fault = "none", PWM_INIT(c, a)
  PROVE  DisciplinedInv'
<1>i. /\ TypeOK /\ ThreadInv /\ LifeInv /\ CountInv /\ CallsInv
      /\ NoDriverFault /\ CreatedIsWritable /\ HighOnlyInPulse
  BY Zenon DEF DisciplinedInv
<1>c. c \in Client
  BY SoftAssumption DEF SoftAssumption
<1>0. TypeOK'
  BY <1>i, <1>c, TypeUser, Zenon DEF user_step
<1>1. pc[c] = "user" /\ mod = "live" /\ pc[c] \notin InitPc
  BY <1>i, <1>c, Zenon DEF PWM_INIT, LifeInv, InitPc, FillPc
<1>2. \A d \in Client : pc[d] \notin InitPc
  BY <1>i, <1>c, <1>1, OneCreator, Zenon
<1>3. nTask = pwm_pin_count /\ pwm_pin_count \in Nat
  BY <1>i, <1>2, ZenonT(30) DEF CountInv, TypeOK
<1>4. nTask \in Tid /\ nTask \in Slot /\ ~(pwm_pin_count >= MAX_PWM_NUM)
  BY <1>i, <1>3, SoftAssumption DEF PWM_INIT, Disciplined, SoftAssumption, Tid, Slot, TypeOK
<1>5. /\ UNCHANGED <<devVars, arrayVars, stop, level, created, fault>>
      /\ pc' = [pc EXCEPT ![c] = "store"]
      /\ \/ /\ st' = [st EXCEPT ![nTask] = "new"]
            /\ pos' = [pos EXCEPT ![nTask] = nTask]
            /\ nTask' = nTask + 1
            /\ call' = [call EXCEPT ![c] = NewCall(a, nTask, nTask)]
         \/ /\ call' = [call EXCEPT ![c] = NewCall(a, nTask, ERR)]
            /\ UNCHANGED <<nTask, st, pos>>
  BY <1>3, <1>4, Zenon DEF PWM_INIT, Goto
<1>6. UNCHANGED <<mod, pwm_pin_count, duty_array, pwm_tsk>>
  BY <1>5, Zenon DEF devVars, arrayVars
<1>7. st[nTask] = "none"
  BY <1>i, <1>3, <1>4 DEF ThreadInv
<1>8. ThreadInv'
  <2>1. \A t \in Tid : IF t < nTask' THEN pos'[t] = t ELSE st'[t] = "none"
    <3>1. CASE UNCHANGED <<nTask, st, pos>>
      BY <1>i, <3>1, Zenon DEF ThreadInv
    <3>2. CASE /\ nTask' = nTask + 1
               /\ \A t \in Tid : IF t = nTask THEN pos'[t] = t
                                 ELSE pos'[t] = pos[t] /\ st'[t] = st[t]
      <4>1. \A t \in Tid : t < nTask' <=> t < nTask \/ t = nTask
        BY <1>3, <3>2 DEF Tid
      <4>2. QED
        BY <1>i, <3>2, <4>1, Zenon DEF ThreadInv
    <3>3. QED
      BY <1>i, <1>4, <1>5, <3>1, <3>2, Zenon DEF TypeOK
  <2>2. \A k \in 0 .. pwm_pin_count - 1 : k # nTask /\ st'[k] = st[k]
    <3>1. \A k \in 0 .. pwm_pin_count - 1 : k # nTask
      BY <1>3
    <3>2. \A k \in 0 .. pwm_pin_count - 1 : k \in Tid
      BY <1>i, Zenon DEF ThreadInv
    <3>3. \A k \in Tid : k # nTask => st'[k] = st[k]
      BY <1>i, <1>5, Zenon DEF TypeOK
    <3>4. QED
      BY <3>1, <3>2, <3>3, Zenon
  <2>3. QED
    BY <1>i, <1>6, <2>1, <2>2, Zenon DEF ThreadInv, GoodSlot
<1>9. LifeInv'
  BY <1>i, <1>1, <1>5, <1>6, LifeKept, ZenonT(60) DEF TypeOK
<1>10. AddingInv(c)'
  <2>1. /\ pc'[c] = "store" /\ mod' = "live" /\ pwm_pin_count' \in Slot
        /\ call'[c].arg = a /\ call'[c].ld = pwm_pin_count'
    <3>1. pc'[c] = "store"
      BY <1>i, <1>c, <1>5, PcUpdate, Zenon
    <3>2. DOMAIN call = Client
      BY <1>i, Zenon DEF TypeOK
    <3>3. call'[c] = NewCall(a, nTask, nTask) \/ call'[c] = NewCall(a, nTask, ERR)
      BY <1>c, <1>5, <3>2, Zenon
    <3>4. \A t \in {nTask, ERR} : NewCall(a, nTask, t).arg = a /\ NewCall(a, nTask, t).ld = nTask
      BY Zenon DEF NewCall
    <3>5. call'[c].arg = a /\ call'[c].ld = nTask
      BY <3>3, <3>4, Zenon
    <3>6. QED
      BY <1>1, <1>3, <1>4, <1>6, <3>1, <3>5, Zenon
  <2>2. \/ call'[c].tsk = ERR /\ nTask' = pwm_pin_count'
        \/ /\ call'[c].tsk = pwm_pin_count' /\ nTask' = pwm_pin_count' + 1
           /\ st'[pwm_pin_count'] = "new" /\ pwm_pin_count' \in Tid
    BY <1>i, <1>c, <1>3, <1>4, <1>5, <1>6 DEF NewCall, TypeOK
  <2>3. QED
    BY <2>1, <2>2, ZenonT(30) DEF AddingInv
<1>11. CallsInv'
  <2>1. pc'[c] = "store" /\ \A d \in Client : d # c => pc'[d] = pc[d]
    BY <1>i, <1>c, <1>5, PcUpdate, ZenonT(60)
  <2>2. \A d \in Client : d # c => call'[d] = call[d]
    <3>1. PICK r : call' = [call EXCEPT ![c] = r]
      BY <1>5, Zenon
    <3>2. QED
      BY <1>i, <1>c, <3>1, CallUpdated, Zenon
  <2>3. pwm_pin_count <= pwm_pin_count'
    BY <1>3, <1>6
  <2>4. QED
    BY <1>0, <1>6, <1>10, <2>1, <2>2, <2>3, CallsKept, Zenon
<1>12. CountInv'
  BY <1>i, <1>c, <1>5, Zenon DEF CountInv, InitPc, TypeOK
<1>13. HighOnlyInPulse'
  <2>1. \A t \in Tid : st[t] = "high" => st'[t] = "high" /\ pos'[t] = pos[t]
    BY <1>i, <1>4, <1>5, <1>7, Zenon DEF TypeOK
  <2>2. QED
    BY <1>i, <1>5, <1>6, <2>1, HighKept, Zenon
<1>14. NoDriverFault' /\ CreatedIsWritable'
  BY <1>i, <1>5, <1>6, Zenon DEF NoDriverFault, CreatedIsWritable
<1>15. QED
  BY <1>0, <1>8, <1>9, <1>11, <1>12, <1>13, <1>14, Zenon DEF DisciplinedInv

(* A step inside PWM_INIT that does not end the call and touches, of the   *)
(* shared state, only what the creator owns: entry pwm_pin_count of the    *)
(* arrays and a thread that is still new.                                  *)
LEMMA OwnedStep ==
  ASSUME Disciplined, DisciplinedInv, TypeOK', fault' = fault,
         NEW c \in Client, pc[c] \in InitPc, pc'[c] \in InitPc, AddingInv(c)',
         UNCHANGED <<devVars, pwm_pin_count, nTask, pos, stop, level, created>>,
         \A d \in Client : d # c => pc'[d] = pc[d] /\ call'[d] = call[d],
         \A k \in 0 .. pwm_pin_count - 1 : duty_array'[k] = duty_array[k] /\ pwm_tsk'[k] = pwm_tsk[k],
         \A t \in Tid : st'[t] = st[t] \/ (st[t] = "new" /\ st'[t] = "loop"),
         st[pwm_pin_count] \in {"loop", "set", "high"} => duty_array' = duty_array
  PROVE  DisciplinedInv'
<1>i. /\ TypeOK /\ ThreadInv /\ LifeInv /\ CountInv /\ CallsInv
      /\ NoDriverFault /\ CreatedIsWritable /\ HighOnlyInPulse
  BY Zenon DEF DisciplinedInv
<1>1. AddingInv(c) /\ c \in Creator /\ mod = "live" /\ mod' = mod /\ pwm_pin_count \in Nat
  BY <1>i, ZenonT(60) DEF CallsInv, AddingInv, devVars, TypeOK
<1>2. \A t \in Tid : st[t] = "new" => t < nTask
  BY <1>i, ZenonT(60) DEF ThreadInv
<1>3. ThreadInv'
  BY <1>i, <1>2 DEF ThreadInv, TypeOK
<1>4. LifeInv'
  BY <1>i, <1>1, LifeKept, ZenonT(60)
<1>5. CallsInv'
  <2>1. pc'[c] \notin {"scan", "duty"}
    BY Zenon DEF InitPc, FillPc
  <2>2. pwm_pin_count <= pwm_pin_count'
    BY <1>1
  <2>3. \A k \in 0 .. pwm_pin_count - 1 : duty_array'[k].pin = duty_array[k].pin
    BY Zenon
  <2>4. QED
    BY <1>1, <2>1, <2>2, <2>3, CallsKept, Zenon
<1>6. CountInv'
  BY <1>i, Zenon DEF CountInv
<1>7. HighOnlyInPulse'
  <2>1. ASSUME NEW t \in Tid, st[t] = "high"
        PROVE  duty_array'[pos[t]] = duty_array[pos[t]]
    <3>1. pos[t] = t /\ t \in Slot /\ t < nTask /\ t \in Nat
      BY <1>i, <2>1, RunningThread DEF ThreadInv, Slot
    <3>2. t < pwm_pin_count \/ t = pwm_pin_count
      <4>1. nTask = pwm_pin_count \/ nTask = pwm_pin_count + 1
        BY <1>1, ZenonT(60) DEF AddingInv
      <4>2. QED
        BY <1>1, <3>1, <4>1
    <3>3. QED
      BY <1>1, <2>1, <3>1, <3>2
  <2>2. QED
    BY <1>i, <2>1, HighKept, Zenon
<1>8. NoDriverFault' /\ CreatedIsWritable'
  <2>1. NoDriverFault'
    BY <1>i, Zenon DEF NoDriverFault
  <2>2. \A k \in 0 .. pwm_pin_count - 1 : duty_array'[k].pin = duty_array[k].pin
    BY Zenon
  <2>3. pwm_pin_count' \in Nat /\ pwm_pin_count <= pwm_pin_count' /\ created' = created
    BY <1>1
  <2>4. QED
    BY <1>i, <1>1, <2>1, <2>2, <2>3, CreatedKept, Zenon
<1>9. QED
  BY <1>3, <1>4, <1>5, <1>6, <1>7, <1>8, Zenon DEF DisciplinedInv

(* Every step of PWM_INIT after its start keeps DisciplinedInv.            *)
LEMMA InitStepKeeps ==
  ASSUME Disciplined, DisciplinedInv, NEW c \in Client, fault = "none", init_step(c)
  PROVE  DisciplinedInv'
<1>i. /\ TypeOK /\ ThreadInv /\ LifeInv /\ CountInv /\ CallsInv
      /\ NoDriverFault /\ CreatedIsWritable /\ HighOnlyInPulse
  BY Zenon DEF DisciplinedInv
<1> DEFINE n == pwm_pin_count
<1>0. TypeOK'
  BY <1>i, TypeIoctl, Zenon
<1>1. pc[c] \in InitPc
  BY Zenon DEF init_step, init_store, init_check, init_undo, init_fill, Fill, init_print, init_wake,
     init_load, init_incr, InitPc, FillPc
<1>2. AddingInv(c)
  BY <1>i, <1>1, Zenon DEF CallsInv
<1>3. /\ call[c].ld = n /\ n \in Slot /\ n \in Nat /\ mod = "live" /\ c \in Creator
      /\ "duty_array" \in held /\ "pwm_tsk" \in held
  BY <1>i, <1>2, Zenon DEF AddingInv, LifeInv, TypeOK
<1>4. Hit("pwm_tsk", n) = "none" /\ Hit("duty_array", n) = "none"
  BY <1>3, Zenon DEF Hit
<1>5. \A k \in 0 .. n - 1 : k # n /\ k \in Slot
  BY <1>i, <1>3 DEF ThreadInv
<1>e. ERR \notin Tid /\ NULL \notin Tid /\ n # ERR
  BY <1>3, SoftAssumption DEF SoftAssumption, Tid
<1>6. CASE init_store(c)
  <2>1. /\ pwm_tsk' = [pwm_tsk EXCEPT ![n] = call[c].tsk]
        /\ pc' = [pc EXCEPT ![c] = "check"] /\ pc[c] = "store"
        /\ UNCHANGED <<created, call, n, duty_array, fault, devVars, taskVars, level>>
    BY <1>3, <1>4, <1>6, Zenon DEF init_store, Goto
  <2>2. AddingInv(c)'
    BY <1>i, <1>2, <1>3, <2>1, ZenonT(60) DEF AddingInv, TypeOK, devVars, taskVars
  <2>3. pc'[c] \in InitPc
    BY <1>i, <2>1, Zenon DEF InitPc, TypeOK
  <2>4. QED
    BY <1>i, <1>0, <1>1, <1>5, <2>1, <2>2, <2>3, OwnedStep, ZenonT(60) DEF TypeOK, taskVars
<1>7. CASE init_check(c)
  <2>1. /\ pc[c] = "check"
        /\ pc' = [pc EXCEPT ![c] = IF call[c].tsk = ERR THEN "undo" ELSE "fill_pin"]
        /\ UNCHANGED <<created, call, fault, devVars, arrayVars, taskVars, level>>
    BY <1>2, <1>3, <1>7, ZenonT(60) DEF init_check, Goto, AddingInv
  <2>2. AddingInv(c)'
    BY <1>i, <1>2, <1>3, <1>e, <2>1, ZenonT(60) DEF AddingInv, TypeOK, devVars, taskVars, arrayVars
  <2>3. pc'[c] \in InitPc
    BY <1>i, <2>1, Zenon DEF InitPc, FillPc, TypeOK
  <2>4. QED
    BY <1>i, <1>0, <1>1, <2>1, <2>2, <2>3, OwnedStep, ZenonT(60) DEF TypeOK, taskVars, arrayVars
<1>8. CASE init_print(c)
  <2>1. /\ pc[c] = "print" /\ pc' = [pc EXCEPT ![c] = "wake"]
        /\ call'[c] = call[c] /\ \A d \in Client : d # c => call'[d] = call[d]
        /\ UNCHANGED <<created, fault, devVars, arrayVars, taskVars, level>>
    BY <1>i, <1>3, <1>8, Zenon DEF init_print, Goto, TypeOK, CallRecord
  <2>2. AddingInv(c)'
    BY <1>i, <1>2, <1>3, <2>1, ZenonT(60) DEF AddingInv, TypeOK, devVars, taskVars, arrayVars
  <2>3. pc'[c] \in InitPc
    BY <1>i, <2>1, Zenon DEF InitPc, TypeOK
  <2>4. QED
    BY <1>i, <1>0, <1>1, <2>1, <2>2, <2>3, OwnedStep, Zenon DEF TypeOK, taskVars, arrayVars
<1>9. CASE init_load(c)
  <2>1. /\ pc[c] = "load" /\ pc' = [pc EXCEPT ![c] = "incr"]
        /\ call'[c] = call[c] /\ \A d \in Client : d # c => call'[d] = call[d]
        /\ UNCHANGED <<created, fault, devVars, arrayVars, taskVars, level>>
    BY <1>i, <1>3, <1>9, Zenon DEF init_load, Goto, TypeOK, CallRecord
  <2>2. AddingInv(c)'
    BY <1>i, <1>2, <1>3, <2>1, ZenonT(60) DEF AddingInv, TypeOK, devVars, taskVars, arrayVars
  <2>3. pc'[c] \in InitPc
    BY <1>i, <2>1, Zenon DEF InitPc, TypeOK
  <2>4. QED
    BY <1>i, <1>0, <1>1, <2>1, <2>2, <2>3, OwnedStep, Zenon DEF TypeOK, taskVars, arrayVars
<1>10. CASE init_wake(c)
  <2>1. pc[c] = "wake" /\ pwm_tsk[n] = n /\ n \in Tid /\ st[n] = "new"
    BY <1>2, <1>3, <1>10, ZenonT(60) DEF init_wake, AddingInv
  <2>2. /\ st' = [st EXCEPT ![n] = "loop"] /\ pc' = [pc EXCEPT ![c] = "load"]
        /\ UNCHANGED <<created, call, nTask, pos, stop, fault, devVars, arrayVars, level>>
    BY <1>i, <1>3, <1>10, <2>1, Zenon DEF init_wake, Goto, TypeOK
  <2>3. AddingInv(c)'
    BY <1>i, <1>2, <1>3, <2>1, <2>2, ZenonT(60) DEF AddingInv, TypeOK, devVars, arrayVars
  <2>4. pc'[c] \in InitPc
    BY <1>i, <2>2, Zenon DEF InitPc, TypeOK
  <2>5. QED
    BY <1>i, <1>0, <1>1, <2>1, <2>2, <2>3, <2>4, OwnedStep, ZenonT(60) DEF TypeOK, arrayVars
<1>11. CASE init_fill(c)
  <2>1. /\ \E s \in SlotOf(Pin) : duty_array' = [duty_array EXCEPT ![n] = s]
        /\ pc[c] \in FillPc /\ pc'[c] \in InitPc
        /\ \A d \in Client : d # c => pc'[d] = pc[d]
        /\ UNCHANGED <<created, call, n, pwm_tsk, fault, devVars, taskVars, level>>
    BY <1>i, <1>0, <1>3, <1>4, <1>11 DEF init_fill, Fill, Goto, TypeOK, InitPc, FillPc
  <2>2. duty_array[n] \in SlotOf(Pin) /\ call[c].arg \in SlotOf(Pin)
    BY <1>i, <1>3, Zenon DEF TypeOK, CallRecord
  <2>3. call[c].tsk = n /\ n \in Tid /\ st[n] = "new"
    BY <1>2, <2>1, Zenon DEF AddingInv, FillPc
  <2>4. AddingInv(c)'
    <3>1. CASE pc[c] = "fill_pin"
      <4>1. pc'[c] = "fill_min" /\ duty_array'[n].pin = call[c].arg.pin
        BY <1>i, <1>3, <1>4, <1>11, <2>2, <3>1 DEF init_fill, Fill, Goto, TypeOK, SlotOf
      <4>2. QED
        BY <1>2, <2>1, <2>3, <3>1, <4>1, Zenon DEF AddingInv, devVars, taskVars
    <3>2. CASE pc[c] = "fill_min"
      <4>1. /\ pc'[c] = "fill_max" /\ duty_array'[n].pin = duty_array[n].pin
            /\ duty_array'[n].min = call[c].arg.min
        BY <1>i, <1>3, <1>4, <1>11, <2>2, <3>2 DEF init_fill, Fill, Goto, TypeOK, SlotOf
      <4>2. QED
        BY <1>2, <2>1, <2>3, <3>2, <4>1, Zenon DEF AddingInv, devVars, taskVars
    <3>3. CASE pc[c] = "fill_max"
      <4>1. /\ pc'[c] = "fill_duty" /\ duty_array'[n].pin = duty_array[n].pin
            /\ duty_array'[n].min = duty_array[n].min
            /\ duty_array'[n].max = call[c].arg.max
        BY <1>i, <1>3, <1>4, <1>11, <2>2, <3>3 DEF init_fill, Fill, Goto, TypeOK, SlotOf
      <4>2. QED
        BY <1>2, <2>1, <2>3, <3>3, <4>1, Zenon DEF AddingInv, devVars, taskVars
    <3>4. CASE pc[c] = "fill_duty"
      <4>1. /\ pc'[c] = "print" /\ duty_array'[n].pin = duty_array[n].pin
            /\ duty_array'[n].min = duty_array[n].min
            /\ duty_array'[n].max = duty_array[n].max
            /\ duty_array'[n].duty_cycle = 0
        BY <1>i, <1>3, <1>4, <1>11, <2>2, <3>4 DEF init_fill, Fill, Goto, TypeOK, SlotOf
      <4>2. 0 \in 0 .. call[c].arg.max - call[c].arg.min
        <5>1. call[c].arg.max \in Int /\ call[c].arg.min \in Int
          BY <2>2, Zenon DEF SlotOf
        <5>2. 0 < call[c].arg.max - call[c].arg.min
          BY <1>2, Zenon DEF AddingInv, Disciplined
        <5>3. QED
          BY <5>1, <5>2
      <4>3. QED
        BY <1>2, <2>1, <2>3, <3>4, <4>1, <4>2, Zenon DEF AddingInv, devVars, taskVars
    <3>5. QED
      BY <2>1, <3>1, <3>2, <3>3, <3>4, ZenonT(60) DEF FillPc
  <2>5. QED
    BY <1>i, <1>0, <1>1, <1>5, <2>1, <2>3, <2>4, OwnedStep, ZenonT(60) DEF TypeOK, taskVars
<1>12. CASE init_undo(c)
  <2>1. /\ pwm_tsk' = [pwm_tsk EXCEPT ![n] = NULL]
        /\ pc' = [pc EXCEPT ![c] = "user"] /\ call' = [call EXCEPT ![c] = NoCall] /\ pc[c] = "undo"
        /\ UNCHANGED <<created, n, duty_array, fault, devVars, taskVars, level>>
    BY <1>3, <1>12, Zenon DEF init_undo, Return
  <2>2. ThreadInv' /\ LifeInv' /\ HighOnlyInPulse'
    BY <1>i, <1>3, <1>5, <2>1, LifeKept, HighKept DEF ThreadInv, GoodSlot, TypeOK, taskVars
  <2>3. CountInv'
    BY <1>i, <1>2, <2>1, Zenon DEF CountInv, AddingInv, taskVars
  <2>4. CallsInv'
    <3>1. pc'[c] = "user" /\ "user" \notin InitPc
      BY <1>i, <2>1, Zenon DEF TypeOK, InitPc, FillPc
    <3>2. QED
      BY <1>0, <1>3, <2>1, <3>1, CallsKept DEF devVars
  <2>5. NoDriverFault' /\ CreatedIsWritable'
    BY <1>i, <2>1, Zenon DEF NoDriverFault, CreatedIsWritable
  <2>6. QED
    BY <1>0, <2>2, <2>3, <2>4, <2>5, Zenon DEF DisciplinedInv
<1>13. CASE init_incr(c)
  <2>1. /\ pwm_pin_count' = n + 1 /\ pc[c] = "incr"
        /\ created' = created \union {call[c].arg.pin}
        /\ pc' = [pc EXCEPT ![c] = "user"] /\ call' = [call EXCEPT ![c] = NoCall]
        /\ UNCHANGED <<pwm_tsk, duty_array, fault, devVars, taskVars, level>>
    BY <1>3, <1>13, Zenon DEF init_incr, Return
  <2>2. /\ nTask = n + 1 /\ pwm_tsk[n] = n /\ n \in Tid /\ st[n] \in {"loop", "set", "high"}
        /\ duty_array[n].pin = call[c].arg.pin /\ GoodSlot(duty_array[n])
    BY <1>2, <2>1, ZenonT(60) DEF AddingInv, GoodSlot
  <2>3. ThreadInv'
    <3>1. UNCHANGED <<nTask, st, pos>>
      BY <2>1, Zenon DEF taskVars
    <3>2. \A k \in 0 .. n : k = n \/ k \in 0 .. n - 1
      BY <1>3
    <3>3. \A k \in 0 .. n :
            /\ k \in Slot /\ k \in Tid /\ pwm_tsk[k] = k
            /\ st[k] \in {"loop", "set", "high", "exited"}
            /\ GoodSlot(duty_array[k])
      BY <1>i, <1>3, <2>2, <3>2, ZenonT(30) DEF ThreadInv
    <3>4. 0 .. pwm_pin_count' - 1 = 0 .. n
      BY <1>3, <2>1
    <3>5. QED
      BY <1>i, <2>1, <3>1, <3>3, <3>4, ZenonT(60) DEF ThreadInv, GoodSlot
  <2>4. LifeInv'
    BY <1>i, <1>3, <2>1 DEF LifeInv, devVars, taskVars, TypeOK
  <2>5. CountInv'
    BY <1>i, <2>1, <2>2, ZenonT(60) DEF CountInv, taskVars
  <2>6. CallsInv'
    <3>1. pc'[c] = "user" /\ "user" \notin InitPc
      BY <1>i, <2>1, Zenon DEF TypeOK, InitPc, FillPc
    <3>2. QED
      BY <1>0, <1>3, <2>1, <3>1, CallsKept DEF devVars
  <2>7. CreatedIsWritable'
    <3> SUFFICES ASSUME NEW p \in created'
                 PROVE  \E k \in Slot : k < n + 1 /\ duty_array[k].pin = p
      BY <1>i, <2>1, Zenon DEF CreatedIsWritable
    <3>1. CASE p = call[c].arg.pin
      BY <1>3, <2>2, <3>1
    <3>2. CASE p \in created
      <4>1. PICK k \in Slot : k < n /\ duty_array[k].pin = p
        BY <1>i, <3>2, Zenon DEF CreatedIsWritable
      <4>2. k < n + 1
        BY <1>3, <4>1 DEF Slot
      <4>3. QED
        BY <4>1, <4>2, Zenon
    <3>3. QED
      BY <2>1, <3>1, <3>2, ZenonT(60)
  <2>8. NoDriverFault' /\ HighOnlyInPulse'
    BY <1>i, <2>1, HighKept, Zenon DEF NoDriverFault, taskVars
  <2>9. QED
    BY <1>0, <2>3, <2>4, <2>5, <2>6, <2>7, <2>8, Zenon DEF DisciplinedInv
<1>14. QED
  BY <1>6, <1>7, <1>8, <1>9, <1>10, <1>11, <1>12, <1>13, Zenon DEF init_step

-----------------------------------------------------------------------------
(* Together: DisciplinedInv is inductive.                                  *)
LEMMA DisciplinedStep ==
  ASSUME Disciplined, DisciplinedInv, [Next]_vars
  PROVE  DisciplinedInv'
<1>1. CASE Next
  <2>1. fault = "none"
    BY <1>1 DEF Next
  <2>2. ASSUME NEW c \in Client, user_step(c)
        PROVE  DisciplinedInv'
    <3>1. CASE c \in Creator /\ \E a \in InitArg : PWM_INIT(c, a)
      BY <2>1, <3>1, PwmInitKeeps
    <3>2. CASE ~(c \in Creator /\ \E a \in InitArg : PWM_INIT(c, a))
      BY <2>1, <2>2, <3>2, UserKeeps, Zenon
    <3>3. QED
      BY <3>1, <3>2, Zenon
  <2>3. QED
    BY <1>1, <2>1, <2>2, ModuleKeeps, TaskKeeps, InitStepKeeps, SetKeeps, Zenon DEF Next
<1>2. CASE UNCHANGED vars
  <2>1. UNCHANGED <<devVars, arrayVars, taskVars, level, clientVars, fault>>
    BY <1>2, Zenon DEF vars
  <2>2. TypeOK' /\ NoDriverFault'
    BY <2>1, Zenon DEF DisciplinedInv, TypeOK, NoDriverFault, devVars, arrayVars, taskVars, clientVars
  <2>3. QED
    BY <2>1, <2>2, NothingRead, Zenon DEF devVars, arrayVars, taskVars, clientVars
<1>3. QED
  BY <1>1, <1>2, Zenon

(* So it always holds.                                                     *)
LEMMA DisciplinedAlways ==
  ASSUME Disciplined
  PROVE  Spec => []DisciplinedInv
<1>1. Init => DisciplinedInv
  BY DisciplinedInit, Zenon
<1>2. DisciplinedInv /\ [Next]_vars => DisciplinedInv'
  BY DisciplinedStep, Zenon
<1>3. QED
  BY <1>1, <1>2, PTL DEF Spec

(* With disciplined users no interleaving of pwm_ioctl, pwm_task and       *)
(* pwm_exit indexes past an array, follows a bad pointer, divides by zero  *)
(* or runs freed code.                                                     *)
THEOREM DriverNeverFaults ==
  ASSUME Disciplined
  PROVE  Spec => []NoDriverFault
<1>1. DisciplinedInv => NoDriverFault
  BY Zenon DEF DisciplinedInv
<1>2. QED
  BY <1>1, DisciplinedAlways, PTL

(* With disciplined users every thread has ended when pwm_exit unmaps the  *)
(* registers.                                                              *)
THEOREM UnloadIsQuiet ==
  ASSUME Disciplined
  PROVE  Spec => []QuietAfterUnload
<1>1. DisciplinedInv => QuietAfterUnload
  BY DEF DisciplinedInv, QuietAfterUnload, ThreadInv, LifeInv, CountInv, InitPc, FillPc,
     TypeOK, Tid
<1>2. QED
  BY <1>1, DisciplinedAlways, PTL

(* With disciplined users a pin that only PWM drives is high only during   *)
(* the high half of some thread's period.                                  *)
THEOREM PinsFallWithThreads ==
  ASSUME Disciplined
  PROVE  Spec => []HighOnlyInPulse
<1>1. DisciplinedInv => HighOnlyInPulse
  BY Zenon DEF DisciplinedInv
<1>2. QED
  BY <1>1, DisciplinedAlways, PTL

(* With disciplined users PWM_SET finds every pin that PWM_INIT accepted.  *)
THEOREM CreatedStaysWritable ==
  ASSUME Disciplined
  PROVE  Spec => []CreatedIsWritable
<1>1. DisciplinedInv => CreatedIsWritable
  BY Zenon DEF DisciplinedInv
<1>2. QED
  BY <1>1, DisciplinedAlways, PTL

(* With disciplined users every sleep of pwm_task is between nothing and   *)
(* one period, for any period, ranges and duty cycles that fit an int.     *)
THEOREM SleepsStayBounded ==
  ASSUME Disciplined
  PROVE  Spec => []SleepsBounded
<1>1. DisciplinedInv => SleepsBounded
  <2> SUFFICES ASSUME DisciplinedInv, NEW t \in Tid, st[t] \in {"loop", "set", "high"}
               PROVE  /\ soft_HIGH_TIME(duty_array[pos[t]]) \in 0 .. PERIOD
                      /\ soft_LOW_TIME(duty_array[pos[t]]) \in 0 .. PERIOD
    BY Zenon DEF SleepsBounded
  <2>1. pos[t] \in Slot /\ GoodSlot(duty_array[pos[t]])
    BY RunningThread, Zenon
  <2>2. duty_array[pos[t]] \in SlotOf(Pin)
    BY <2>1, Zenon DEF DisciplinedInv, TypeOK
  <2>3. InRange(duty_array[pos[t]])
    BY <2>1, <2>2, GoodInRange, Zenon
  <2>4. QED
    BY <2>2, <2>3, SoftTimes, Zenon
<1>2. QED
  BY <1>1, DisciplinedAlways, PTL

(* A step keeps what is published.                                         *)
LEMMA StableAlways ==
  ASSUME Disciplined, DisciplinedInv, [Next]_vars
  PROVE  [StableStep]_vars
<1>i. /\ TypeOK /\ ThreadInv /\ LifeInv /\ CountInv /\ CallsInv
      /\ NoDriverFault /\ CreatedIsWritable /\ HighOnlyInPulse
  BY DEF DisciplinedInv
<1> SUFFICES StableStep \/ UNCHANGED vars
  BY Zenon
<1>1. ASSUME UNCHANGED arrayVars
      PROVE  StableStep
  BY <1>1, Zenon DEF StableStep, arrayVars
<1>2. CASE module_step
  BY <1>1, <1>2, Zenon DEF module_step, pwm_init, pwm_exit, exit_stop, exit_wait, exit_unmap,
     exit_release, Oops
<1>3. ASSUME NEW t \in Tid, task_step(t)
      PROVE  StableStep
  BY <1>1, <1>3, ZenonT(60) DEF task_step, task_loop, task_set, task_clr, task_text, Half, Oops
<1>4. ASSUME NEW c \in Client, user_step(c)
      PROVE  StableStep
  BY <1>1, <1>4, Zenon DEF user_step, open, close, ioctl_other, GPIO_SET, PWM_SET, PWM_INIT, Oops
<1>5. ASSUME NEW c \in Client, set_step(c) \/ reload(c)
      PROVE  StableStep
  <2>1. CASE set_scan(c) \/ reload(c)
    BY <1>1, <2>1, Zenon DEF set_scan, reload
  <2>2. CASE set_duty(c)
    BY <1>i, <2>2 DEF set_duty, StableStep, TypeOK, SlotOf
  <2>3. QED
    BY <1>5, <2>1, <2>2, Zenon DEF set_step
<1>6. ASSUME NEW c \in Client, init_step(c)
      PROVE  StableStep
  <2>1. pc[c] \in InitPc
    BY <1>6, Zenon DEF init_step, init_store, init_check, init_undo, init_fill, Fill, init_print,
       init_wake, init_load, init_incr, InitPc, FillPc
  <2>2. call[c].ld = pwm_pin_count /\ pwm_pin_count \in Nat
    <3>1. AddingInv(c)
      BY <1>i, <2>1 DEF CallsInv
    <3>2. QED
      BY <1>i, <3>1, Zenon DEF AddingInv, TypeOK
  <2>3. CASE init_check(c) \/ init_print(c) \/ init_wake(c) \/ init_load(c)
    BY <1>1, <2>3, Zenon DEF init_check, init_print, init_wake, init_load, Oops
  <2>a. \A k \in Slot : k < pwm_pin_count => k # pwm_pin_count /\ k < pwm_pin_count + 1
    BY <2>2 DEF Slot
  <2>4. CASE init_store(c) \/ init_undo(c)
    <3>1. /\ UNCHANGED <<pwm_pin_count, duty_array>>
          /\ \A k \in Slot : k # pwm_pin_count => pwm_tsk'[k] = pwm_tsk[k]
      BY <1>i, <2>2, <2>4, Zenon DEF init_store, init_undo, Oops, TypeOK, arrayVars
    <3>2. QED
      BY <2>a, <3>1, Zenon DEF StableStep
  <2>5. CASE init_fill(c)
    <3>1. /\ UNCHANGED <<pwm_pin_count, pwm_tsk>>
          /\ \A k \in Slot : k # pwm_pin_count => duty_array'[k] = duty_array[k]
      BY <1>i, <2>2, <2>5, Zenon DEF init_fill, Fill, Oops, TypeOK, arrayVars
    <3>2. QED
      BY <2>a, <3>1, Zenon DEF StableStep
  <2>6. CASE init_incr(c)
    <3>1. pwm_pin_count' = pwm_pin_count + 1 /\ UNCHANGED <<duty_array, pwm_tsk>>
      BY <2>2, <2>6, Zenon DEF init_incr
    <3>2. QED
      BY <2>a, <3>1 DEF StableStep
  <2>7. QED
    BY <1>6, <2>3, <2>4, <2>5, <2>6, Zenon DEF init_step
<1>7. QED
  BY <1>2, <1>3, <1>4, <1>5, <1>6, Zenon DEF Next

(* With disciplined users no step takes an entry below pwm_pin_count away  *)
(* from its thread or changes its pin or range.                            *)
THEOREM PublishedStaysStable ==
  ASSUME Disciplined
  PROVE  Spec => PublishedIsStable
<1>1. DisciplinedInv /\ [Next]_vars => [StableStep]_vars
  BY StableAlways, Zenon
<1>2. QED
  BY <1>1, DisciplinedAlways, PTL DEF Spec, PublishedIsStable

-----------------------------------------------------------------------------
(* A step of PWM_INIT is made at one of its control points.                *)
LEMMA InitAt ==
  ASSUME NEW c \in Client, init_step(c)
  PROVE  pc[c] \in InitPc
  BY Zenon DEF init_step, init_store, init_check, init_undo, init_fill, Fill, init_print,
     init_wake, init_load, init_incr, InitPc, FillPc

(* Only the command of one client touches that client.                     *)
LEMMA OtherClients ==
  ASSUME TypeOK, NEW d \in Client, user_step(d) \/ init_step(d) \/ set_step(d) \/ reload(d)
  PROVE  \A c \in Client : c # d => pc'[c] = pc[c] /\ call'[c] = call[c] /\ ret'[c] = ret[c]
<1> DEFINE Moves(f) == f' = f \/ \E v : f' = [f EXCEPT ![d] = v]
<1>1. Moves(pc) /\ Moves(call) /\ Moves(ret)
  <2>1. ASSUME NEW f, Oops(f) PROVE Moves(pc) /\ Moves(call) /\ Moves(ret)
    BY <2>1, Zenon DEF Oops, clientVars
  <2>2. ASSUME NEW l, Goto(d, l), call' = call \/ \E v : call' = [call EXCEPT ![d] = v]
        PROVE  Moves(pc) /\ Moves(call) /\ Moves(ret)
    BY <2>2, Zenon DEF Goto
  <2>3. ASSUME NEW r, Return(d, r) PROVE Moves(pc) /\ Moves(call) /\ Moves(ret)
    BY <2>3, Zenon DEF Return
  <2>4. CASE user_step(d)
    <3>1. CASE open(d) \/ close(d) \/ ioctl_other(d)
      BY <2>1, <2>3, <3>1, Zenon DEF open, close, ioctl_other
    <3>2. ASSUME NEW g, GPIO_SET(d, g[1], g[2]) PROVE Moves(pc) /\ Moves(call) /\ Moves(ret)
      BY <2>1, <2>3, <3>2, Zenon DEF GPIO_SET
    <3>3. ASSUME NEW a, PWM_SET(d, a) \/ PWM_INIT(d, a) PROVE Moves(pc) /\ Moves(call) /\ Moves(ret)
      BY <2>1, <2>2, <3>3, Zenon DEF PWM_SET, PWM_INIT
    <3>4. QED
      BY <2>4, <3>1, <3>2, <3>3, Zenon DEF user_step
  <2>5. CASE init_step(d)
    <3>1. CASE init_store(d) \/ init_check(d) \/ init_undo(d)
      BY <2>1, <2>2, <2>3, <3>1, Zenon DEF init_store, init_check, init_undo
    <3>2. CASE init_fill(d)
      BY <2>1, <2>2, <3>2, Zenon DEF init_fill, Fill
    <3>3. CASE init_print(d) \/ init_wake(d)
      BY <2>1, <2>2, <3>3, Zenon DEF init_print, init_wake
    <3>4. CASE init_load(d) \/ init_incr(d)
      BY <2>1, <2>2, <2>3, <3>4, Zenon DEF init_load, init_incr
    <3>5. QED
      BY <2>5, <3>1, <3>2, <3>3, <3>4, Zenon DEF init_step
  <2>6. CASE set_step(d) \/ reload(d)
    BY <2>2, <2>3, <2>6, Zenon DEF set_step, set_scan, set_duty, reload, clientVars
  <2>7. QED
    BY <2>4, <2>5, <2>6, Zenon
<1>2. QED
  BY <1>1, Zenon DEF TypeOK

(* The pins whose PWM_INIT returned 0 are never forgotten.                 *)
LEMMA CreatedGrows ==
  ASSUME [Next]_vars
  PROVE  created \subseteq created'
<1>1. CASE UNCHANGED vars
  BY <1>1, Zenon DEF vars, clientVars
<1>2. CASE module_step
  BY <1>2, Zenon DEF module_step, pwm_init, pwm_exit, exit_stop, exit_wait, exit_unmap, exit_release,
     Oops, clientVars
<1>3. ASSUME NEW t \in Tid, task_step(t) PROVE created \subseteq created'
  BY <1>3, Zenon DEF task_step, task_loop, task_set, task_clr, task_text, Half, Oops, clientVars
<1>4. ASSUME NEW c \in Client, user_step(c) PROVE created \subseteq created'
  BY <1>4, Zenon DEF user_step, open, close, ioctl_other, GPIO_SET, PWM_SET, PWM_INIT, Goto, Oops, clientVars
<1>5. ASSUME NEW c \in Client, set_step(c) \/ reload(c) PROVE created \subseteq created'
  BY <1>5, Zenon DEF set_step, set_scan, set_duty, reload, Goto, clientVars
<1>6. ASSUME NEW c \in Client, init_step(c) PROVE created \subseteq created'
  BY <1>6, Zenon DEF init_step, init_store, init_check, init_undo, init_fill, Fill, init_print,
     init_wake, init_load, init_incr, Goto, Oops, clientVars
<1>7. QED
  BY <1>1, <1>2, <1>3, <1>4, <1>5, <1>6, Zenon DEF Next

(* Only PWM_SET changes the duty cycle of a counted entry, and only to the *)
(* one it was given for the pin of that entry.                             *)
LEMMA DutyStep ==
  ASSUME Disciplined, DisciplinedInv, [Next]_vars, NEW k \in Slot, k < pwm_pin_count
  PROVE  \/ duty_array'[k] = duty_array[k]
         \/ \E b \in SetArg : b.pin = duty_array[k].pin /\ duty_array'[k].duty_cycle = b.duty_cycle
<1>i. TypeOK /\ CallsInv
  BY Zenon DEF DisciplinedInv
<1>1. CASE UNCHANGED vars
  BY <1>1, Zenon DEF vars, arrayVars
<1>2. CASE module_step
  BY <1>2, Zenon DEF module_step, pwm_init, pwm_exit, exit_stop, exit_wait, exit_unmap, exit_release,
     Oops, arrayVars
<1>3. ASSUME NEW t \in Tid, task_step(t) PROVE duty_array'[k] = duty_array[k]
  BY <1>3, Zenon DEF task_step, task_loop, task_set, task_clr, task_text, Half, Oops, arrayVars
<1>4. ASSUME NEW c \in Client, user_step(c) PROVE duty_array'[k] = duty_array[k]
  BY <1>4, Zenon DEF user_step, open, close, ioctl_other, GPIO_SET, PWM_SET, PWM_INIT, Oops, arrayVars
<1>5. ASSUME NEW c \in Client, init_step(c) PROVE duty_array'[k] = duty_array[k]
  <2>1. CASE init_fill(c)
    <3>1. pc[c] \in InitPc
      BY <2>1, Zenon DEF init_fill, Fill, InitPc, FillPc
    <3>2. call[c].ld = pwm_pin_count /\ k # pwm_pin_count
      <4>1. call[c].ld = pwm_pin_count
        BY <1>i, <3>1, Zenon DEF CallsInv, AddingInv
      <4>2. ~(pwm_pin_count < pwm_pin_count)
        BY <1>i DEF TypeOK
      <4>3. QED
        BY <4>1, <4>2, Zenon
    <3>3. QED
      BY <1>i, <2>1, <3>2, Zenon DEF init_fill, Fill, Oops, arrayVars, TypeOK
  <2>2. QED
    BY <1>5, <2>1, Zenon DEF init_step, init_store, init_check, init_undo, init_print, init_wake,
       init_load, init_incr, Oops, arrayVars
<1>6. ASSUME NEW c \in Client, set_scan(c) \/ reload(c) PROVE duty_array'[k] = duty_array[k]
  BY <1>6, Zenon DEF set_scan, reload, arrayVars
<1>7. ASSUME NEW c \in Client, set_duty(c), duty_array'[k] # duty_array[k]
      PROVE  \E b \in SetArg : b.pin = duty_array[k].pin /\ duty_array'[k].duty_cycle = b.duty_cycle
  <2>1. call[c].arg \in SetArg /\ duty_array[call[c].idx].pin = call[c].arg.pin
    BY <1>i, <1>7, Zenon DEF CallsInv, SettingInv, set_duty
  <2>2. duty_array \in [Slot -> SlotOf(Pin)]
    BY <1>i, Zenon DEF TypeOK
  <2>3. k = call[c].idx /\ duty_array'[k].duty_cycle = call[c].arg.duty_cycle
    BY <1>7, <2>2, Zenon DEF set_duty, SlotOf
  <2>4. QED
    BY <2>1, <2>3, Zenon
<1>8. QED
  BY <1>1, <1>2, <1>3, <1>4, <1>5, <1>6, <1>7, Zenon DEF Next, set_step

-----------------------------------------------------------------------------
(* What a step of one client does to the abstract clients.                 *)
LEMMA ClientMaps ==
  ASSUME TypeOK, NEW c \in Client, NEW l, NEW r,
         pc' = [pc EXCEPT ![c] = l], call' = [call EXCEPT ![c] = r]
  PROVE  /\ opBar' = [opBar EXCEPT ![c] = OpOf(l)]
         /\ argBar' = [argBar EXCEPT ![c] = r.arg]
         /\ seenBar' = [seenBar EXCEPT ![c] = IF l \in {"scan", "duty"} THEN r.ld ELSE 0]
  BY Zenon DEF TypeOK, opBar, argBar, seenBar

(* A step that leaves the clients alone leaves the abstract ones alone.    *)
LEMMA ClientsSame ==
  ASSUME pc' = pc, call' = call
  PROVE  opBar' = opBar /\ argBar' = argBar /\ seenBar' = seenBar
  BY Zenon DEF opBar, argBar, seenBar

(* A call that goes on without a change its users could see.               *)
LEMMA ClientGoesOn ==
  ASSUME TypeOK, NEW c \in Client, NEW l, OpOf(l) = OpOf(pc[c]),
         l \in {"scan", "duty"} <=> pc[c] \in {"scan", "duty"},
         pc' = [pc EXCEPT ![c] = l], call' = call
  PROVE  opBar' = opBar /\ argBar' = argBar /\ seenBar' = seenBar
<1>1. call' = [call EXCEPT ![c] = call[c]]
  BY Zenon DEF TypeOK
<1>2. /\ opBar' = [opBar EXCEPT ![c] = OpOf(l)]
      /\ argBar' = [argBar EXCEPT ![c] = call[c].arg]
      /\ seenBar' = [seenBar EXCEPT ![c] = IF l \in {"scan", "duty"} THEN call[c].ld ELSE 0]
  BY <1>1, ClientMaps, Zenon
<1>3. QED
  BY <1>2 DEF opBar, argBar, seenBar

(* The table of channels depends on the threads and on their entries.      *)
LEMMA TableSame ==
  ASSUME mod' = mod, st' = st,
         \A k \in Slot : phaseBar[k] # "none" => duty_array'[k] = duty_array[k]
  PROVE  stateBar' = stateBar /\ phaseBar' = phaseBar /\ chanBar' = chanBar
<1>1. stateBar' = stateBar /\ phaseBar' = phaseBar
  BY Zenon DEF stateBar, phaseBar
<1>2. QED
  BY <1>1, Zenon DEF chanBar

(* Nothing of the table changes with the clients alone.                    *)
LEMMA TableKept ==
  ASSUME UNCHANGED <<devVars, arrayVars, taskVars>>
  PROVE  stateBar' = stateBar /\ phaseBar' = phaseBar /\ chanBar' = chanBar
         /\ pwm_pin_count' = pwm_pin_count
  BY TableSame, Zenon DEF devVars, arrayVars, taskVars

(* A channel below the count is in the table with its entry; the one that  *)
(* PWM_INIT fills is not, until its thread is woken.                       *)
LEMMA CountedInTable ==
  ASSUME DisciplinedInv, NEW k \in 0 .. pwm_pin_count - 1
  PROVE  k \in Slot /\ chanBar[k] = duty_array[k] /\ phaseBar[k] # "none"
<1>1. k \in Slot /\ k \in Tid /\ st[k] \in {"loop", "set", "high", "exited"}
  BY Zenon DEF DisciplinedInv, ThreadInv
<1>2. phaseBar[k] # "none"
  BY <1>1 DEF phaseBar, PhaseOf
<1>3. QED
  BY <1>1, <1>2, Zenon DEF chanBar

(* The entry at the count is not in the table before its thread runs.      *)
LEMMA FreeInTable ==
  ASSUME DisciplinedInv, pwm_pin_count \in Slot,
         pwm_pin_count \in Tid => st[pwm_pin_count] \in {"none", "new"}
  PROVE  phaseBar[pwm_pin_count] = "none" /\ chanBar[pwm_pin_count] = ZeroSlot
<1>1. phaseBar[pwm_pin_count] = "none"
  BY Zenon DEF phaseBar, PhaseOf
<1>2. QED
  BY <1>1, Zenon DEF chanBar

(* The service is on while the module is live, as it is for an open file.  *)
LEMMA OnWhenLive ==
  ASSUME DisciplinedInv
  PROVE  /\ mod = "live" <=> stateBar = "on"
         /\ \A c \in Client : pc[c] # "closed" => mod = "live"
<1>1. mod = "live" <=> stateBar = "on"
  BY Zenon DEF stateBar, StateOf, DisciplinedInv, TypeOK
<1>2. QED
  BY <1>1, Zenon DEF DisciplinedInv, LifeInv

(* The driver starts as the service does.                                  *)
LEMMA ServiceInit ==
  ASSUME Init
  PROVE  Service!Init /\ ServiceInv
<1>1. stateBar = "off" /\ phaseBar = [k \in Slot |-> "none"]
  BY Zenon DEF Init, stateBar, StateOf, phaseBar, PhaseOf
<1>2. chanBar = [k \in Slot |-> ZeroSlot]
  BY <1>1, Zenon DEF chanBar
<1>3. opBar = [c \in Client |-> "closed"]
  BY Zenon DEF Init, opBar, OpOf
<1>4. argBar = [c \in Client |-> ZeroSlot] /\ seenBar = [c \in Client |-> 0]
  BY Zenon DEF Init, argBar, seenBar, NoCall, NewCall
<1>5. ServiceInv
  BY Zenon DEF Init, ServiceInv
<1>6. QED
  BY <1>1, <1>2, <1>3, <1>4, <1>5, Zenon DEF Init, Service!Init

-----------------------------------------------------------------------------
(* ServiceInv is kept: entries below the count keep their pins, and the    *)
(* entry that is being filled belongs to one call.                         *)
LEMMA SearchKept ==
  ASSUME TypeOK, NEW c \in Client, SearchInv(c), call'[c] = call[c],
         pwm_pin_count' \in Nat, pwm_pin_count <= pwm_pin_count',
         \A k \in 0 .. pwm_pin_count - 1 : duty_array'[k].pin = duty_array[k].pin
  PROVE  SearchInv(c)'
  BY DEF SearchInv, TypeOK, CallRecord

(* ServiceInv only needs to be shown for the client that makes the step.   *)
LEMMA ServiceKept ==
  ASSUME Disciplined, DisciplinedInv, TypeOK', ServiceInv, StableStep, NEW c \in Client,
         \A d \in Client : d # c => pc'[d] = pc[d] /\ call'[d] = call[d],
         pc'[c] \in {"scan", "duty"} => SearchInv(c)',
         pc'[c] \in {"print", "wake"} => duty_array'[pwm_pin_count'].duty_cycle = InitialDuty,
         (\E d \in Client : d # c /\ pc[d] \in {"print", "wake"}) =>
           /\ pwm_pin_count' = pwm_pin_count
           /\ duty_array'[pwm_pin_count] = duty_array[pwm_pin_count]
  PROVE  ServiceInv'
<1>1. /\ pwm_pin_count' \in Nat /\ pwm_pin_count \in Nat /\ pwm_pin_count <= pwm_pin_count'
      /\ \A k \in 0 .. pwm_pin_count - 1 : duty_array'[k].pin = duty_array[k].pin
  <2>1. pwm_pin_count \in Nat /\ pwm_pin_count' \in Nat
    BY Zenon DEF DisciplinedInv, TypeOK
  <2>2. \A k \in 0 .. pwm_pin_count - 1 : k \in Slot /\ k < pwm_pin_count
    BY <2>1 DEF DisciplinedInv, ThreadInv
  <2>3. \A k \in 0 .. pwm_pin_count - 1 : k < pwm_pin_count' /\ duty_array'[k].pin = duty_array[k].pin
    BY <2>2, Zenon DEF StableStep
  <2>4. pwm_pin_count = 0 \/ pwm_pin_count - 1 \in 0 .. pwm_pin_count - 1
    BY <2>1
  <2>5. pwm_pin_count <= pwm_pin_count'
    BY <2>1, <2>3, <2>4
  <2>6. QED
    BY <2>1, <2>3, <2>5, Zenon
<1>2. ASSUME NEW d \in Client, d # c, pc'[d] \in {"scan", "duty"}
      PROVE  SearchInv(d)'
  <2>1. SearchInv(d) /\ call'[d] = call[d]
    BY <1>2, Zenon DEF ServiceInv
  <2>2. QED
    BY <1>1, <2>1, SearchKept, Zenon DEF DisciplinedInv
<1>3. ASSUME NEW d \in Client, d # c, pc'[d] \in {"print", "wake"}
      PROVE  duty_array'[pwm_pin_count'].duty_cycle = InitialDuty
  BY <1>3, Zenon DEF ServiceInv
<1>4. QED
  BY <1>2, <1>3, Zenon DEF ServiceInv

(* A step that touches neither the entries nor the count.                  *)
LEMMA ServiceKeptApart ==
  ASSUME Disciplined, DisciplinedInv, TypeOK', ServiceInv, UNCHANGED arrayVars, NEW c \in Client,
         \A d \in Client : d # c => pc'[d] = pc[d] /\ call'[d] = call[d],
         pc'[c] \in {"scan", "duty"} => SearchInv(c)',
         pc'[c] \in {"print", "wake"} => pc[c] \in {"print", "wake"}
  PROVE  ServiceInv'
<1>1. StableStep /\ pwm_pin_count' = pwm_pin_count /\ duty_array' = duty_array
  BY DEF StableStep, arrayVars
<1>2. pc'[c] \in {"print", "wake"} => duty_array'[pwm_pin_count'].duty_cycle = InitialDuty
  BY <1>1, Zenon DEF ServiceInv
<1>3. QED
  BY <1>1, <1>2, ServiceKept, Zenon

-----------------------------------------------------------------------------
(* A step of PwmService, or none.                                          *)
ServiceStep == Service!Next \/ UNCHANGED Service!vars

(* A step that the service does not see.                                   *)
LEMMA Stutter ==
  ASSUME UNCHANGED <<stateBar, pwm_pin_count, chanBar, phaseBar, level, opBar, argBar, seenBar, ret>>
  PROVE  ServiceStep
  BY Zenon DEF ServiceStep, Service!vars, Service!table

(* A return to user space is the end of an abstract call.                  *)
LEMMA ReturnMaps ==
  ASSUME TypeOK, NEW c \in Client, NEW r, Return(c, r), stateBar = "on"
  PROVE  Service!Leave(c, OpOf(pc[c]), r)
<1>1. /\ opBar' = [opBar EXCEPT ![c] = OpOf("user")]
      /\ argBar' = [argBar EXCEPT ![c] = NoCall.arg]
      /\ seenBar' = [seenBar EXCEPT ![c] = IF "user" \in {"scan", "duty"} THEN NoCall.ld ELSE 0]
  BY ClientMaps, ZenonT(60) DEF Return
<1>2. OpOf("user") = "idle" /\ NoCall.arg = ZeroSlot
  BY Zenon DEF OpOf, NoCall, NewCall
<1>3. QED
  BY <1>1, <1>2, Zenon DEF Return, Service!Leave, opBar

-----------------------------------------------------------------------------
(* insmod and rmmod are the start and the end of the service.              *)
LEMMA ModuleMaps ==
  ASSUME Disciplined, DisciplinedInv, DisciplinedInv', ServiceInv, module_step, fault = "none"
  PROVE  ServiceInv' /\ ServiceStep
<1>i. /\ TypeOK /\ ThreadInv /\ LifeInv /\ CountInv /\ CallsInv
      /\ NoDriverFault /\ CreatedIsWritable /\ HighOnlyInPulse
  BY Zenon DEF DisciplinedInv
<1>j. /\ TypeOK' /\ ThreadInv' /\ LifeInv' /\ CountInv' /\ CallsInv'
      /\ NoDriverFault' /\ CreatedIsWritable' /\ HighOnlyInPulse'
  BY Zenon DEF DisciplinedInv
<1>1. UNCHANGED <<pc, call, ret, arrayVars, level>>
  BY Zenon DEF module_step, pwm_init, pwm_exit, exit_stop, exit_wait, exit_unmap, exit_release,
     Oops, arrayVars, clientVars
<1>2. ServiceInv'
  BY <1>1, Zenon DEF ServiceInv, SearchInv, arrayVars
<1>3. st' = st
  <2>1. ASSUME exit_stop PROVE st' = st
    <3>1. i \in 0 .. pwm_pin_count - 1
      BY <1>i, <1>j, <2>1 DEF exit_stop, TypeOK
    <3>2. i \in Slot /\ i \in Tid /\ pwm_tsk[i] = i /\ st[i] # "new"
      BY <1>i, <1>j, <3>1, Zenon DEF ThreadInv
    <3>3. QED
      BY <1>i, <1>j, <2>1, <3>2, ZenonT(30) DEF exit_stop, TypeOK
  <2>2. QED
    BY <2>1, Zenon DEF module_step, pwm_init, pwm_exit, exit_wait, exit_unmap, exit_release, taskVars
<1>4. /\ opBar' = opBar /\ argBar' = argBar /\ seenBar' = seenBar
      /\ phaseBar' = phaseBar /\ pwm_pin_count' = pwm_pin_count
  BY <1>1, <1>3, ClientsSame, Zenon DEF phaseBar, arrayVars
<1>5. chanBar' = chanBar
  BY <1>1, <1>4, Zenon DEF chanBar, arrayVars
<1>6. CASE pwm_init
  <2>1. stateBar = "off" /\ stateBar' \in {"off", "on"}
    BY <1>6, Zenon DEF pwm_init, stateBar, StateOf
  <2>2. CASE stateBar' = "on"
    BY <1>1, <1>2, <1>4, <1>5, <2>1, <2>2, Zenon DEF ServiceStep, Service!Next, Service!Load
  <2>3. CASE stateBar' = "off"
    BY <1>1, <1>2, <1>4, <1>5, <2>1, <2>3, Stutter, Zenon
  <2>4. QED
    BY <2>1, <2>2, <2>3, Zenon
<1>7. CASE pwm_exit
  <2>1. stateBar = "on" /\ stateBar' = "stopping"
    BY <1>7 DEF pwm_exit, stateBar, StateOf
  <2>2. \A c \in Client : opBar[c] = "closed"
    BY <1>7, Zenon DEF pwm_exit, opBar, OpOf
  <2>3. QED
    BY <1>1, <1>2, <1>4, <1>5, <2>1, <2>2, Zenon DEF ServiceStep, Service!Next, Service!Stop
<1>8. CASE exit_unmap
  <2>1. stateBar = "stopping" /\ stateBar' = "over"
    BY <1>8 DEF exit_unmap, stateBar, StateOf
  <2>2. \A t \in Tid : st'[t] \in {"none", "exited"}
    <3>1. mod' = "unmapped"
      BY <1>8 DEF exit_unmap
    <3>2. QuietAfterUnload'
      BY <1>i, <1>j DEF QuietAfterUnload, ThreadInv, LifeInv, CountInv, InitPc, FillPc, TypeOK, Tid
    <3>3. QED
      BY <3>1, <3>2, Zenon DEF QuietAfterUnload
  <2>3. \A k \in Slot : phaseBar[k] \in {"none", "ended"}
    BY <1>3, <2>2, Zenon DEF phaseBar, PhaseOf
  <2>4. QED
    BY <1>1, <1>2, <1>4, <1>5, <2>1, <2>3, Zenon DEF ServiceStep, Service!Next, Service!Finish
<1>9. CASE exit_stop \/ exit_wait \/ exit_release
  <2>1. stateBar' = stateBar
    BY <1>9, Zenon DEF exit_stop, exit_wait, exit_release, Oops, devVars, stateBar, StateOf
  <2>2. QED
    BY <1>1, <1>2, <1>4, <1>5, <2>1, Stutter, Zenon
<1>10. QED
  BY <1>6, <1>7, <1>8, <1>9, Zenon DEF module_step

(* A thread's half periods are the channel's pulses; its end is seen only  *)
(* while the module is being unloaded.                                     *)
LEMMA TaskMaps ==
  ASSUME Disciplined, DisciplinedInv, ServiceInv, NEW t \in Tid, task_step(t)
  PROVE  ServiceInv' /\ ServiceStep
<1>i. /\ TypeOK /\ ThreadInv /\ LifeInv /\ CountInv /\ CallsInv
      /\ NoDriverFault /\ CreatedIsWritable /\ HighOnlyInPulse
  BY DEF DisciplinedInv
<1>1. /\ UNCHANGED <<devVars, arrayVars, clientVars>>
      /\ \/ /\ st[t] = "loop" /\ level' = level
            /\ st' = [st EXCEPT ![t] = IF stop[t] THEN "exited" ELSE "set"]
         \/ /\ st[t] = "set" /\ st' = [st EXCEPT ![t] = "high"]
            /\ level' = [level EXCEPT ![duty_array[t].pin] = 1]
         \/ /\ st[t] = "high" /\ st' = [st EXCEPT ![t] = "loop"]
            /\ level' = [level EXCEPT ![duty_array[t].pin] = 0]
  BY TaskNoFault, Zenon
<1>2. UNCHANGED <<mod, pwm_pin_count, duty_array, pc, call, ret>>
  BY <1>1, Zenon DEF devVars, arrayVars, clientVars
<1>3. ServiceInv'
  BY <1>2, Zenon DEF ServiceInv, SearchInv
<1>4. t \in Slot /\ mod \in {"live", "going", "waiting"}
  BY <1>1, RunningThread, Zenon
<1>5. /\ stateBar' = stateBar /\ stateBar \in {"on", "stopping"}
      /\ opBar' = opBar /\ argBar' = argBar /\ seenBar' = seenBar
  BY <1>2, <1>4, ClientsSame, Zenon DEF stateBar, StateOf
<1>6. /\ phaseBar' = [phaseBar EXCEPT ![t] = PhaseOf(st'[t])]
      /\ phaseBar[t] = PhaseOf(st[t])
  <2>1. \A k \in Tid : k # t => st'[k] = st[k]
    BY <1>i, <1>1, Zenon DEF TypeOK
  <2>2. phaseBar' = [k \in Slot |-> IF k = t THEN PhaseOf(st'[t]) ELSE phaseBar[k]]
    BY <1>4, <2>1, Zenon DEF phaseBar
  <2>3. QED
    BY <1>4, <2>2, Zenon DEF phaseBar
<1>7. st[t] \in {"loop", "set", "high"} /\ st'[t] \in {"loop", "set", "high", "exited"}
  BY <1>i, <1>1, Zenon DEF TypeOK
<1>8. phaseBar[t] # "none" /\ phaseBar'[t] # "none"
  BY <1>4, <1>6, <1>7, Zenon DEF PhaseOf, phaseBar
<1>9. chanBar' = chanBar /\ chanBar[t] = duty_array[t]
  <2>1. \A k \in Slot : phaseBar'[k] = "none" <=> phaseBar[k] = "none"
    BY <1>4, <1>6, <1>8, Zenon DEF phaseBar
  <2>2. QED
    BY <1>2, <1>4, <1>8, <2>1, Zenon DEF chanBar
<1>10. CASE st[t] = "loop" /\ ~stop[t]
  <2>1. phaseBar' = phaseBar /\ level' = level
    BY <1>i, <1>1, <1>6, <1>10 DEF phaseBar, PhaseOf, TypeOK
  <2>2. QED
    BY <1>2, <1>3, <1>5, <1>9, <2>1, Stutter, ZenonT(30)
<1>11. CASE st[t] = "loop" /\ stop[t]
  <2>1. /\ phaseBar' = [phaseBar EXCEPT ![t] = "ended"] /\ phaseBar[t] = "low"
        /\ level' = level /\ stateBar = "stopping"
    BY <1>i, <1>1, <1>4, <1>6, <1>11, ZenonT(30) DEF PhaseOf, LifeInv, stateBar, StateOf, TypeOK
  <2>2. QED
    BY <1>2, <1>3, <1>4, <1>5, <1>9, <2>1, Zenon DEF ServiceStep, Service!Next, Service!End
<1>12. CASE st[t] = "set"
  <2>1. phaseBar' = [phaseBar EXCEPT ![t] = "high"] /\ phaseBar[t] = "low"
    BY <1>i, <1>1, <1>6, <1>12, Zenon DEF PhaseOf, TypeOK
  <2>2. QED
    BY <1>1, <1>2, <1>3, <1>4, <1>5, <1>9, <1>12, <2>1, Zenon
       DEF ServiceStep, Service!Next, Service!Raise, Service!Pulse
<1>13. CASE st[t] = "high"
  <2>1. phaseBar' = [phaseBar EXCEPT ![t] = "low"] /\ phaseBar[t] = "high"
    BY <1>i, <1>1, <1>6, <1>13, Zenon DEF PhaseOf, TypeOK
  <2>2. QED
    BY <1>1, <1>2, <1>3, <1>4, <1>5, <1>9, <1>13, <2>1, Zenon
       DEF ServiceStep, Service!Next, Service!Fall, Service!Pulse
<1>14. QED
  BY <1>1, <1>10, <1>11, <1>12, <1>13, Zenon

(* PWM_INIT begins: the thread it creates is not in the table yet.         *)
LEMMA CreateMaps ==
  ASSUME Disciplined, DisciplinedInv, DisciplinedInv', ServiceInv, NEW c \in Client,
         NEW a \in InitArg, c \in Creator, PWM_INIT(c, a)
  PROVE  ServiceInv' /\ ServiceStep
<1>i. /\ TypeOK /\ ThreadInv /\ LifeInv /\ CountInv /\ CallsInv
      /\ NoDriverFault /\ CreatedIsWritable /\ HighOnlyInPulse
  BY Zenon DEF DisciplinedInv
<1>j. /\ TypeOK' /\ ThreadInv' /\ LifeInv' /\ CountInv' /\ CallsInv'
      /\ NoDriverFault' /\ CreatedIsWritable' /\ HighOnlyInPulse'
  BY Zenon DEF DisciplinedInv
<1>1. pc[c] = "user" /\ mod = "live" /\ stateBar = "on" /\ pc[c] \notin InitPc
  BY OnWhenLive, Zenon DEF PWM_INIT, InitPc, FillPc
<1>2. \A d \in Client : pc[d] \notin InitPc
  BY <1>i, <1>1, OneCreator, Zenon
<1>3. nTask = pwm_pin_count /\ pwm_pin_count \in Nat
  BY <1>i, <1>j, <1>2, ZenonT(30) DEF CountInv, TypeOK
<1>4. nTask \in Tid /\ ~(pwm_pin_count >= MAX_PWM_NUM)
  BY <1>i, <1>j, <1>3, SoftAssumption DEF PWM_INIT, Disciplined, SoftAssumption, Tid, TypeOK
<1>5. PICK t \in Tid \union {ERR} :
        /\ UNCHANGED <<devVars, arrayVars, level, ret>> /\ pc' = [pc EXCEPT ![c] = "store"]
        /\ call' = [call EXCEPT ![c] = NewCall(a, nTask, t)]
        /\ st' = st \/ st' = [st EXCEPT ![nTask] = "new"]
  BY <1>3, <1>4, ZenonT(60) DEF PWM_INIT, Goto
<1>6. /\ pc'[c] = "store"
      /\ \A d \in Client : d # c => pc'[d] = pc[d] /\ call'[d] = call[d]
  <2>1. pc'[c] = "store" /\ \A d \in Client : d # c => pc'[d] = pc[d]
    BY <1>i, <1>5, PcUpdate, Zenon
  <2>2. \A d \in Client : d # c => call'[d] = call[d]
    BY <1>i, <1>5, CallUpdated, Zenon
  <2>3. QED
    BY <2>1, <2>2, Zenon
<1>7. ServiceInv'
  BY <1>j, <1>5, <1>6, ServiceKeptApart, Zenon
<1>8. \A k \in Tid : PhaseOf(st'[k]) = PhaseOf(st[k])
  <2>0. ~(nTask < nTask)
    BY <1>3
  <2>1. st[nTask] = "none"
    BY <1>i, <1>j, <1>4, <2>0, Zenon DEF ThreadInv
  <2>2. PhaseOf("none") = PhaseOf("new")
    BY Zenon DEF PhaseOf
  <2>3. \A k \in Tid : st'[k] = st[k] \/ (k = nTask /\ st'[k] = "new")
    BY <1>i, <1>j, <1>4, <1>5, Zenon DEF TypeOK
  <2>4. QED
    BY <2>1, <2>2, <2>3, Zenon
<1>9. phaseBar' = phaseBar /\ stateBar' = stateBar
  BY <1>5, <1>8, Zenon DEF phaseBar, stateBar, devVars
<1>10. chanBar' = chanBar /\ pwm_pin_count' = pwm_pin_count
  BY <1>5, <1>9, Zenon DEF chanBar, arrayVars
<1>11. /\ opBar' = [opBar EXCEPT ![c] = OpOf("store")]
       /\ argBar' = [argBar EXCEPT ![c] = NewCall(a, nTask, t).arg]
       /\ seenBar' = [seenBar EXCEPT ![c] = IF "store" \in {"scan", "duty"} THEN NewCall(a, nTask, t).ld ELSE 0]
  BY <1>i, <1>5, ClientMaps, Zenon
<1>12. Service!Enter(c, "create", a, 0)
  BY <1>1, <1>5, <1>11, Zenon DEF Service!Enter, opBar, OpOf, NewCall
<1>13. QED
  BY <1>5, <1>7, <1>9, <1>10, <1>12, Zenon DEF ServiceStep, Service!Next, Service!Create, Service!table

(* open, close, the commands that do not touch the channels, and the start *)
(* of the two that do.                                                     *)
LEMMA UserMaps ==
  ASSUME Disciplined, DisciplinedInv, DisciplinedInv', ServiceInv, NEW c \in Client, user_step(c)
  PROVE  ServiceInv' /\ ServiceStep
<1>i. /\ TypeOK /\ ThreadInv /\ LifeInv /\ CountInv /\ CallsInv
      /\ NoDriverFault /\ CreatedIsWritable /\ HighOnlyInPulse
  BY DEF DisciplinedInv
<1>j. /\ TypeOK' /\ ThreadInv' /\ LifeInv' /\ CountInv' /\ CallsInv'
      /\ NoDriverFault' /\ CreatedIsWritable' /\ HighOnlyInPulse'
  BY Zenon DEF DisciplinedInv
<1>a. /\ mod = "live" <=> stateBar = "on"
      /\ pc[c] = "user" => mod = "live" /\ stateBar = "on" /\ OpOf(pc[c]) = "idle"
  BY OnWhenLive, Zenon DEF OpOf
<1>1. CASE open(c)
  <2>1. CASE mod = "live"
    <3>1. /\ pc' = [pc EXCEPT ![c] = "user"] /\ UNCHANGED <<call, ret, created, fault>>
          /\ UNCHANGED <<devVars, arrayVars, taskVars, level>> /\ pc[c] = "closed"
      BY <1>1, <2>1, Zenon DEF open
    <3>2. pc'[c] = "user" /\ \A d \in Client : d # c => pc'[d] = pc[d] /\ call'[d] = call[d]
      BY <1>i, <3>1, PcUpdate, Zenon
    <3>3. ServiceInv'
      BY <1>j, <3>1, <3>2, ServiceKeptApart, Zenon
    <3>4. call' = [call EXCEPT ![c] = call[c]]
      BY <1>i, <1>j, <3>1, Zenon DEF TypeOK
    <3>5. /\ opBar' = [opBar EXCEPT ![c] = OpOf("user")]
          /\ argBar' = [argBar EXCEPT ![c] = call[c].arg]
          /\ seenBar' = [seenBar EXCEPT ![c] = IF "user" \in {"scan", "duty"} THEN call[c].ld ELSE 0]
      BY <1>i, <3>1, <3>4, ClientMaps, Zenon
    <3>6. opBar[c] = "closed" /\ opBar' = [opBar EXCEPT ![c] = "idle"] /\ argBar' = argBar /\ seenBar' = seenBar
      BY <3>1, <3>5, Zenon DEF opBar, OpOf, argBar, seenBar
    <3>7. QED
      BY <1>a, <2>1, <3>1, <3>3, <3>6, TableKept, Zenon
         DEF ServiceStep, Service!Next, Service!Open, Service!table
  <2>2. CASE mod # "live"
    <3>1. UNCHANGED <<devVars, arrayVars, taskVars, level, clientVars>>
      BY <1>1, <2>2, Zenon DEF open, Oops
    <3>2. ServiceInv'
      BY <3>1, Zenon DEF ServiceInv, SearchInv, arrayVars, clientVars
    <3>3. QED
      BY <3>1, <3>2, TableKept, ClientsSame, Stutter, Zenon DEF clientVars
  <2>3. QED
    BY <2>1, <2>2, Zenon
<1>2. CASE close(c)
  <2>1. /\ pc' = [pc EXCEPT ![c] = "closed"] /\ UNCHANGED <<call, created, fault>>
        /\ UNCHANGED <<devVars, arrayVars, taskVars, level>> /\ pc[c] = "user"
        /\ ret' = [ret EXCEPT ![c] = "none"]
    BY <1>2, Zenon DEF close
  <2>2. pc'[c] = "closed" /\ \A d \in Client : d # c => pc'[d] = pc[d] /\ call'[d] = call[d]
    BY <1>i, <2>1, PcUpdate, Zenon
  <2>3. ServiceInv'
    BY <1>j, <2>1, <2>2, ServiceKeptApart, Zenon
  <2>4. call' = [call EXCEPT ![c] = call[c]]
    BY <1>i, <1>j, <2>1, Zenon DEF TypeOK
  <2>5. /\ opBar' = [opBar EXCEPT ![c] = OpOf("closed")]
        /\ argBar' = [argBar EXCEPT ![c] = call[c].arg]
        /\ seenBar' = [seenBar EXCEPT ![c] = IF "closed" \in {"scan", "duty"} THEN call[c].ld ELSE 0]
    BY <1>i, <2>1, <2>4, ClientMaps, Zenon
  <2>6. opBar[c] = "idle" /\ opBar' = [opBar EXCEPT ![c] = "closed"] /\ argBar' = argBar /\ seenBar' = seenBar
    BY <2>1, <2>5, Zenon DEF opBar, OpOf, argBar, seenBar
  <2>7. QED
    BY <2>1, <2>3, <2>6, TableKept, Zenon DEF ServiceStep, Service!Next, Service!Close, Service!table
<1>3. ASSUME NEW r \in {"done", "warned", "error"}, pc[c] = "user", Return(c, r),
             UNCHANGED <<devVars, arrayVars, taskVars>>,
             level' = level \/ (r = "done" /\ \E g \in GpioArg : level' = [level EXCEPT ![g[1]] = g[2]])
      PROVE  ServiceInv' /\ ServiceStep
  <2>1. /\ pc'[c] = "user" /\ \A d \in Client : d # c => pc'[d] = pc[d] /\ call'[d] = call[d]
    BY <1>i, <1>3, PcUpdate, CallUpdated DEF Return
  <2>2. ServiceInv'
    BY <1>j, <1>3, <2>1, ServiceKeptApart, Zenon
  <2>3. Service!Leave(c, "idle", r) /\ UNCHANGED Service!table
    BY <1>i, <1>3, <1>a, ReturnMaps, TableKept, Zenon DEF Service!table
  <2>4. QED
    BY <1>3, <2>2, <2>3, Zenon DEF ServiceStep, Service!Next, Service!Other, Service!Drive
<1>4. CASE ioctl_other(c)
  BY <1>3, <1>4, Zenon DEF ioctl_other
<1>5. CASE \E g \in GpioArg : GPIO_SET(c, g[1], g[2])
  <2>1. PICK g \in GpioArg : GPIO_SET(c, g[1], g[2])
    BY <1>5, Zenon
  <2>2. "gpio" \in held
    BY <1>i, <1>j, <1>a, <2>1, Zenon DEF GPIO_SET, LifeInv
  <2>3. QED
    BY <1>3, <2>1, <2>2, Zenon DEF GPIO_SET
<1>6. ASSUME NEW a \in SetArg, PWM_SET(c, a)
      PROVE  ServiceInv' /\ ServiceStep
  <2> DEFINE r == NewCall(a, pwm_pin_count, NULL)
  <2>1. /\ pc[c] = "user" /\ pc' = [pc EXCEPT ![c] = "scan"] /\ call' = [call EXCEPT ![c] = r]
        /\ UNCHANGED <<ret, devVars, arrayVars, taskVars, level>>
    BY <1>6, Zenon DEF PWM_SET, Goto
  <2>2. r.arg = a /\ r.ld = pwm_pin_count /\ r.idx = 0
    BY Zenon DEF NewCall
  <2> HIDE DEF r
  <2>3. /\ pc'[c] = "scan" /\ call'[c] = r
        /\ \A d \in Client : d # c => pc'[d] = pc[d] /\ call'[d] = call[d]
    BY <1>i, <2>1, PcUpdate, CallUpdated, ZenonT(30)
  <2>4. SearchInv(c)'
    BY <1>i, <1>j, <2>2, <2>3 DEF SearchInv, TypeOK
  <2>5. ServiceInv'
    BY <1>j, <2>1, <2>3, <2>4, ServiceKeptApart, Zenon
  <2>6. /\ opBar' = [opBar EXCEPT ![c] = OpOf("scan")]
        /\ argBar' = [argBar EXCEPT ![c] = r.arg]
        /\ seenBar' = [seenBar EXCEPT ![c] = IF "scan" \in {"scan", "duty"} THEN r.ld ELSE 0]
    BY <1>i, <2>1, ClientMaps, ZenonT(60)
  <2>7. Service!Enter(c, "write", a, pwm_pin_count) /\ UNCHANGED Service!table
    BY <1>a, <2>1, <2>2, <2>6, TableKept, Zenon DEF Service!Enter, Service!table, opBar, OpOf
  <2>8. QED
    BY <2>1, <2>5, <2>7, Zenon DEF ServiceStep, Service!Next, Service!Write
<1>7. ASSUME NEW a \in InitArg, c \in Creator, PWM_INIT(c, a)
      PROVE  ServiceInv' /\ ServiceStep
  BY <1>7, CreateMaps, Zenon
<1>8. QED
  BY <1>1, <1>2, <1>4, <1>5, <1>6, <1>7, Zenon DEF user_step

=============================================================================
