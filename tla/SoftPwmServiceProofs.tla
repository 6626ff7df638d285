------------------------ MODULE SoftPwmServiceProofs ------------------------
(***************************************************************************)
(* softPWM implements PwmService for disciplined users, for any number of  *)
(* clients, pins and channels.  Then the demo on it: a main() that ends in *)
(* silence is served (SoftPwmDemo).                                        *)
(***************************************************************************)
EXTENDS SoftPwmDemo, SoftPwmSafety

(* More than the prover's default time, for a loaded machine.              *)
USE SMTT(30)

(* PWM_SET: a new copy of the count is a new look, the search is not seen  *)
(* until it stores or gives up.                                            *)
LEMMA SetMaps ==
  ASSUME Disciplined, DisciplinedInv, DisciplinedInv', ServiceInv, StableStep, NEW c \in Client,
         set_step(c) \/ reload(c)
  PROVE  ServiceInv' /\ ServiceStep
<1>i. /\ TypeOK /\ ThreadInv /\ LifeInv /\ CountInv /\ CallsInv
      /\ NoDriverFault /\ CreatedIsWritable /\ HighOnlyInPulse
  BY DEF DisciplinedInv
<1>j. /\ TypeOK' /\ ThreadInv' /\ LifeInv' /\ CountInv' /\ CallsInv'
      /\ NoDriverFault' /\ CreatedIsWritable' /\ HighOnlyInPulse'
  BY Zenon DEF DisciplinedInv
<1>a. /\ call[c].ld \in Nat /\ call[c].idx \in Nat /\ pwm_pin_count \in Nat
      /\ call[c].arg \in SlotOf(Pin)
  BY <1>i, <1>j, Zenon DEF TypeOK, CallRecord
<1>b. pc[c] \in {"scan", "duty"} =>
        /\ SettingInv(c) /\ SearchInv(c) /\ stateBar = "on" /\ OpOf(pc[c]) = "write"
        /\ opBar[c] = "write" /\ argBar[c] = call[c].arg /\ seenBar[c] = call[c].ld
  BY <1>i, <1>j, OnWhenLive, Zenon DEF CallsInv, ServiceInv, OpOf, opBar, argBar, seenBar
<1>c. \A k \in 0 .. pwm_pin_count - 1 : k \in Slot /\ chanBar[k] = duty_array[k]
  BY CountedInTable, Zenon
<1>1. CASE reload(c)
  <2>1. pc[c] = "scan"
    BY <1>i, <1>j, <1>1, Zenon DEF reload, CallsInv, AddingInv, InitPc
  <2> DEFINE r == [call[c] EXCEPT !.ld = pwm_pin_count]
  <2>2. /\ pc' = pc /\ call' = [call EXCEPT ![c] = r]
        /\ UNCHANGED <<ret, devVars, arrayVars, taskVars, level>>
    BY <1>1, Zenon DEF reload
  <2>3. r.arg = call[c].arg /\ r.ld = pwm_pin_count /\ r.idx = call[c].idx
    BY <1>i, <1>j DEF TypeOK, CallRecord
  <2> HIDE DEF r
  <2>4. call'[c] = r /\ \A d \in Client : d # c => pc'[d] = pc[d] /\ call'[d] = call[d]
    BY <1>i, <2>2, CallUpdated, ZenonT(60)
  <2>5. SearchInv(c)'
    BY <1>b, <2>1, <2>2, <2>3, <2>4 DEF SearchInv, arrayVars
  <2>6. ServiceInv'
    BY <1>j, <2>1, <2>2, <2>4, <2>5, ServiceKeptApart, Zenon
  <2>7. pc' = [pc EXCEPT ![c] = "scan"]
    BY <1>i, <1>j, <2>1, <2>2, Zenon DEF TypeOK
  <2>8. /\ opBar' = [opBar EXCEPT ![c] = OpOf("scan")]
        /\ argBar' = [argBar EXCEPT ![c] = r.arg]
        /\ seenBar' = [seenBar EXCEPT ![c] = IF "scan" \in {"scan", "duty"} THEN r.ld ELSE 0]
    BY <1>i, <2>2, <2>7, ClientMaps, Zenon
  <2>9. opBar' = opBar /\ argBar' = argBar /\ seenBar' = [seenBar EXCEPT ![c] = pwm_pin_count]
    BY <2>1, <2>3, <2>8, ZenonT(60) DEF opBar, argBar
  <2>10. QED
    BY <1>b, <2>1, <2>2, <2>6, <2>9, TableKept, Zenon
       DEF ServiceStep, Service!Next, Service!Look, Service!table
<1>2. CASE set_scan(c)
  <2> DEFINE k == call[c].idx
  <2>1. pc[c] = "scan" /\ UNCHANGED <<devVars, arrayVars, taskVars, level>>
    BY <1>2, Zenon DEF set_scan
  <2>2. k < call[c].ld => k \in 0 .. pwm_pin_count - 1 /\ k \in Slot
    BY <1>a, <1>b, <1>c, <2>1 DEF SettingInv
  <2>3. CASE k < call[c].ld /\ duty_array[k].pin = call[c].arg.pin
    <3>1. pc' = [pc EXCEPT ![c] = "duty"] /\ call' = call /\ ret' = ret
      BY <1>2, <1>a, <2>2, <2>3 DEF set_scan, Goto
    <3>2. \A d \in Client : d # c => pc'[d] = pc[d] /\ call'[d] = call[d]
      BY <1>i, <3>1, PcUpdate, Zenon
    <3>3. SearchInv(c)' /\ pc'[c] = "duty"
      BY <1>i, <1>b, <2>1, <3>1, PcUpdate, Zenon DEF SearchInv, arrayVars
    <3>4. ServiceInv'
      BY <1>j, <2>1, <3>2, <3>3, ServiceKeptApart, Zenon
    <3>5. OpOf("duty") = OpOf(pc[c])
      BY <2>1, Zenon DEF OpOf
    <3>6. QED
      BY <1>i, <2>1, <3>1, <3>4, <3>5, ClientGoesOn, TableKept, Stutter, ZenonT(30)
  <2>4. CASE k < call[c].ld /\ duty_array[k].pin # call[c].arg.pin
    <3> DEFINE r == [call[c] EXCEPT !.idx = @ + 1]
    <3>1. pc' = pc /\ call' = [call EXCEPT ![c] = r] /\ ret' = ret
      BY <1>2, <1>a, <2>2, <2>4 DEF set_scan, Goto
    <3>2. r.arg = call[c].arg /\ r.ld = call[c].ld /\ r.idx = k + 1
      BY <1>i, <1>j DEF TypeOK, CallRecord
    <3> HIDE DEF r
    <3>3. call'[c] = r /\ \A d \in Client : d # c => pc'[d] = pc[d] /\ call'[d] = call[d]
      BY <1>i, <3>1, CallUpdated, ZenonT(60)
    <3>4. SearchInv(c)'
      <4>1. k + 1 <= pwm_pin_count
        BY <1>a, <2>2, <2>4
      <4>2. \A j \in 0 .. k : duty_array[j].pin # call[c].arg.pin
        BY <1>a, <1>b, <2>1, <2>4 DEF SearchInv
      <4>3. QED
        BY <1>a, <2>1, <3>2, <3>3, <4>1, <4>2 DEF SearchInv, arrayVars
    <3>5. ServiceInv'
      BY <1>j, <2>1, <3>1, <3>3, <3>4, ServiceKeptApart, Zenon
    <3>6. opBar' = opBar /\ argBar' = argBar /\ seenBar' = seenBar
      BY <3>1, <3>2, <3>3 DEF opBar, argBar, seenBar
    <3>7. QED
      BY <2>1, <3>1, <3>5, <3>6, TableKept, Stutter, Zenon
  <2>5. CASE ~(k < call[c].ld)
    <3>1. Return(c, "warned")
      BY <1>2, <1>a, <2>5, Zenon DEF set_scan
    <3>2. pc'[c] = "user" /\ \A d \in Client : d # c => pc'[d] = pc[d] /\ call'[d] = call[d]
      <4>1. pc'[c] = "user" /\ \A d \in Client : d # c => pc'[d] = pc[d]
        BY <1>i, <3>1, PcUpdate, Zenon DEF Return
      <4>2. \A d \in Client : d # c => call'[d] = call[d]
        BY <1>i, <3>1, CallUpdated, Zenon DEF Return
      <4>3. QED
        BY <4>1, <4>2, Zenon
    <3>3. ServiceInv'
      BY <1>j, <2>1, <3>2, ServiceKeptApart, Zenon
    <3>4. Service!Leave(c, "write", "warned") /\ UNCHANGED Service!table
      BY <1>i, <1>b, <2>1, <3>1, ReturnMaps, TableKept, ZenonT(30) DEF Service!table
    <3>5. \A j \in 0 .. seenBar[c] - 1 : chanBar[j].pin # argBar[c].pin
      BY <1>a, <1>b, <1>c, <2>1, <2>5 DEF SearchInv, SettingInv
    <3>6. QED
      BY <2>1, <3>3, <3>4, <3>5, Zenon DEF ServiceStep, Service!Next, Service!Miss
  <2>6. QED
    BY <2>3, <2>4, <2>5, Zenon
<1>3. CASE set_duty(c)
  <2> DEFINE k == call[c].idx
             v == call[c].arg.duty_cycle
  <2>1. /\ pc[c] = "duty" /\ Return(c, "done") /\ UNCHANGED <<devVars, taskVars, level, pwm_pin_count>>
        /\ duty_array' = [duty_array EXCEPT ![k].duty_cycle = v]
    BY <1>3, Zenon DEF set_duty
  <2>2. k \in 0 .. pwm_pin_count - 1 /\ k \in Slot /\ duty_array[k].pin = call[c].arg.pin
    BY <1>a, <1>b, <1>c, <2>1 DEF SettingInv
  <2>3. pc'[c] = "user" /\ \A d \in Client : d # c => pc'[d] = pc[d] /\ call'[d] = call[d]
    BY <1>i, <2>1, PcUpdate, CallUpdated, ZenonT(60) DEF Return
  <2>4. duty_array'[pwm_pin_count] = duty_array[pwm_pin_count]
    BY <1>i, <1>j, <1>a, <2>1, <2>2 DEF TypeOK
  <2>5. ServiceInv'
    BY <1>j, <2>1, <2>3, <2>4, ServiceKept, Zenon
  <2>6. Service!Leave(c, "write", "done")
    BY <1>i, <1>b, <2>1, ReturnMaps, Zenon
  <2>7. stateBar' = stateBar /\ phaseBar' = phaseBar
    BY <2>1 DEF stateBar, phaseBar, devVars, taskVars
  <2>8. chanBar' = [chanBar EXCEPT ![k].duty_cycle = v]
    <3>1. chanBar[k] = duty_array[k] /\ phaseBar[k] # "none"
      BY <2>2, CountedInTable, ZenonT(30)
    <3>2. \A j \in Slot : chanBar'[j] = [chanBar EXCEPT ![k].duty_cycle = v][j]
      BY <1>i, <1>j, <2>1, <2>2, <2>7, <3>1, Zenon DEF chanBar, TypeOK
    <3>3. QED
      BY <3>2, Zenon DEF chanBar
  <2>9. chanBar[k].pin = argBar[c].pin /\ \A j \in 0 .. k - 1 : chanBar[j].pin # argBar[c].pin
    BY <1>a, <1>b, <1>c, <2>1, <2>2 DEF SearchInv
  <2>10. argBar[c].duty_cycle = v
    BY <1>b, <2>1, Zenon
  <2>11. QED
    BY <2>1, <2>2, <2>5, <2>6, <2>7, <2>8, <2>9, <2>10, Zenon
       DEF ServiceStep, Service!Next, Service!Store
<1>4. QED
  BY <1>1, <1>2, <1>3, Zenon DEF set_step

-----------------------------------------------------------------------------
(* The call that is inside PWM_INIT owns the entry at the count.           *)
LEMMA Adding ==
  ASSUME Disciplined, DisciplinedInv, NEW c \in Client, pc[c] \in InitPc
  PROVE  /\ AddingInv(c) /\ mod = "live" /\ stateBar = "on"
         /\ pwm_pin_count \in Nat /\ pwm_pin_count \in Slot /\ call[c].ld = pwm_pin_count
         /\ {"duty_array", "pwm_tsk"} \subseteq held
         /\ \A d \in Client : d # c => pc[d] \notin {"print", "wake"}
<1>i. /\ TypeOK /\ ThreadInv /\ LifeInv /\ CountInv /\ CallsInv
      /\ NoDriverFault /\ CreatedIsWritable /\ HighOnlyInPulse
  BY Zenon DEF DisciplinedInv
<1>1. AddingInv(c) /\ \A d \in Client : d # c => pc[d] \notin InitPc
  BY <1>i, OneCreator, Zenon DEF CallsInv
<1>2. pwm_pin_count \in Slot /\ call[c].ld = pwm_pin_count /\ mod = "live"
  BY <1>1, Zenon DEF AddingInv
<1>3. pwm_pin_count \in Nat /\ {"duty_array", "pwm_tsk"} \subseteq held
  BY <1>i, <1>2, Zenon DEF TypeOK, LifeInv
<1>4. \A d \in Client : d # c => pc[d] \notin {"print", "wake"}
  BY <1>1, Zenon DEF InitPc
<1>5. QED
  BY <1>1, <1>2, <1>3, <1>4, OnWhenLive, Zenon

(* Its steps on that entry are not seen.                                   *)
LEMMA InitUnseen ==
  ASSUME Disciplined, DisciplinedInv, DisciplinedInv', ServiceInv, StableStep, NEW c \in Client,
         pc[c] \in InitPc, NEW l, NEW r,
         pc[c] \notin {"load", "incr"} <=> l \notin {"load", "incr"},
         l \in InitPc, pc' = [pc EXCEPT ![c] = l], call' = [call EXCEPT ![c] = r],
         r.arg = call[c].arg, ret' = ret, UNCHANGED <<devVars, pwm_pin_count, taskVars, level>>,
         \A k \in Slot : k # pwm_pin_count => duty_array'[k] = duty_array[k],
         duty_array' = duty_array \/ pc[c] \in FillPc,
         l \in {"print", "wake"} => duty_array'[pwm_pin_count].duty_cycle = InitialDuty
  PROVE  ServiceInv' /\ ServiceStep
<1>i. /\ TypeOK /\ ThreadInv /\ LifeInv /\ CountInv /\ CallsInv
      /\ NoDriverFault /\ CreatedIsWritable /\ HighOnlyInPulse
  BY Zenon DEF DisciplinedInv
<1>j. /\ TypeOK' /\ ThreadInv' /\ LifeInv' /\ CountInv' /\ CallsInv'
      /\ NoDriverFault' /\ CreatedIsWritable' /\ HighOnlyInPulse'
  BY Zenon DEF DisciplinedInv
<1> DEFINE n == pwm_pin_count
<1>a. AddingInv(c) /\ n \in Slot /\ \A d \in Client : d # c => pc[d] \notin {"print", "wake"}
  BY Adding, Zenon
<1>1. pc'[c] = l /\ \A d \in Client : d # c => pc'[d] = pc[d] /\ call'[d] = call[d]
  <2>1. pc'[c] = l /\ \A d \in Client : d # c => pc'[d] = pc[d]
    BY <1>i, PcUpdate, Zenon
  <2>2. \A d \in Client : d # c => call'[d] = call[d]
    BY <1>i, CallUpdated, Zenon
  <2>3. QED
    BY <2>1, <2>2, Zenon
<1>2. l \notin {"scan", "duty"}
  BY Zenon DEF InitPc, FillPc
<1>3. ServiceInv'
  BY <1>j, <1>a, <1>1, <1>2, ServiceKept, Zenon
<1>4. /\ opBar' = [opBar EXCEPT ![c] = OpOf(l)]
      /\ argBar' = [argBar EXCEPT ![c] = r.arg]
      /\ seenBar' = [seenBar EXCEPT ![c] = IF l \in {"scan", "duty"} THEN r.ld ELSE 0]
  BY <1>i, ClientMaps, ZenonT(60)
<1>5. OpOf(l) = OpOf(pc[c])
  BY <1>a, Zenon DEF OpOf, InitPc, FillPc
<1>6. pc[c] \notin {"scan", "duty"}
  BY <1>a, Zenon DEF InitPc, FillPc
<1>7. opBar' = opBar /\ argBar' = argBar /\ seenBar' = seenBar
  BY <1>2, <1>4, <1>5, <1>6 DEF opBar, argBar, seenBar
<1>8. duty_array' = duty_array \/ phaseBar[n] = "none"
  <2>1. pc[c] \in FillPc => (n \in Tid => st[n] \in {"none", "new"})
    BY <1>a, Zenon DEF AddingInv, FillPc
  <2>2. QED
    BY <1>a, <2>1, FreeInTable
<1>9. \A k \in Slot : phaseBar[k] # "none" => duty_array'[k] = duty_array[k]
  BY <1>8, Zenon
<1>10. QED
  BY <1>3, <1>7, <1>9, TableSame, Stutter, Zenon DEF devVars, taskVars

(* A failed kthread_create leaves no trace.                                *)
LEMMA UndoMaps ==
  ASSUME Disciplined, DisciplinedInv, DisciplinedInv', ServiceInv, StableStep, NEW c \in Client,
         init_undo(c)
  PROVE  ServiceInv' /\ ServiceStep
<1>i. /\ TypeOK /\ ThreadInv /\ LifeInv /\ CountInv /\ CallsInv
      /\ NoDriverFault /\ CreatedIsWritable /\ HighOnlyInPulse
  BY DEF DisciplinedInv
<1>j. /\ TypeOK' /\ ThreadInv' /\ LifeInv' /\ CountInv' /\ CallsInv'
      /\ NoDriverFault' /\ CreatedIsWritable' /\ HighOnlyInPulse'
  BY Zenon DEF DisciplinedInv
<1> DEFINE n == pwm_pin_count
<1>a. pc[c] \in InitPc
  BY Zenon DEF init_undo, InitPc
<1>b. /\ AddingInv(c) /\ n \in Nat /\ n \in Slot /\ call[c].ld = n /\ stateBar = "on"
      /\ \A d \in Client : d # c => pc[d] \notin {"print", "wake"}
  BY <1>a, Adding, Zenon
<1>1. /\ pc[c] = "undo" /\ Return(c, "error")
      /\ UNCHANGED <<devVars, pwm_pin_count, duty_array, taskVars, level>>
  BY <1>b, SoftAssumption, Zenon DEF init_undo, AddingInv, SoftAssumption
<1>2. pc'[c] = "user" /\ \A d \in Client : d # c => pc'[d] = pc[d] /\ call'[d] = call[d]
  BY <1>i, <1>1, PcUpdate, CallUpdated, ZenonT(30) DEF Return
<1>3. ServiceInv'
  BY <1>j, <1>b, <1>1, <1>2, ServiceKept, Zenon
<1>4. Service!Leave(c, "create", "error")
  BY <1>i, <1>b, <1>1, ReturnMaps, Zenon DEF OpOf
<1>5. UNCHANGED Service!table
  BY <1>1, TableSame, Zenon DEF Service!table, devVars, taskVars
<1>6. QED
  BY <1>1, <1>3, <1>4, <1>5, Zenon DEF ServiceStep, Service!Next, Service!Fail

(* Waking the thread starts the channel ...                                *)
LEMMA WakeMaps ==
  ASSUME Disciplined, DisciplinedInv, DisciplinedInv', ServiceInv, StableStep, NEW c \in Client,
         init_wake(c)
  PROVE  ServiceInv' /\ ServiceStep
<1>i. /\ TypeOK /\ ThreadInv /\ LifeInv /\ CountInv /\ CallsInv
      /\ NoDriverFault /\ CreatedIsWritable /\ HighOnlyInPulse
  BY Zenon DEF DisciplinedInv
<1>j. /\ TypeOK' /\ ThreadInv' /\ LifeInv' /\ CountInv' /\ CallsInv'
      /\ NoDriverFault' /\ CreatedIsWritable' /\ HighOnlyInPulse'
  BY Zenon DEF DisciplinedInv
<1> DEFINE n == pwm_pin_count
<1>a. pc[c] \in InitPc
  BY Zenon DEF init_wake, InitPc
<1>b. /\ AddingInv(c) /\ n \in Nat /\ n \in Slot /\ call[c].ld = n /\ stateBar = "on"
      /\ \A d \in Client : d # c => pc[d] \notin {"print", "wake"}
  BY <1>a, Adding, Zenon
<1>c. call = [call EXCEPT ![c] = call[c]]
  BY <1>i, <1>j, Zenon DEF TypeOK
<1>1. /\ pc[c] = "wake" /\ pwm_tsk[n] = n /\ n \in Tid /\ st[n] = "new"
      /\ duty_array[n].duty_cycle = InitialDuty
      /\ duty_array[n].pin = call[c].arg.pin /\ duty_array[n].min = call[c].arg.min
      /\ duty_array[n].max = call[c].arg.max
  BY <1>b, ZenonT(60) DEF init_wake, AddingInv, ServiceInv
<1>2. /\ pc' = [pc EXCEPT ![c] = "load"] /\ call' = call /\ ret' = ret
      /\ st' = [st EXCEPT ![n] = "loop"] /\ UNCHANGED <<devVars, arrayVars, level>>
  BY <1>b, <1>1, Zenon DEF init_wake, Goto
<1>3. pc'[c] = "load" /\ \A d \in Client : d # c => pc'[d] = pc[d] /\ call'[d] = call[d]
  BY <1>i, <1>2, PcUpdate, Zenon
<1>4. ServiceInv'
  BY <1>j, <1>2, <1>3, ServiceKeptApart, Zenon
<1>5. /\ opBar' = [opBar EXCEPT ![c] = "publish"] /\ opBar[c] = "create"
      /\ argBar' = argBar /\ seenBar' = seenBar /\ argBar[c] = call[c].arg
  <2>1. /\ opBar' = [opBar EXCEPT ![c] = OpOf("load")]
        /\ argBar' = [argBar EXCEPT ![c] = call[c].arg]
        /\ seenBar' = [seenBar EXCEPT ![c] = IF "load" \in {"scan", "duty"} THEN call[c].ld ELSE 0]
    BY <1>i, <1>b, <1>c, <1>2, ClientMaps, Zenon
  <2>2. QED
    BY <1>1, <2>1, ZenonT(60) DEF opBar, OpOf, argBar, seenBar
<1>6. phaseBar[n] = "none" /\ phaseBar' = [phaseBar EXCEPT ![n] = "low"] /\ stateBar' = stateBar
  <2>1. st'[n] = "loop" /\ \A k \in Tid : k # n => st'[k] = st[k]
    BY <1>i, <1>j, <1>1, <1>2, Zenon DEF TypeOK
  <2>2. PhaseOf("new") = "none" /\ PhaseOf("loop") = "low"
    BY DEF PhaseOf
  <2>3. \A k \in Slot : phaseBar'[k] = IF k = n THEN "low" ELSE phaseBar[k]
    BY <1>1, <2>1, <2>2, Zenon DEF phaseBar
  <2>4. QED
    BY <1>b, <1>1, <1>2, <2>2, <2>3, Zenon DEF phaseBar, stateBar, devVars
<1>7. chanBar' = [chanBar EXCEPT ![n] = duty_array[n]]
  <2>1. duty_array' = duty_array /\ \A k \in Slot : phaseBar'[k] = IF k = n THEN "low" ELSE phaseBar[k]
    BY <1>2, <1>6 DEF phaseBar, arrayVars
  <2>2. \A k \in Slot : chanBar'[k] = IF k = n THEN duty_array[n] ELSE chanBar[k]
    BY <2>1 DEF chanBar
  <2>3. QED
    BY <1>b, <2>2, Zenon DEF chanBar
<1>8. duty_array[n] = [pin |-> argBar[c].pin, min |-> argBar[c].min, max |-> argBar[c].max,
                       duty_cycle |-> InitialDuty]
  BY <1>i, <1>j, <1>b, <1>1, <1>5, ZenonT(60) DEF TypeOK, SlotOf
<1>9. QED
  BY <1>b, <1>2, <1>4, <1>5, <1>6, <1>7, <1>8, Zenon
     DEF ServiceStep, Service!Next, Service!Start, arrayVars

(* ... and the increment publishes it.                                     *)
LEMMA IncrMaps ==
  ASSUME Disciplined, DisciplinedInv, DisciplinedInv', ServiceInv, StableStep, NEW c \in Client,
         init_incr(c)
  PROVE  ServiceInv' /\ ServiceStep
<1>i. /\ TypeOK /\ ThreadInv /\ LifeInv /\ CountInv /\ CallsInv
      /\ NoDriverFault /\ CreatedIsWritable /\ HighOnlyInPulse
  BY DEF DisciplinedInv
<1>j. /\ TypeOK' /\ ThreadInv' /\ LifeInv' /\ CountInv' /\ CallsInv'
      /\ NoDriverFault' /\ CreatedIsWritable' /\ HighOnlyInPulse'
  BY Zenon DEF DisciplinedInv
<1> DEFINE n == pwm_pin_count
<1>a. pc[c] \in InitPc
  BY Zenon DEF init_incr, InitPc
<1>b. /\ AddingInv(c) /\ n \in Nat /\ n \in Slot /\ call[c].ld = n /\ stateBar = "on"
      /\ \A d \in Client : d # c => pc[d] \notin {"print", "wake"}
  BY <1>a, Adding, Zenon
<1>1. /\ pc[c] = "incr" /\ Return(c, "done") /\ n' = n + 1
      /\ UNCHANGED <<devVars, duty_array, taskVars, level>>
  BY <1>b, Zenon DEF init_incr
<1>2. pc'[c] = "user" /\ \A d \in Client : d # c => pc'[d] = pc[d] /\ call'[d] = call[d]
  BY <1>i, <1>1, PcUpdate, CallUpdated, ZenonT(60) DEF Return
<1>3. ServiceInv'
  BY <1>j, <1>b, <1>1, <1>2, ServiceKept, Zenon
<1>4. Service!Leave(c, "publish", "done")
  BY <1>i, <1>b, <1>1, ReturnMaps DEF OpOf
<1>5. stateBar' = stateBar /\ phaseBar' = phaseBar /\ chanBar' = chanBar
  BY <1>1, TableSame, Zenon DEF devVars, taskVars
<1>6. QED
  BY <1>1, <1>3, <1>4, <1>5 DEF ServiceStep, Service!Next, Service!Publish

(* Every step of PWM_INIT is a step of the service, or is not seen.        *)
LEMMA InitMaps ==
  ASSUME Disciplined, DisciplinedInv, DisciplinedInv', ServiceInv, StableStep, NEW c \in Client,
         init_step(c)
  PROVE  ServiceInv' /\ ServiceStep
<1>i. /\ TypeOK /\ ThreadInv /\ LifeInv /\ CountInv /\ CallsInv
      /\ NoDriverFault /\ CreatedIsWritable /\ HighOnlyInPulse
  BY Zenon DEF DisciplinedInv
<1>j. /\ TypeOK' /\ ThreadInv' /\ LifeInv' /\ CountInv' /\ CallsInv'
      /\ NoDriverFault' /\ CreatedIsWritable' /\ HighOnlyInPulse'
  BY Zenon DEF DisciplinedInv
<1> DEFINE n == pwm_pin_count
<1>a. pc[c] \in InitPc
  BY InitAt, Zenon
<1>b. n \in Nat /\ n \in Slot /\ call[c].ld = n /\ {"duty_array", "pwm_tsk"} \subseteq held
  BY <1>a, Adding, Zenon
<1>1. call = [call EXCEPT ![c] = call[c]]
  BY <1>i, <1>j, Zenon DEF TypeOK
<1>2. CASE init_store(c)
  <2>1. /\ pc[c] = "store" /\ pc' = [pc EXCEPT ![c] = "check"] /\ call' = call
        /\ UNCHANGED <<ret, devVars, pwm_pin_count, duty_array, taskVars, level>>
    BY <1>2, <1>b DEF init_store, Hit, Goto
  <2>2. QED
    BY InitUnseen, <1>a, <1>1, <2>1, Zenon DEF InitPc
<1>3. CASE init_check(c)
  <2>1. PICK l \in {"undo", "fill_pin"} :
          /\ pc[c] = "check" /\ pc' = [pc EXCEPT ![c] = l] /\ call' = call
          /\ UNCHANGED <<ret, devVars, arrayVars, taskVars, level>>
    BY <1>3, <1>b, Zenon DEF init_check, Goto
  <2>2. l \in InitPc /\ l \notin {"load", "incr", "print", "wake"}
    BY <2>1, Zenon DEF InitPc, FillPc
  <2>3. QED
    BY InitUnseen, <1>a, <1>1, <2>1, <2>2, Zenon DEF arrayVars
<1>4. CASE init_undo(c)
  BY <1>4, UndoMaps, Zenon
<1>5. CASE init_fill(c)
  <2>1. PICK l \in {"fill_min", "fill_max", "fill_duty", "print"} :
          /\ pc[c] \in FillPc /\ pc' = [pc EXCEPT ![c] = l] /\ call' = call
          /\ UNCHANGED <<ret, devVars, pwm_pin_count, taskVars, level>>
          /\ \A k \in Slot : k # n => duty_array'[k] = duty_array[k]
          /\ l = "print" => duty_array'[n].duty_cycle = 0
    BY <1>i, <1>j, <1>5, <1>b DEF init_fill, Fill, Hit, Goto, FillPc, TypeOK, SlotOf
  <2>2. l \in InitPc /\ l \notin {"load", "incr", "wake"} /\ pc[c] \notin {"load", "incr"}
    BY <2>1, Zenon DEF InitPc, FillPc
  <2>3. QED
    BY InitUnseen, <1>a, <1>1, <2>1, <2>2, ZenonT(30) DEF InitialDuty
<1>6. CASE init_print(c) \/ init_load(c)
  <2> DEFINE r == [call[c] EXCEPT !.ld = pwm_pin_count]
  <2>1. PICK l \in {"wake", "incr"} :
          /\ l = "wake" => pc[c] = "print"
          /\ l = "incr" => pc[c] = "load"
          /\ pc' = [pc EXCEPT ![c] = l] /\ call' = [call EXCEPT ![c] = r]
          /\ UNCHANGED <<ret, devVars, arrayVars, taskVars, level>>
    BY <1>6, Zenon DEF init_print, init_load, Goto
  <2>2. r.arg = call[c].arg
    BY <1>i, <1>j DEF TypeOK, CallRecord
  <2> HIDE DEF r
  <2>3. l \in InitPc /\ (l = "wake" => duty_array'[n].duty_cycle = InitialDuty)
    BY <2>1 DEF InitPc, ServiceInv, arrayVars
  <2>4. QED
    BY InitUnseen, <1>a, <2>1, <2>2, <2>3, ZenonT(60) DEF arrayVars
<1>7. CASE init_wake(c)
  BY <1>7, WakeMaps, Zenon
<1>8. CASE init_incr(c)
  BY <1>8, IncrMaps, Zenon
<1>9. QED
  BY <1>2, <1>3, <1>4, <1>5, <1>6, <1>7, <1>8, ZenonT(30) DEF init_step

-----------------------------------------------------------------------------
(* So is every step of the driver.                                         *)
LEMMA ServiceStepAlways ==
  ASSUME Disciplined, DisciplinedInv, DisciplinedInv', ServiceInv, [Next]_vars
  PROVE  ServiceInv' /\ ServiceStep
<1>1. CASE UNCHANGED vars
  <2>1. UNCHANGED <<devVars, arrayVars, taskVars, level, clientVars>>
    BY <1>1, Zenon DEF vars
  <2>2. UNCHANGED <<pc, call, ret, pwm_pin_count, duty_array>>
    BY <2>1, Zenon DEF clientVars, arrayVars
  <2>3. ServiceInv'
    BY <2>2, Zenon DEF ServiceInv, SearchInv
  <2>4. QED
    BY <2>1, <2>2, <2>3, TableKept, ClientsSame, Stutter, Zenon
<1>2. CASE ~UNCHANGED vars
  <2>1. Next /\ StableStep /\ fault = "none"
    BY <1>2, StableAlways, Zenon DEF Next
  <2>2. CASE module_step
    BY <2>1, <2>2, ModuleMaps, Zenon
  <2>3. ASSUME NEW c \in Client, user_step(c) \/ init_step(c) \/ set_step(c) \/ reload(c)
        PROVE  ServiceInv' /\ ServiceStep
    BY <2>1, <2>3, UserMaps, InitMaps, SetMaps, Zenon
  <2>4. ASSUME NEW t \in Tid, task_step(t)
        PROVE  ServiceInv' /\ ServiceStep
    BY <2>4, TaskMaps, Zenon
  <2>5. QED
    BY <2>1, <2>2, <2>3, <2>4 DEF Next
<1>3. QED
  BY <1>1, <1>2, Zenon

(* With disciplined users softPWM implements the abstract PWM service: its *)
(* calls, threads and unloading are steps of the table of channels that    *)
(* PwmService describes, or are not seen by its users.                     *)
THEOREM SoftImplementsService ==
  ASSUME Disciplined
  PROVE  Spec => ImplementsService
<1>1. Init => Service!Init /\ ServiceInv
  BY ServiceInit
<1>2. DisciplinedInv /\ DisciplinedInv' /\ ServiceInv /\ [Next]_vars
        => ServiceInv' /\ [Service!Next]_(Service!vars)
  BY ServiceStepAlways, Zenon DEF ServiceStep
<1>3. Spec => []DisciplinedInv
  BY DisciplinedAlways, Zenon
<1>4. QED
  BY <1>1, <1>2, <1>3, PTL DEF Spec, ImplementsService, Service!Spec

-----------------------------------------------------------------------------
(* The demo.  What its six calls are.                                      *)
LEMMA ProgramFacts ==
  /\ DOMAIN Program = 1 .. 6 /\ End = 7
  /\ Program[1] = pinMode(PIN1) /\ Program[2] = pinMode(PIN2)
  /\ Program[3] = softPwmCreate(PIN1, 0, 100) /\ Program[4] = softPwmCreate(PIN2, 0, 10000)
  /\ Program[5] = softPwmWrite(PIN1, 50) /\ Program[6] = softPwmWrite(PIN2, 1000)
  BY DEF Program, End

(* Its PWM_INIT calls come before its PWM_SET calls, pin by pin.           *)
LEMMA ProgramCalls ==
  ASSUME NEW m \in DOMAIN Program
  PROVE  /\ m \in 1 .. 6
         /\ Program[m].op \in {"PIN_SET", "PWM_INIT", "PWM_SET"}
         /\ Program[m].op = "PWM_INIT" => Program[m].arg \in Creates
         /\ Program[m].op = "PWM_SET" =>
              /\ Program[m].arg \in Writes
              /\ \E j \in DOMAIN Program :
                   j < m /\ Program[j].op = "PWM_INIT" /\ Program[j].arg.pin = Program[m].arg.pin
<1>1. m \in 1 .. 6
  BY ProgramFacts
<1>2. /\ Program[m].op = "PWM_INIT" => Program[m].arg \in Creates
      /\ Program[m].op = "PWM_SET" => Program[m].arg \in Writes
  BY Zenon DEF Creates, Writes, ArgsOf
<1>3. Program[m].op \in {"PIN_SET", "PWM_INIT", "PWM_SET"}
  BY <1>1, ProgramFacts DEF pinMode, softPwmCreate, softPwmWrite, Command
<1>4. Program[m].op = "PWM_SET" => m \in {5, 6}
  BY <1>1, ProgramFacts DEF pinMode, softPwmCreate, softPwmWrite, Command
<1>5. /\ Program[3].op = "PWM_INIT" /\ Program[3].arg.pin = Program[5].arg.pin
      /\ Program[4].op = "PWM_INIT" /\ Program[4].arg.pin = Program[6].arg.pin
      /\ 3 \in DOMAIN Program /\ 4 \in DOMAIN Program
  BY ProgramFacts DEF pinMode, softPwmCreate, softPwmWrite, Command
<1>6. QED
  BY <1>1, <1>2, <1>3, <1>4, <1>5

(* The case distinction of demo_call, as a disjunction.                    *)
LEMMA DemoCall ==
  ASSUME NEW c \in Demo, demo_call(c)
  PROVE  /\ at[c] \in DOMAIN Program /\ pc[c] = "user" /\ main_next(c)
         /\ \/ Program[at[c]].op = "PIN_SET" /\ PIN_SET(c)
            \/ Program[at[c]].op = "PWM_INIT" /\ PWM_INIT(c, Program[at[c]].arg)
            \/ Program[at[c]].op = "PWM_SET" /\ PWM_SET(c, Program[at[c]].arg)
<1>1. at[c] \in DOMAIN Program
  BY Zenon DEF demo_call
<1>2. Program[at[c]].op \in {"PIN_SET", "PWM_INIT", "PWM_SET"}
  BY <1>1, ProgramCalls, Zenon
<1>3. QED
  BY <1>1, <1>2, Zenon DEF demo_call

(* Every step of the demo is a step of the driver, or one of main() alone. *)
LEMMA DemoIsNext ==
  ASSUME DemoSound, [DemoNext]_allVars
  PROVE  [Next]_vars
<1>1. Demo \subseteq Client /\ Demo \subseteq Creator
  BY SoftAssumption, Zenon DEF DemoSound, SoftAssumption
<1>2. CASE UNCHANGED allVars
  BY <1>2 DEF allVars
<1>3. ASSUME NEW c \in Demo, demo_step(c), fault = "none" PROVE [Next]_vars
  <2>1. CASE UNCHANGED vars
    BY <2>1, Zenon
  <2>2. ASSUME user_step(c) PROVE [Next]_vars
    BY <1>1, <1>3, <2>2, Zenon DEF Next
  <2>3. CASE open(c) \/ close(c)
    BY <2>2, <2>3, Zenon DEF user_step
  <2>4. CASE demo_call(c)
    <3>1. at[c] \in DOMAIN Program /\ pc[c] = "user"
      BY <2>4, DemoCall, Zenon
    <3>2. CASE PIN_SET(c)
      BY <2>2, <3>1, <3>2, Zenon DEF PIN_SET, user_step, ioctl_other
    <3>3. CASE Program[at[c]].op = "PWM_INIT" /\ PWM_INIT(c, Program[at[c]].arg)
      <4>1. Program[at[c]].arg \in InitArg /\ c \in Creator
        BY <1>1, <3>1, <3>3, ProgramCalls, Zenon DEF DemoSound
      <4>2. QED
        BY <2>2, <3>3, <4>1, Zenon DEF user_step
    <3>4. CASE Program[at[c]].op = "PWM_SET" /\ PWM_SET(c, Program[at[c]].arg)
      <4>1. Program[at[c]].arg \in SetArg
        BY <3>1, <3>4, ProgramCalls, Zenon DEF DemoSound
      <4>2. QED
        BY <2>2, <3>4, <4>1, Zenon DEF user_step
    <3>5. QED
      BY <2>4, <3>2, <3>3, <3>4, DemoCall, Zenon
  <2>5. QED
    BY <1>3, <2>1, <2>3, <2>4, Zenon DEF demo_step, demo_start, demo_open, demo_end
<1>4. QED
  BY <1>2, <1>3, Zenon DEF DemoNext, Next

(* So what a call of the demo has brought about stays.                     *)
LEMMA EffectsStay ==
  ASSUME DemoSound, DisciplinedInv, [Next]_vars, NEW m \in DOMAIN Program, Effect(m)
  PROVE  Effect(m)'
<1>1. Disciplined
  BY Zenon DEF DemoSound
<1>2. Program[m].op = "PWM_INIT" => Program[m].arg.pin \in created'
  BY CreatedGrows, Zenon DEF Effect
<1>3. ASSUME Program[m].op = "PWM_SET"
      PROVE  \E k \in Slot : /\ k < pwm_pin_count' /\ duty_array'[k].pin = Program[m].arg.pin
                             /\ duty_array'[k].duty_cycle = Program[m].arg.duty_cycle
  <2> DEFINE a == Program[m].arg
  <2>1. a \in Writes
    BY <1>3, ProgramCalls, Zenon
  <2> HIDE DEF a
  <2>2. PICK k \in Slot : /\ k < pwm_pin_count /\ duty_array[k].pin = a.pin
                          /\ duty_array[k].duty_cycle = a.duty_cycle
    BY <1>3, Zenon DEF Effect, Written, a
  <2>3. k < pwm_pin_count' /\ duty_array'[k].pin = a.pin
    <3>1. CASE UNCHANGED vars
      BY <2>2, <3>1, Zenon DEF vars, arrayVars
    <3>2. QED
      BY <1>1, <2>2, <3>1, StableAlways, Zenon DEF StableStep
  <2>4. duty_array'[k].duty_cycle = a.duty_cycle
    <3>1. \/ duty_array'[k] = duty_array[k]
          \/ \E b \in SetArg : b.pin = duty_array[k].pin /\ duty_array'[k].duty_cycle = b.duty_cycle
      BY <1>1, <2>2, DutyStep, Zenon
    <3>2. \A b \in SetArg : b.pin = a.pin => b.duty_cycle = a.duty_cycle
      BY <2>1, Zenon DEF DemoSound
    <3>3. QED
      BY <2>2, <3>1, <3>2, Zenon
  <2>5. QED
    BY <2>2, <2>3, <2>4, Zenon DEF a
<1>4. QED
  BY <1>2, <1>3, Zenon DEF Effect, Written

-----------------------------------------------------------------------------
(* A step that leaves main() and the phase of its call as they are.        *)
LEMMA DemoCarried ==
  ASSUME NEW c \in Demo, DemoInv(c), fault = "none",
         at'[c] = at[c], said'[c] = said[c], ret'[c] = ret[c],
         pc'[c] = pc[c] \/ (pc[c] \in InitPc /\ pc'[c] \in InitPc)
                        \/ (pc[c] \in {"scan", "duty"} /\ pc'[c] \in {"scan", "duty"}),
         call'[c].arg = call[c].arg,
         pc'[c] \in {"scan", "duty"} => call'[c].ld = pwm_pin_count',
         \A m \in DOMAIN Program : Effect(m) => Effect(m)'
  PROVE  DemoInv(c)'
<1>1. \A x \in InitPc : x \notin {"closed", "user", "scan", "duty"}
  BY Zenon DEF InitPc, FillPc
<1>2. /\ pc'[c] = "closed" <=> pc[c] = "closed"
      /\ pc'[c] \in {"closed", "user"} <=> pc[c] \in {"closed", "user"}
      /\ pc'[c] \in InitPc <=> pc[c] \in InitPc
      /\ pc'[c] \in {"scan", "duty"} <=> pc[c] \in {"scan", "duty"}
  BY <1>1, Zenon
<1>3. QED
  BY <1>2, Zenon DEF DemoInv, Silent

(* The call that main() made last returns.                                 *)
LEMMA DemoReturns ==
  ASSUME DemoTypeOK, NEW c \in Demo, DemoInv(c), fault = "none",
         pc[c] \in InitPc \union {"scan", "duty"}, pc'[c] = "user",
         at'[c] = at[c], said'[c] = said[c],
         \A m \in DOMAIN Program : m = at[c] - 1 /\ ~said[c] /\ ret'[c] # "error" => Effect(m)',
         \A m \in DOMAIN Program : Effect(m) => Effect(m)'
  PROVE  DemoInv(c)'
<1>1. pc'[c] # "closed" /\ pc'[c] \notin InitPc \union {"scan", "duty"}
  BY Zenon DEF InitPc, FillPc
<1>2. pc[c] # "closed" /\ at[c] \notin {0, End + 1}
  BY Zenon DEF InitPc, FillPc, DemoInv
<1>3. at[c] - 1 \in DOMAIN Program /\ (ret[c] = "error" => said[c])
  BY Zenon DEF DemoInv
<1>4. ASSUME NEW m \in DOMAIN Program, m < at[c], ~said[c], ret'[c] # "error"
      PROVE  Effect(m)'
  <2>1. CASE m = at[c] - 1
    BY <1>4, <2>1, Zenon
  <2>2. CASE m # at[c] - 1
    <3>1. Effect(m)
      BY <1>3, <1>4, <2>2, Zenon DEF DemoInv, Silent
    <3>2. QED
      BY <3>1, Zenon
  <2>3. QED
    BY <2>1, <2>2, Zenon
<1>5. QED
  BY <1>1, <1>2, <1>4, Zenon DEF DemoInv, Silent

(* main() goes on: the call before the one it makes now has returned.      *)
LEMMA DemoProceeds ==
  ASSUME DemoTypeOK, NEW c \in Demo, DemoInv(c), fault = "none", pc[c] = "user", main_next(c),
         \A m \in DOMAIN Program : m = at[c] /\ pc'[c] \in {"closed", "user"} => Effect(m)',
         \A m \in DOMAIN Program : Effect(m) => Effect(m)'
  PROVE  /\ at'[c] = at[c] + 1 /\ (said'[c] <=> said[c] \/ ret[c] = "error") /\ at[c] \in 1 .. End
         /\ \A m \in DOMAIN Program :
              m < at'[c] /\ (m = at'[c] - 1 => pc'[c] \in {"closed", "user"}) /\ ~said'[c] => Effect(m)'
<1>1. at'[c] = at[c] + 1 /\ (said'[c] <=> said[c] \/ ret[c] = "error") /\ at[c] \in 1 .. End
  BY Zenon DEF main_next, DemoTypeOK
<1>2. ASSUME NEW m \in DOMAIN Program, m < at'[c], m = at'[c] - 1 => pc'[c] \in {"closed", "user"}, ~said'[c]
      PROVE  Effect(m)'
  <2>1. m \in 1 .. 6 /\ at[c] \in Int
    BY <1>1, ProgramFacts
  <2>2. m = at[c] \/ m < at[c]
    BY <1>1, <1>2, <2>1
  <2>3. m = at[c] => m = at'[c] - 1
    BY <1>1, <2>1
  <2>4. CASE m = at[c]
    BY <1>2, <2>3, <2>4, Zenon
  <2>5. CASE m < at[c]
    <3>1. Effect(m)
      BY <1>1, <1>2, <2>5, Zenon DEF DemoInv, Silent
    <3>2. QED
      BY <3>1, Zenon
  <2>6. QED
    BY <2>2, <2>4, <2>5, Zenon
<1>3. QED
  BY <1>1, <1>2, Zenon

-----------------------------------------------------------------------------
(* What every step of the demo gives its main().                           *)
StepOf(c) ==
  /\ DemoSound /\ DemoTypeOK /\ DemoInv(c) /\ fault = "none"
  /\ DisciplinedInv /\ DisciplinedInv' /\ ServiceInv
  /\ \A m \in DOMAIN Program : Effect(m) => Effect(m)'

(* A step of PWM_INIT for main().                                          *)
LEMMA DemoInits ==
  ASSUME NEW c \in Demo, c \in Client, StepOf(c), UNCHANGED demoVars, init_step(c)
  PROVE  DemoInv(c)'
<1>1. pc[c] \in InitPc
  BY InitAt, Zenon
<1>2. AddingInv(c) /\ pc \in [Client -> {"closed", "user", "scan", "duty"} \union InitPc]
      /\ call \in [Client -> CallRecord]
      /\ ret \in [Client -> {"none", "done", "warned", "error"}]
  BY <1>1, ZenonT(30) DEF StepOf, DisciplinedInv, CallsInv, TypeOK
<1>3. at' = at /\ said' = said
  BY Zenon DEF demoVars
<1>4. ASSUME pc'[c] \in InitPc, call'[c].arg = call[c].arg, ret'[c] = ret[c] PROVE DemoInv(c)'
  <2>1. pc'[c] \notin {"scan", "duty"}
    BY <1>4, Zenon DEF InitPc, FillPc
  <2>2. QED
    BY <1>1, <1>3, <1>4, <2>1, DemoCarried, Zenon DEF StepOf
<1>5. ASSUME NEW f, Oops(f) PROVE DemoInv(c)'
  BY <1>1, <1>4, <1>5, Zenon DEF Oops, clientVars
<1>6. ASSUME NEW l \in InitPc, Goto(c, l),
             call' = call \/ call' = [call EXCEPT ![c].ld = pwm_pin_count]
      PROVE  DemoInv(c)'
  <2>1. pc'[c] = l /\ ret'[c] = ret[c]
    BY <1>2, <1>6, Zenon DEF Goto
  <2>2. call'[c].arg = call[c].arg
    BY <1>2, <1>6, Zenon DEF CallRecord
  <2>3. QED
    BY <1>4, <2>1, <2>2, Zenon
<1>7. CASE init_store(c) \/ init_check(c)
  BY <1>5, <1>6, <1>7, Zenon DEF init_store, init_check, InitPc, FillPc
<1>8. CASE init_fill(c)
  BY <1>5, <1>6, <1>8, Zenon DEF init_fill, Fill, InitPc, FillPc
<1>9. CASE init_print(c) \/ init_wake(c) \/ init_load(c)
  BY <1>5, <1>6, <1>9, Zenon DEF init_print, init_wake, init_load, InitPc, FillPc
<1>10. CASE init_undo(c)
  <2>1. pwm_tsk[call[c].ld] = ERR
    BY <1>2, <1>10, Zenon DEF AddingInv, init_undo
  <2>2. CASE Return(c, IF pwm_tsk[call[c].ld] = NULL THEN "warned" ELSE "error")
    <3>1. pc'[c] = "user" /\ ret'[c] = "error"
      BY <1>2, <2>1, <2>2, SoftAssumption, Zenon DEF Return, SoftAssumption
    <3>2. QED
      BY <1>1, <1>3, <3>1, DemoReturns, Zenon DEF StepOf
  <2>3. QED
    BY <1>5, <1>10, <2>2, Zenon DEF init_undo
<1>11. CASE init_incr(c)
  <2>1. pc'[c] = "user"
    BY <1>2, <1>11, Zenon DEF init_incr, Return
  <2>2. ASSUME NEW m \in DOMAIN Program, m = at[c] - 1 PROVE Effect(m)'
    <3>1. Program[m].op = "PWM_INIT" /\ call[c].arg = Program[m].arg
      BY <1>1, <2>2, Zenon DEF StepOf, DemoInv
    <3>2. Program[m].arg.pin \in created'
      BY <1>11, <3>1, ZenonT(30) DEF init_incr
    <3>3. QED
      BY <3>1, <3>2, Zenon DEF Effect
  <2>3. QED
    BY <1>1, <1>3, <2>1, <2>2, DemoReturns, Zenon DEF StepOf
<1>12. QED
  BY <1>7, <1>8, <1>9, <1>10, <1>11, Zenon DEF init_step

(* main() always finds the pin it writes to, unless a PWM_INIT failed.     *)
LEMMA DemoFinds ==
  ASSUME NEW c \in Demo, c \in Client, StepOf(c), pc[c] = "scan", ~said[c]
  PROVE  call[c].idx < call[c].ld
<1>1. PICK n \in DOMAIN Program : n = at[c] - 1
  BY Zenon DEF StepOf, DemoInv
<1>2. Program[n].op = "PWM_SET" /\ call[c].arg = Program[n].arg /\ Silent(c) /\ call[c].ld = pwm_pin_count
  <2>1. pc[c] \notin InitPc
    BY Zenon DEF InitPc, FillPc
  <2>2. QED
    BY <1>1, <2>1, Zenon DEF StepOf, DemoInv, Silent
<1>3. PICK j \in DOMAIN Program : j < n /\ Program[j].op = "PWM_INIT" /\ Program[j].arg.pin = call[c].arg.pin
  <2>1. \E j \in DOMAIN Program : j < n /\ Program[j].op = "PWM_INIT" /\ Program[j].arg.pin = Program[n].arg.pin
    BY <1>2, ProgramCalls, Zenon
  <2>2. QED
    BY <1>2, <2>1, Zenon
<1>4. j < at[c] /\ j # at[c] - 1
  <2>1. at[c] \in 0 .. End + 1
    BY Zenon DEF StepOf, DemoTypeOK
  <2>2. n \in 1 .. 6 /\ j \in 1 .. 6 /\ End = 7
    BY ProgramFacts
  <2>3. QED
    BY <1>1, <1>3, <2>1, <2>2
<1>5. call[c].arg.pin \in created
  BY <1>2, <1>3, <1>4, Zenon DEF StepOf, DemoInv, Effect
<1>6. PICK k \in Slot : k < pwm_pin_count /\ duty_array[k].pin = call[c].arg.pin
  BY <1>5, Zenon DEF StepOf, DisciplinedInv, CreatedIsWritable
<1>7. SearchInv(c) /\ call \in [Client -> CallRecord] /\ pwm_pin_count \in Nat
  BY Zenon DEF StepOf, ServiceInv, DisciplinedInv, TypeOK
<1>8. call[c].idx \in Nat /\ k \in Nat
  BY <1>7 DEF CallRecord, Slot
<1>9. k \notin 0 .. call[c].idx - 1
  BY <1>6, <1>7, Zenon DEF SearchInv
<1>10. QED
  BY <1>2, <1>6, <1>7, <1>8, <1>9

(* A step of PWM_SET for main().                                           *)
LEMMA DemoSets ==
  ASSUME NEW c \in Demo, c \in Client, StepOf(c), UNCHANGED demoVars, set_step(c)
  PROVE  DemoInv(c)'
<1>1. pc[c] \in {"scan", "duty"} /\ pc[c] \notin InitPc
  BY Zenon DEF set_step, set_scan, set_duty, InitPc, FillPc
<1>2. SettingInv(c) /\ pc \in [Client -> {"closed", "user", "scan", "duty"} \union InitPc]
      /\ call \in [Client -> CallRecord]
      /\ ret \in [Client -> {"none", "done", "warned", "error"}]
      /\ pwm_pin_count \in Nat /\ duty_array \in [Slot -> SlotOf(Pin)]
  BY <1>1, ZenonT(30) DEF StepOf, DisciplinedInv, CallsInv, TypeOK
<1>3. at' = at /\ said' = said /\ pwm_pin_count' = pwm_pin_count
  BY Zenon DEF demoVars, set_step, set_scan, set_duty, arrayVars
<1>4. ASSUME pc'[c] \in {"scan", "duty"}, call'[c].arg = call[c].arg, call'[c].ld = call[c].ld,
             ret'[c] = ret[c]
      PROVE  DemoInv(c)'
  <2>1. call'[c].ld = pwm_pin_count'
    BY <1>1, <1>3, <1>4, Zenon DEF StepOf, DemoInv
  <2>2. QED
    BY <1>1, <1>3, <1>4, <2>1, DemoCarried, Zenon DEF StepOf
<1>5. CASE set_duty(c)
  <2>1. pc'[c] = "user"
    BY <1>2, <1>5, Zenon DEF set_duty, Return
  <2>2. ASSUME NEW m \in DOMAIN Program, m = at[c] - 1 PROVE Effect(m)'
    <3>1. Program[m].op = "PWM_SET" /\ call[c].arg = Program[m].arg
      BY <1>1, <2>2, Zenon DEF StepOf, DemoInv
    <3>2. PICK k \in Slot : k = call[c].idx /\ k < pwm_pin_count
      <4>1. call[c].idx < pwm_pin_count /\ call[c].idx \in Nat
        BY <1>2, <1>5, Zenon DEF SettingInv, set_duty, CallRecord
      <4>2. call[c].idx \in 0 .. pwm_pin_count - 1
        BY <1>2, <4>1
      <4>3. QED
        BY <4>1, <4>2, Zenon DEF StepOf, DisciplinedInv, ThreadInv
    <3>3. duty_array'[k].pin = duty_array[k].pin /\ duty_array'[k].duty_cycle = call[c].arg.duty_cycle
      BY <1>2, <1>5, <3>2, Zenon DEF set_duty, SlotOf
    <3>4. duty_array[k].pin = call[c].arg.pin
      BY <1>2, <1>5, <3>2, Zenon DEF SettingInv, set_duty
    <3>5. k < pwm_pin_count' /\ duty_array'[k].pin = Program[m].arg.pin
          /\ duty_array'[k].duty_cycle = Program[m].arg.duty_cycle
      BY <1>3, <3>1, <3>2, <3>3, <3>4, Zenon
    <3>6. \E s \in Slot : /\ s < pwm_pin_count' /\ duty_array'[s].pin = Program[m].arg.pin
                          /\ duty_array'[s].duty_cycle = Program[m].arg.duty_cycle
      BY <3>5, Zenon
    <3>7. Program[m].op # "PWM_INIT"
      BY <3>1
    <3>8. QED
      BY <3>6, <3>7, Zenon DEF Effect, Written
  <2>3. QED
    BY <1>1, <1>3, <2>1, <2>2, DemoReturns, Zenon DEF StepOf
<1>6. CASE set_scan(c)
  <2>1. CASE Goto(c, "duty") /\ UNCHANGED call
    <3>1. pc'[c] = "duty" /\ ret'[c] = ret[c]
      BY <1>2, <2>1, Zenon DEF Goto
    <3>2. QED
      BY <1>4, <2>1, <3>1, Zenon
  <2>2. CASE call' = [call EXCEPT ![c].idx = @ + 1] /\ UNCHANGED <<pc, ret, created>>
    <3>1. call'[c].arg = call[c].arg /\ call'[c].ld = call[c].ld
      BY <1>2, <2>2, Zenon DEF CallRecord
    <3>2. QED
      BY <1>1, <1>4, <2>2, <3>1, Zenon
  <2>3. CASE UNCHANGED clientVars
    BY <1>1, <1>4, <2>3, Zenon DEF clientVars
  <2>4. CASE call[c].idx >= call[c].ld /\ Return(c, "warned")
    <3>1. pc'[c] = "user" /\ pc[c] = "scan"
      BY <1>2, <1>6, <2>4, ZenonT(30) DEF Return, set_scan
    <3>2. ASSUME ~said[c] PROVE FALSE
      <4>1. call[c].idx < call[c].ld
        BY <3>1, <3>2, DemoFinds, Zenon
      <4>2. call[c].idx \in Nat /\ call[c].ld \in Nat
        BY <1>2 DEF CallRecord
      <4>3. QED
        BY <2>4, <4>1, <4>2
    <3>3. QED
      BY <1>1, <1>3, <3>1, <3>2, DemoReturns, Zenon DEF StepOf
  <2>5. QED
    BY <1>6, <2>1, <2>2, <2>3, <2>4, Zenon DEF set_scan
<1>7. QED
  BY <1>5, <1>6, Zenon DEF set_step

-----------------------------------------------------------------------------
(* No other process creates channels, so the count stands still while      *)
(* main() writes.                                                          *)
LEMMA DemoOthers ==
  ASSUME NEW c \in Demo, c \in Client, StepOf(c), UNCHANGED demoVars,
         \/ module_step
         \/ \E d \in Client \ {c} : user_step(d) \/ init_step(d) \/ set_step(d) \/ reload(d)
         \/ \E t \in Tid : task_step(t)
  PROVE  DemoInv(c)'
<1>1. at' = at /\ said' = said
  BY Zenon DEF demoVars
<1>2. ASSUME pc'[c] = pc[c], call'[c] = call[c], ret'[c] = ret[c], pwm_pin_count' = pwm_pin_count
      PROVE  DemoInv(c)'
  <2>1. pc'[c] \in {"scan", "duty"} => call'[c].ld = pwm_pin_count'
    BY <1>2, Zenon DEF StepOf, DemoInv
  <2>2. QED
    BY <1>1, <1>2, <2>1, DemoCarried, Zenon DEF StepOf
<1>3. CASE module_step
  <2>1. UNCHANGED clientVars /\ UNCHANGED arrayVars
    BY <1>3, Zenon DEF module_step, pwm_init, pwm_exit, exit_stop, exit_wait, exit_unmap, exit_release, Oops
  <2>2. QED
    BY <1>2, <2>1, Zenon DEF clientVars, arrayVars
<1>4. ASSUME NEW t \in Tid, task_step(t) PROVE DemoInv(c)'
  <2>1. UNCHANGED clientVars /\ UNCHANGED arrayVars
    BY <1>4, Zenon DEF task_step, task_loop, task_set, task_clr, task_text, Half, Oops
  <2>2. QED
    BY <1>2, <2>1, Zenon DEF clientVars, arrayVars
<1>5. ASSUME NEW d \in Client, d # c, user_step(d) \/ init_step(d) \/ set_step(d) \/ reload(d)
      PROVE  DemoInv(c)'
  <2>1. pc'[c] = pc[c] /\ call'[c] = call[c] /\ ret'[c] = ret[c]
    BY <1>5, OtherClients, Zenon DEF StepOf, DisciplinedInv
  <2>2. CASE user_step(d)
    BY <1>2, <2>1, <2>2, ZenonT(30) DEF user_step, open, close, ioctl_other, GPIO_SET, PWM_SET, PWM_INIT, Oops, arrayVars
  <2>3. CASE set_step(d) \/ reload(d)
    BY <1>2, <2>1, <2>3, ZenonT(30) DEF set_step, set_scan, set_duty, reload, arrayVars
  <2>4. CASE init_step(d)
    <3>1. pc[d] \in InitPc
      BY <2>4, InitAt, Zenon
    <3>2. d \in Creator
      BY <3>1, ZenonT(30) DEF StepOf, DisciplinedInv, CallsInv, AddingInv
    <3>3. QED
      BY <1>5, <3>2, Zenon DEF StepOf, DemoSound, Disciplined
  <2>5. QED
    BY <1>5, <2>2, <2>3, <2>4, Zenon
<1>6. QED
  BY <1>3, <1>4, <1>5, Zenon

(* main() starts over, or opens the device.                                *)
LEMMA DemoBegins ==
  ASSUME NEW c \in Demo, c \in Client, StepOf(c), demo_start(c) \/ demo_open(c)
  PROVE  DemoInv(c)'
<1>1. at[c] \in {0, End + 1} /\ pc[c] = "closed" /\ ret[c] = "none"
  BY Zenon DEF StepOf, DemoInv, demo_start, demo_open, main_start, main_open, Ended
<1>2. /\ pc \in [Client -> {"closed", "user", "scan", "duty"} \union InitPc]
      /\ at \in [Demo -> 0 .. End + 1] /\ said \in [Demo -> BOOLEAN]
  BY Zenon DEF StepOf, DisciplinedInv, TypeOK, DemoTypeOK
<1>3. \A x \in {"closed", "user"} : x \notin InitPc \union {"scan", "duty"}
  BY DEF InitPc, FillPc
<1>4. \A m \in DOMAIN Program : ~(m < 0) /\ ~(m < 1)
  BY ProgramFacts
<1>5. CASE demo_start(c) \/ (main_open(c, FALSE) /\ UNCHANGED vars)
  <2>1. pc'[c] = "closed" /\ ret'[c] = "none"
    BY <1>1, <1>5, Zenon DEF demo_start, vars, clientVars
  <2>2. at'[c] = 0 \/ (at'[c] = End + 1 /\ said'[c])
    BY <1>2, <1>5, Zenon DEF demo_start, main_start, main_open
  <2>3. QED
    BY <1>3, <1>4, <2>1, <2>2, ZenonT(30) DEF DemoInv, Silent
<1>6. CASE main_open(c, TRUE) /\ open(c)
  <2>1. at'[c] = 1 /\ ret'[c] = "none"
    BY <1>1, <1>2, <1>6, Zenon DEF main_open, open, Oops, clientVars
  <2>2. (pc'[c] = "user") \/ (pc'[c] = "closed" /\ fault' = "stale" /\ mod' = "gone")
    BY <1>1, <1>2, <1>6, Zenon DEF open, Oops, clientVars, devVars
  <2>3. 1 \notin {0, End + 1} /\ "closed" # "user" /\ "stale" # "none" /\ "gone" # "live"
    BY ProgramFacts
  <2>4. QED
    BY <1>3, <1>4, <2>1, <2>2, <2>3, ZenonT(30) DEF DemoInv, Silent
<1>7. QED
  BY <1>5, <1>6, Zenon DEF demo_open

(* main() makes its next call.                                             *)
LEMMA DemoCalls ==
  ASSUME NEW c \in Demo, c \in Client, StepOf(c), demo_call(c)
  PROVE  DemoInv(c)'
<1>1. /\ at[c] \in DOMAIN Program /\ pc[c] = "user" /\ main_next(c)
      /\ \/ Program[at[c]].op = "PIN_SET" /\ PIN_SET(c)
         \/ Program[at[c]].op = "PWM_INIT" /\ PWM_INIT(c, Program[at[c]].arg)
         \/ Program[at[c]].op = "PWM_SET" /\ PWM_SET(c, Program[at[c]].arg)
  BY DemoCall, Zenon
<1>2. /\ pc \in [Client -> {"closed", "user", "scan", "duty"} \union InitPc]
      /\ call \in [Client -> CallRecord] /\ at[c] \in 1 .. 6 /\ End = 7
      /\ ret \in [Client -> {"none", "done", "warned", "error"}]
  <2>1. at[c] \in 1 .. 6 /\ End = 7
    BY <1>1, ProgramFacts
  <2>2. QED
    BY <2>1, ZenonT(30) DEF StepOf, DisciplinedInv, TypeOK
<1>3. ASSUME \A m \in DOMAIN Program : m = at[c] /\ pc'[c] \in {"closed", "user"} => Effect(m)'
      PROVE  /\ at'[c] = at[c] + 1 /\ (said'[c] <=> said[c] \/ ret[c] = "error")
             /\ \A m \in DOMAIN Program :
                  m < at'[c] /\ (m = at'[c] - 1 => pc'[c] \in {"closed", "user"}) /\ ~said'[c] => Effect(m)'
  BY <1>1, <1>3, DemoProceeds, Zenon DEF StepOf
<1>4. CASE Program[at[c]].op = "PIN_SET" /\ PIN_SET(c)
  <2>1. pc'[c] = "user"
    BY <1>2, <1>4, Zenon DEF PIN_SET, Return
  <2>2. ASSUME NEW m \in DOMAIN Program, m = at[c] PROVE Effect(m)'
    <3>1. Program[m].op # "PWM_INIT" /\ Program[m].op # "PWM_SET"
      BY <1>4, <2>2
    <3>2. QED
      BY <3>1, Zenon DEF Effect
  <2>3. at'[c] = at[c] + 1 /\ \A m \in DOMAIN Program :
          m < at'[c] /\ (m = at'[c] - 1 => pc'[c] \in {"closed", "user"}) /\ ~said'[c] => Effect(m)'
    BY <1>3, <2>2, ZenonT(30)
  <2>4. at'[c] \notin {0, End + 1} /\ pc'[c] # "closed" /\ pc'[c] \notin InitPc \union {"scan", "duty"}
    BY <1>2, <2>1, <2>3 DEF InitPc, FillPc
  <2>5. QED
    BY <2>3, <2>4, Zenon DEF DemoInv, Silent
<1>5. CASE /\ Program[at[c]].op = "PWM_INIT" /\ PWM_INIT(c, Program[at[c]].arg)
           /\ Goto(c, "store")
  <2>1. pc'[c] = "store" /\ ret'[c] = ret[c]
    BY <1>2, <1>5, ZenonT(30) DEF Goto
  <2>2. call'[c].arg = Program[at[c]].arg
    <3>1. pc' # pc
      BY <1>1, <2>1, Zenon
    <3>2. PICK n, t : call' = [call EXCEPT ![c] = NewCall(Program[at[c]].arg, n, t)]
      BY <1>5, <3>1, Zenon DEF PWM_INIT, Oops, clientVars
    <3>3. call'[c] = NewCall(Program[at[c]].arg, n, t)
      BY <1>2, <3>2, Zenon
    <3>4. QED
      BY <3>3 DEF NewCall
  <2>3. pc'[c] \in InitPc /\ pc'[c] \notin {"closed", "user", "scan", "duty"}
    BY <2>1 DEF InitPc, FillPc
  <2>4. at'[c] = at[c] + 1 /\ (said'[c] <=> said[c] \/ ret[c] = "error") /\ \A m \in DOMAIN Program :
          m < at'[c] /\ (m = at'[c] - 1 => pc'[c] \in {"closed", "user"}) /\ ~said'[c] => Effect(m)'
    BY <1>3, <2>3, Zenon
  <2>5. at'[c] \notin {0, End + 1} /\ at'[c] - 1 = at[c]
    BY <1>2, <2>4
  <2>6. QED
    BY <1>1, <1>5, <2>1, <2>2, <2>3, <2>4, <2>5, ZenonT(30) DEF DemoInv, Silent
<1>6. CASE Program[at[c]].op = "PWM_SET" /\ PWM_SET(c, Program[at[c]].arg)
  <2>1. pc'[c] = "scan" /\ ret'[c] = ret[c]
    BY <1>2, <1>6, Zenon DEF PWM_SET, Goto
  <2>2. call'[c].arg = Program[at[c]].arg /\ call'[c].ld = pwm_pin_count'
    <3>1. call'[c] = NewCall(Program[at[c]].arg, pwm_pin_count, NULL) /\ pwm_pin_count' = pwm_pin_count
      BY <1>2, <1>6, Zenon DEF PWM_SET, arrayVars
    <3>2. QED
      BY <3>1 DEF NewCall
  <2>3. pc'[c] \notin InitPc /\ pc'[c] \in {"scan", "duty"} /\ pc'[c] \notin {"closed", "user"}
    BY <2>1, Zenon DEF InitPc, FillPc
  <2>4. at'[c] = at[c] + 1 /\ (said'[c] <=> said[c] \/ ret[c] = "error") /\ \A m \in DOMAIN Program :
          m < at'[c] /\ (m = at'[c] - 1 => pc'[c] \in {"closed", "user"}) /\ ~said'[c] => Effect(m)'
    BY <1>3, <2>3, ZenonT(30)
  <2>5. at'[c] \notin {0, End + 1} /\ at'[c] - 1 = at[c]
    BY <1>2, <2>4
  <2>6. QED
    BY <1>1, <1>6, <2>1, <2>2, <2>3, <2>4, <2>5, ZenonT(30) DEF DemoInv, Silent
<1>7. CASE PWM_INIT(c, Program[at[c]].arg) /\ Oops("oob")
  BY <1>7 DEF StepOf, DisciplinedInv, NoDriverFault, Oops
<1>8. QED
  BY <1>1, <1>4, <1>5, <1>6, <1>7, Zenon DEF PWM_INIT

(* main() ends, and the kernel closes the device.                          *)
LEMMA DemoCloses ==
  ASSUME NEW c \in Demo, c \in Client, StepOf(c), demo_end(c)
  PROVE  DemoInv(c)'
<1>1. at[c] = End /\ main_next(c) /\ pc[c] = "user"
  BY Zenon DEF demo_end, close
<1>2. pc'[c] = "closed" /\ ret'[c] = "none"
  BY Zenon DEF demo_end, close, StepOf, DisciplinedInv, TypeOK
<1>3. at[c] \notin DOMAIN Program
  BY <1>1, ProgramFacts
<1>4. at'[c] = at[c] + 1 /\ \A m \in DOMAIN Program :
        m < at'[c] /\ (m = at'[c] - 1 => pc'[c] \in {"closed", "user"}) /\ ~said'[c] => Effect(m)'
  BY <1>1, <1>3, DemoProceeds, Zenon DEF StepOf
<1>5. pc'[c] \notin InitPc \union {"scan", "duty"}
  BY <1>2 DEF InitPc, FillPc
<1>6. QED
  BY <1>1, <1>2, <1>4, <1>5, ZenonT(30) DEF DemoInv, Silent

-----------------------------------------------------------------------------
(* The demo's control stays in its program.                                *)
LEMMA DemoTypeStep ==
  ASSUME DemoTypeOK, [DemoNext]_allVars
  PROVE  DemoTypeOK'
<1>1. at \in [Demo -> 0 .. End + 1] /\ said \in [Demo -> BOOLEAN] /\ End = 7
  BY ProgramFacts DEF DemoTypeOK
<1>2. CASE UNCHANGED demoVars
  BY <1>2, Zenon DEF demoVars, DemoTypeOK
<1>3. ASSUME NEW c \in Demo, demo_step(c) PROVE DemoTypeOK'
  <2>1. CASE main_start(c) \/ main_open(c, TRUE) \/ main_open(c, FALSE)
    <3>1. at' \in [Demo -> 0 .. End + 1]
      BY <1>1, <2>1 DEF main_start, main_open
    <3>2. said' \in [Demo -> BOOLEAN]
      BY <1>1, <2>1, ZenonT(30) DEF main_start, main_open
    <3>3. QED
      BY <3>1, <3>2, Zenon DEF DemoTypeOK
  <2>2. CASE main_next(c)
    <3>1. at' \in [Demo -> 0 .. End + 1]
      BY <1>1, <2>2 DEF main_next
    <3>2. said' \in [Demo -> BOOLEAN]
      BY <1>1, <2>2 DEF main_next
    <3>3. QED
      BY <3>1, <3>2, Zenon DEF DemoTypeOK
  <2>3. QED
    BY <1>3, <2>1, <2>2, DemoCall, Zenon DEF demo_step, demo_start, demo_open, demo_end
<1>4. QED
  BY <1>2, <1>3, Zenon DEF DemoNext, allVars

(* A step keeps the invariant of every main().                             *)
LEMMA DemoStep ==
  ASSUME DemoSound, DemoTypeOK, DisciplinedInv, DisciplinedInv', ServiceInv, [DemoNext]_allVars,
         NEW c \in Demo, DemoInv(c)
  PROVE  DemoInv(c)'
<1>1. CASE UNCHANGED allVars
  BY <1>1, Zenon DEF allVars, demoVars, vars, devVars, arrayVars, taskVars, clientVars,
     DemoInv, Silent, Effect, Written
<1>2. CASE DemoNext
  <2>1. c \in Client /\ c \in Creator
    BY SoftAssumption, Zenon DEF SoftAssumption, DemoSound
  <2>2. StepOf(c)
    <3>1. [Next]_vars
      BY DemoIsNext, Zenon
    <3>2. \A m \in DOMAIN Program : Effect(m) => Effect(m)'
      BY <3>1, EffectsStay, Zenon
    <3>3. fault = "none"
      BY <1>2, Zenon DEF DemoNext
    <3>4. QED
      BY <3>2, <3>3, Zenon DEF StepOf
  <2>3. ASSUME NEW d \in Demo, demo_step(d) PROVE DemoInv(c)'
    <3>1. d = c
      BY <2>1, Zenon DEF DemoSound, Disciplined
    <3>2. QED
      BY <2>1, <2>2, <2>3, <3>1, DemoBegins, DemoCalls, DemoCloses, ZenonT(30) DEF demo_step
  <2>4. ASSUME NEW d \in Client, init_step(d) \/ set_step(d) \/ reload(d), UNCHANGED demoVars
        PROVE  DemoInv(c)'
    <3>1. CASE d # c
      BY <2>1, <2>2, <2>4, <3>1, DemoOthers, Zenon
    <3>2. CASE d = c
      <4>1. ~reload(c)
        <5>1. pc[c] \in InitPc => call[c].ld = pwm_pin_count
          BY <2>1, ZenonT(30) DEF DisciplinedInv, CallsInv, AddingInv
        <5>2. pc[c] = "scan" => call[c].ld = pwm_pin_count
          BY Zenon DEF DemoInv
        <5>3. QED
          BY <5>1, <5>2, ZenonT(30) DEF reload, InitPc
      <4>2. QED
        BY <2>1, <2>2, <2>4, <3>2, <4>1, DemoInits, DemoSets, ZenonT(30)
    <3>3. QED
      BY <3>1, <3>2, Zenon
  <2>5. ASSUME module_step \/ (\E d \in Client \ Demo : user_step(d)) \/ (\E t \in Tid : task_step(t)),
               UNCHANGED demoVars
        PROVE  DemoInv(c)'
    BY <2>1, <2>2, <2>5, DemoOthers, Zenon
  <2>6. QED
    BY <1>2, <2>3, <2>4, <2>5, Zenon DEF DemoNext
<1>3. QED
  BY <1>1, <1>2, Zenon

(* Before its first run main() counts as ended and failed.                 *)
LEMMA DemoInitially ==
  ASSUME DemoInit, NEW c \in Demo, c \in Client
  PROVE  DemoInv(c)
<1>1. pc[c] = "closed" /\ ret[c] = "none" /\ at[c] = End + 1 /\ said[c]
  BY Zenon DEF DemoInit, Init, MainInit
<1>2. "closed" \notin InitPc \union {"scan", "duty"}
  BY DEF InitPc, FillPc
<1>3. QED
  BY <1>1, <1>2, Zenon DEF DemoInv, Silent

(* A counted entry of a live module has a thread that runs.                *)
LEMMA WrittenIsServed ==
  ASSUME DisciplinedInv, mod = "live", NEW a, Written(a)
  PROVE  \E k \in Slot : Serves(k, a)
<1>1. PICK k \in Slot : /\ k < pwm_pin_count
                        /\ duty_array[k].pin = a.pin /\ duty_array[k].duty_cycle = a.duty_cycle
  BY Zenon DEF Written
<1>2. pwm_pin_count \in Nat /\ nTask \in 0 .. InitLimit /\ ThreadInv /\ LifeInv
  BY Zenon DEF DisciplinedInv, TypeOK
<1>3. k \in 0 .. pwm_pin_count - 1
  BY <1>1, <1>2 DEF Slot
<1>4. k \in Tid /\ st[k] \in {"loop", "set", "high", "exited"}
  BY <1>2, <1>3, Zenon DEF ThreadInv
<1>5. pos[k] = k
  <2>1. st[k] # "none"
    BY <1>4
  <2>2. QED
    BY <1>2, <1>4, <2>1, Zenon DEF ThreadInv
<1>6. st[k] # "exited"
  BY <1>2, <1>4, Zenon DEF LifeInv
<1>7. QED
  BY <1>1, <1>4, <1>5, <1>6, Zenon DEF Serves

(* A main() that ended in silence has all its writes in effect.            *)
LEMMA DemoServed ==
  ASSUME DisciplinedInv, NEW c \in Demo, DemoInv(c),
         Ended(c), ~said[c], mod = "live", NEW a \in Writes
  PROVE  \E k \in Slot : Serves(k, a)
<1>1. PICK m \in DOMAIN Program : Program[m].op = "PWM_SET" /\ a = Program[m].arg
  BY Zenon DEF Writes, ArgsOf
<1>2. at[c] = End + 1 /\ pc[c] = "closed" /\ ret[c] = "none"
  BY Zenon DEF Ended, DemoInv
<1>3. m < at[c] /\ Silent(c)
  BY <1>1, <1>2, ProgramFacts DEF Silent
<1>4. Written(a)
  BY <1>1, <1>2, <1>3, ZenonT(30) DEF DemoInv, Effect
<1>5. QED
  BY <1>4, WrittenIsServed, Zenon

(* When the demo of softPWM/uapi/main.c has ended and printed no failure,  *)
(* every pin it wrote to has a running thread of pwm_task with the duty    *)
(* cycle it wrote: also when pwm_ioctl answered a refused PWM_SET with 0,  *)
(* when the demo is run again, and whatever other processes do that create *)
(* no channels and write no other duty cycle to those pins.                *)
THEOREM SilenceIsService ==
  ASSUME DemoSound
  PROVE  DemoSpec => []SilentMeansServed
<1> DEFINE I == DisciplinedInv /\ ServiceInv /\ DemoTypeOK /\ \A c \in Demo : DemoInv(c)
<1>1. Disciplined /\ Demo \subseteq Client
  BY SoftAssumption, Zenon DEF DemoSound, SoftAssumption
<1>2. DemoInit => I
  <2> SUFFICES ASSUME DemoInit PROVE I
    OBVIOUS
  <2>1. DisciplinedInv /\ ServiceInv
    BY <1>1, DisciplinedInit, ServiceInit, ZenonT(30) DEF DemoInit
  <2>2. DemoTypeOK
    BY ProgramFacts DEF DemoInit, MainInit, DemoTypeOK
  <2>3. QED
    BY <1>1, <2>1, <2>2, DemoInitially, Zenon
<1>3. I /\ [DemoNext]_allVars => I'
  <2> SUFFICES ASSUME I, [DemoNext]_allVars PROVE I'
    OBVIOUS
  <2>1. [Next]_vars
    BY DemoIsNext, Zenon
  <2>2. DisciplinedInv'
    BY <1>1, <2>1, DisciplinedStep, Zenon
  <2>3. ServiceInv'
    BY <1>1, <2>1, <2>2, ServiceStepAlways, Zenon
  <2>4. DemoTypeOK'
    BY DemoTypeStep, Zenon
  <2>5. \A c \in Demo : DemoInv(c)'
    BY <2>2, DemoStep, Zenon
  <2>6. QED
    BY <2>2, <2>3, <2>4, <2>5, ZenonT(30)
<1>4. I => SilentMeansServed
  BY DemoServed, Zenon DEF SilentMeansServed
<1> HIDE DEF I
<1>5. QED
  BY <1>2, <1>3, <1>4, PTL DEF DemoSpec

=============================================================================
