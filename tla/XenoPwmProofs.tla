---------------------------- MODULE XenoPwmProofs ----------------------------
(***************************************************************************)
(* Proofs about XenoPwm, for any number of clients, pins and channels:     *)
(* what holds for any users, with the inductive invariant AnyInv.          *)
(***************************************************************************)
EXTENDS XenoPwm, PwmTimingProofs

(* More than the prover's default time, for a loaded machine.              *)
USE SMTT(30)

Results  == {"none", "done", "warned", "error"}
Controls == {"closed", "user", "scan", "duty"} \union InitPc

-----------------------------------------------------------------------------
(* Call records.                                                           *)
LEMMA NewCallType ==
  ASSUME NEW a \in SlotOf(Pin), NEW n \in Nat
  PROVE  /\ NewCall(a, n) \in CallRecord
         /\ NewCall(a, n).arg = a /\ NewCall(a, n).ld = n /\ NewCall(a, n).idx = 0
  BY Zenon DEF NewCall, CallRecord

LEMMA NoCallType == NoCall \in CallRecord /\ NoCall.arg = ZeroSlot
<1>1. ZeroSlot \in SlotOf(Pin)
  BY XenoAssumption DEF ZeroSlot, SlotOf, XenoAssumption
<1>2. QED
  BY <1>1, NewCallType DEF NoCall

LEMMA CallFields ==
  ASSUME NEW r \in CallRecord, NEW n \in Nat
  PROVE  /\ r.arg \in SlotOf(Pin) /\ r.ld \in Nat /\ r.idx \in Nat
         /\ [r EXCEPT !.ld = n] \in CallRecord
         /\ [r EXCEPT !.ld = n].arg = r.arg /\ [r EXCEPT !.ld = n].ld = n
         /\ [r EXCEPT !.ld = n].idx = r.idx
         /\ [r EXCEPT !.idx = n] \in CallRecord
         /\ [r EXCEPT !.idx = n].arg = r.arg /\ [r EXCEPT !.idx = n].ld = r.ld
         /\ [r EXCEPT !.idx = n].idx = n
  BY Zenon DEF CallRecord

(* The delays are int values.                                              *)
LEMMA TimesAreInts ==
  ASSUME NEW s \in SlotOf(Pin), PWM_RANGE(s) # 0
  PROVE  xeno_HIGH_TIME(s) \in Int /\ xeno_LOW_TIME(s) \in Int
<1>1. ASSUME NEW x \in Int PROVE Wrap(x) \in Int
  BY TimingAssumption DEF Wrap, TimingAssumption
<1>2. ASSUME NEW b \in Int, b # 0 PROVE CDiv(PERIOD, b) \in Int
  BY <1>2, TimingAssumption DEF CDiv, TimingAssumption
<1>3. PWM_RANGE(s) \in Int /\ s.duty_cycle \in Int
  BY <1>1 DEF PWM_RANGE, SlotOf
<1>4. QED
  BY <1>1, <1>2, <1>3 DEF xeno_HIGH_TIME, xeno_LOW_TIME

(* What a step of client c does to the clients.                            *)
LEMMA ClientMoves ==
  ASSUME TypeOK, NEW c \in Client, NEW l, NEW r,
         pc' = [pc EXCEPT ![c] = l], call' = [call EXCEPT ![c] = r]
  PROVE  /\ pc'[c] = l /\ call'[c] = r
         /\ \A d \in Client : d # c => pc'[d] = pc[d] /\ call'[d] = call[d]
<1>1. pc \in [Client -> Controls] /\ call \in [Client -> CallRecord]
  BY Zenon DEF TypeOK, Controls
<1>2. QED
  BY <1>1, Zenon

-----------------------------------------------------------------------------
LEMMA AnyInit == ASSUME Init PROVE AnyInv
<1>1. TypeOK
  <2>1. ZeroSlot \in SlotOf(Pin) /\ NoNap \in Int
    BY XenoAssumption DEF XenoAssumption, ZeroSlot, SlotOf, NoNap
  <2>2. 0 \in Nat /\ 0 \in {0, 1}
    BY SMT
  <2>3. QED
    BY <2>1, <2>2, NoCallType, Zenon DEF Init, TypeOK
<1>2. CountInv /\ LifeInv
  BY XenoAssumption DEF Init, CountInv, LifeInv, InitPc, FillPc, Starting, Slot, XenoAssumption
<1>3. QED
  BY <1>1, <1>2, Zenon DEF AnyInv

LEMMA AnyModule ==
  ASSUME AnyInv, module_step
  PROVE  AnyInv' /\ raced' = raced
<1> USE DEF AnyInv
<1>1. UNCHANGED <<arrayVars, st, nap, lost, raced, level, clientVars>>
  BY Zenon DEF module_step, xeno_pwm_init, xeno_pwm_exit, exit_destroy, exit_join, exit_unmap,
     exit_unregister, Oops, taskVars
<1>2. UNCHANGED <<pwm_pin_count, duty_array, pc, call, ret>>
  BY <1>1 DEF arrayVars, clientVars
<1>3. CountInv => CountInv'
  BY <1>1, <1>2, Zenon DEF CountInv, Starting
<1>5. TypeOK'
  <2>1. mod' \in {"out", "live", "going", "waiting", "unmapped", "gone"} /\ held' \subseteq Resource
    BY Zenon DEF module_step, xeno_pwm_init, xeno_pwm_exit, exit_destroy, exit_join, exit_unmap,
       exit_unregister, Oops, devVars, TypeOK
  <2>2. i' \in Nat /\ stop' \in [Slot -> BOOLEAN]
    <3>1. i' = i \/ i' = i + 1
      BY Zenon DEF module_step, xeno_pwm_init, xeno_pwm_exit, exit_destroy, exit_join, exit_unmap,
         exit_unregister, Oops, devVars
    <3>2. stop' = stop \/ stop' = [stop EXCEPT ![i] = TRUE]
      BY Zenon DEF module_step, xeno_pwm_init, xeno_pwm_exit, exit_destroy, exit_join, exit_unmap,
         exit_unregister, Oops, taskVars
    <3>3. i' \in Nat
      BY <3>1 DEF TypeOK
    <3>4. QED
      BY <3>2, <3>3, Zenon DEF TypeOK
  <2>3. fault' \in {"none", "oob", "null", "unmapped", "div0", "noinit", "unreg"}
    BY Zenon DEF module_step, xeno_pwm_init, xeno_pwm_exit, exit_destroy, exit_join, exit_unmap,
       exit_unregister, Oops, TypeOK
  <2>4. QED
    BY <1>1, <1>2, <2>1, <2>2, <2>3, Zenon DEF TypeOK
<1>6. LifeInv'
  <2>0. CASE UNCHANGED <<devVars, taskVars>>
    BY <1>1, <1>2, <2>0, Zenon DEF LifeInv, taskVars, devVars
  <2>1. CASE xeno_pwm_init \/ xeno_pwm_exit
    BY <1>1, <1>2, <2>1, Zenon DEF xeno_pwm_init, xeno_pwm_exit, LifeInv, taskVars
  <2>2. CASE exit_destroy /\ mod' = "waiting" /\ i' = i
    BY <1>1, <1>2, <2>2, Zenon DEF exit_destroy, LifeInv, TypeOK
  <2>3. CASE exit_join
    <3>1. /\ mod = "waiting" /\ st[i] = "exited" /\ mod' = "going" /\ i' = i + 1 /\ stop' = stop
      BY <2>3, Zenon DEF exit_join, taskVars
    <3>2. \A k \in Slot : k < i + 1 => k < i \/ k = i
      BY DEF Slot, TypeOK
    <3>3. i + 1 <= pwm_pin_count
      BY <3>1 DEF LifeInv, TypeOK
    <3>4. QED
      BY <1>1, <1>2, <3>1, <3>2, <3>3, Zenon DEF LifeInv
  <2>4. CASE exit_unmap
    <3>1. i = pwm_pin_count
      BY <2>4, SMT DEF exit_unmap, LifeInv, TypeOK
    <3>2. QED
      BY <1>1, <1>2, <2>4, <3>1, Zenon DEF exit_unmap, LifeInv, taskVars
  <2>5. CASE exit_unregister
    BY <1>1, <1>2, <2>5, Zenon DEF exit_unregister, Oops, LifeInv, taskVars, devVars
  <2>6. CASE exit_destroy
    BY <2>0, <2>2, <2>6, Zenon DEF exit_destroy, Oops
  <2>7. QED
    BY <2>1, <2>3, <2>4, <2>5, <2>6, Zenon DEF module_step
<1>7. QED
  BY <1>1, <1>3, <1>5, <1>6, Zenon

(* A task's steps: the exact change, and the invariant.                    *)
LEMMA TaskStep ==
  ASSUME AnyInv, NEW k \in Slot, task_step(k)
  PROVE  /\ AnyInv' /\ UNCHANGED <<devVars, arrayVars, stop, lost, raced, clientVars>>
         /\ st[k] \in {"loop", "set", "high"}
<1> USE DEF AnyInv
<1>1. /\ UNCHANGED <<devVars, arrayVars, stop, lost, raced, clientVars>>
      /\ st[k] \in {"loop", "set", "high"}
  BY Zenon DEF task_step, task_loop, task_set, task_clr, Half, Oops, taskVars
<1>2. UNCHANGED <<mod, held, i, pwm_pin_count, duty_array, pc, call, ret>>
  BY <1>1, Zenon DEF devVars, arrayVars, clientVars
<1>3. \E s \in {"loop", "set", "high", "exited"} : st' = [st EXCEPT ![k] = s]
  <2>1. st = [st EXCEPT ![k] = st[k]]
    BY Zenon DEF TypeOK
  <2>2. QED
    BY <1>1, <2>1, Zenon DEF task_step, task_loop, task_set, task_clr, Half, Oops, taskVars
<1>4. duty_array[k] \in SlotOf(Pin) /\ duty_array[k].pin \in Pin
  BY Zenon DEF TypeOK, SlotOf
<1>5. TypeOK'
  <2>1. st' \in [Slot -> {"none", "loop", "set", "high", "exited"}]
    BY <1>3, Zenon DEF TypeOK
  <2>2. level' \in [Pin -> {0, 1}]
    BY <1>4, Zenon DEF task_step, task_loop, task_set, task_clr, Half, Oops, TypeOK
  <2>3. PWM_RANGE(duty_array[k]) # 0 =>
          xeno_HIGH_TIME(duty_array[k]) \in Int /\ xeno_LOW_TIME(duty_array[k]) \in Int
    BY <1>4, TimesAreInts, Zenon
  <2>4. nap' \in [Slot -> Int]
    BY <2>3, Zenon DEF task_step, task_loop, task_set, task_clr, Half, Oops, taskVars, TypeOK
  <2>5. fault' \in {"none", "oob", "null", "unmapped", "div0", "noinit", "unreg"}
    BY Zenon DEF task_step, task_loop, task_set, task_clr, Half, Oops, TypeOK
  <2>6. QED
    BY <1>1, <1>2, <2>1, <2>2, <2>4, <2>5, Zenon DEF TypeOK
<1>6. /\ \A j \in Slot : st'[j] # "none" <=> st[j] # "none"
      /\ \A j \in Slot : st[j] = "exited" => st'[j] = "exited"
  BY <1>1, <1>3 DEF TypeOK
<1>7. CountInv => CountInv'
  BY <1>1, <1>2, <1>6, Zenon DEF CountInv, Starting
<1>8. LifeInv'
  BY <1>1, <1>2, <1>6, Zenon DEF LifeInv
<1>9. QED
  BY <1>1, <1>5, <1>7, <1>8, Zenon

(* A task that task_array lost runs only after a race.                     *)
LEMMA LostStep ==
  ASSUME AnyInv, NEW k \in Slot, lost_step(k)
  PROVE  AnyInv' /\ raced /\ raced' = raced
<1>1. raced
  BY Zenon DEF AnyInv, CountInv, lost_step
<1>2. UNCHANGED <<devVars, arrayVars, st, stop, nap, raced, clientVars>>
  BY Zenon DEF lost_step, Oops, taskVars
<1>3. UNCHANGED <<mod, held, i, pwm_pin_count, duty_array, pc, call, ret>>
  BY <1>2, Zenon DEF devVars, arrayVars, clientVars
<1>4. duty_array[k].pin \in Pin
  BY Zenon DEF AnyInv, TypeOK, SlotOf
<1>5. /\ level' \in [Pin -> {0, 1}] /\ lost' \subseteq Slot
      /\ fault' \in {"none", "oob", "null", "unmapped", "div0", "noinit", "unreg"}
  BY <1>4, Zenon DEF AnyInv, TypeOK, lost_step, Oops, taskVars
<1>6. TypeOK'
  BY <1>2, <1>3, <1>5, Zenon DEF AnyInv, TypeOK
<1>7. LifeInv'
  BY <1>2, <1>3, Zenon DEF AnyInv, LifeInv
<1>8. QED
  BY <1>1, <1>2, <1>6, <1>7, Zenon DEF AnyInv

(* Locals r at control point l suit a call of c, while no calls overlap.   *)
CallFits(c, l, r) ==
  /\ l \in InitPc => r.ld = pwm_pin_count /\ \A d \in Client : d # c => pc[d] \notin InitPc
  /\ l \in {"scan", "duty"} => r.ld <= pwm_pin_count

(* A client's step that starts no task and does not raise the count.       *)
LEMMA QuietKeeps ==
  ASSUME AnyInv, NEW c \in Client, NEW l \in Controls, NEW r \in CallRecord,
         pc' = [pc EXCEPT ![c] = l], call' = [call EXCEPT ![c] = r],
         ret' \in [Client -> Results], level' \in [Pin -> {0, 1}],
         duty_array' \in [Slot -> SlotOf(Pin)],
         UNCHANGED <<devVars, pwm_pin_count, st, stop, nap, lost, fault>>,
         raced' \in BOOLEAN, raced => raced',
         mod = "live", ~Starting(c), l \notin {"load", "incr"},
         CountInv /\ ~raced' => CallFits(c, l, r)
  PROVE  AnyInv'
<1> USE DEF AnyInv
<1>1. UNCHANGED <<mod, held, i, pwm_pin_count, st, stop, nap, lost, fault>>
  BY Zenon DEF devVars
<1>2. /\ pc'[c] = l /\ call'[c] = r
      /\ \A d \in Client : d # c => pc'[d] = pc[d] /\ call'[d] = call[d]
  BY ClientMoves, Zenon
<1>3. pc' \in [Client -> Controls] /\ call' \in [Client -> CallRecord]
  BY Zenon DEF TypeOK, Controls
<1>4. TypeOK'
  BY <1>1, <1>3, Zenon DEF TypeOK, Controls, Results
<1>5. \A d \in Client : Starting(d)' <=> Starting(d)
  BY <1>2, Zenon DEF Starting
<1>6. ASSUME CountInv, ~raced' PROVE CountInv'
  <2>0. CallFits(c, l, r)
    BY <1>6, Zenon
  <2>1. ASSUME NEW d \in Client, pc'[d] \in InitPc
        PROVE  call'[d].ld = pwm_pin_count /\ \A e \in Client : pc'[e] \in InitPc => d = e
    <3>1. CASE d = c
      BY <1>2, <2>0, <2>1, <3>1, Zenon DEF CallFits
    <3>2. CASE d # c
      <4>1. pc[d] \in InitPc /\ call'[d] = call[d] /\ l \notin InitPc
        BY <1>2, <2>0, <2>1, <3>2, Zenon DEF CallFits
      <4>2. ASSUME NEW e \in Client, pc'[e] \in InitPc PROVE d = e
        BY <1>2, <1>6, <4>1, <4>2, Zenon DEF CountInv
      <4>3. QED
        BY <1>6, <4>1, <4>2, Zenon DEF CountInv
    <3>3. QED
      BY <3>1, <3>2, Zenon
  <2>2. ASSUME NEW d \in Client, pc'[d] \in {"scan", "duty"} PROVE call'[d].ld <= pwm_pin_count
    BY <1>2, <1>6, <2>0, <2>2, Zenon DEF CountInv, CallFits
  <2>3. QED
    BY <1>1, <1>5, <1>6, <2>1, <2>2, Zenon DEF CountInv
<1>7. LifeInv'
  BY <1>1, Zenon DEF LifeInv
<1>8. QED
  BY <1>4, <1>6, <1>7, Zenon

(* The result of a returning call.                                         *)
LEMMA ReturnKeeps ==
  ASSUME AnyInv, NEW c \in Client, NEW v \in Results, Return(c, v),
         level' \in [Pin -> {0, 1}], duty_array' \in [Slot -> SlotOf(Pin)],
         UNCHANGED <<devVars, pwm_pin_count, taskVars, fault>>,
         mod = "live", ~Starting(c)
  PROVE  AnyInv'
<1>1. ret' \in [Client -> Results]
  BY Zenon DEF Return, AnyInv, TypeOK, Results
<1>2. "user" \in Controls /\ CallFits(c, "user", NoCall)
  BY Zenon DEF Controls, InitPc, FillPc, CallFits
<1>3. UNCHANGED <<st, stop, nap, lost, raced>> /\ raced' \in BOOLEAN
  BY Zenon DEF taskVars, AnyInv, TypeOK
<1>4. QED
  BY <1>1, <1>2, <1>3, QuietKeeps, NoCallType, Zenon DEF Return

(* An access that may not be made leaves all but fault alone.              *)
LEMMA OopsKeeps ==
  ASSUME AnyInv, NEW kind \in {"oob", "null", "unmapped", "div0", "noinit", "unreg"}, Oops(kind)
  PROVE  AnyInv' /\ raced' = raced
<1>1. UNCHANGED <<mod, held, i, pwm_pin_count, duty_array, st, stop, nap, lost, raced, level,
                  pc, call, ret>>
  BY Zenon DEF Oops, devVars, arrayVars, taskVars, clientVars
<1>2. TypeOK'
  BY <1>1, Zenon DEF Oops, AnyInv, TypeOK
<1>3. (CountInv => CountInv') /\ LifeInv'
  BY <1>1, Zenon DEF AnyInv, CountInv, LifeInv, Starting
<1>4. QED
  BY <1>1, <1>2, <1>3, Zenon DEF AnyInv

LEMMA AnyUser ==
  ASSUME AnyInv, NEW c \in Client, user_step(c)
  PROVE  AnyInv'
<1> USE DEF AnyInv
<1>a. /\ pwm_pin_count \in Nat /\ duty_array \in [Slot -> SlotOf(Pin)] /\ level \in [Pin -> {0, 1}]
      /\ ret \in [Client -> Results] /\ call[c] \in CallRecord /\ raced \in BOOLEAN
      /\ call = [call EXCEPT ![c] = call[c]]
  BY Zenon DEF TypeOK, Results
<1>b. /\ pc[c] # "closed" => mod = "live"
      /\ pc[c] \in {"closed", "user"} => ~Starting(c)
  BY Zenon DEF LifeInv, Starting
<1>c. /\ {"closed", "user", "scan", "fill_pin"} \subseteq Controls
      /\ \A l \in {"closed", "user"} : CallFits(c, l, call[c])
  BY Zenon DEF Controls, InitPc, FillPc, CallFits
<1>d. UNCHANGED taskVars => UNCHANGED <<st, stop, nap, lost, raced>>
  BY Zenon DEF taskVars
<1>e. UNCHANGED arrayVars => UNCHANGED <<pwm_pin_count, duty_array>>
  BY Zenon DEF arrayVars
<1>1. CASE open(c)
  BY <1>1, <1>a, <1>b, <1>c, <1>d, <1>e, QuietKeeps, Zenon DEF open, Goto
<1>2. CASE close(c)
  <2>1. ret' \in [Client -> Results]
    BY <1>2, <1>a, Zenon DEF close, Results
  <2>2. QED
    BY <1>2, <1>a, <1>b, <1>c, <1>d, <1>e, <2>1, QuietKeeps, ZenonT(30) DEF close
<1>3. CASE ioctl_other(c)
  BY <1>3, <1>a, <1>b, <1>e, ReturnKeeps, Zenon DEF ioctl_other, Results
<1>4. ASSUME NEW g \in GpioArg, GPIO_SET(c, g[1], g[2])
      PROVE  AnyInv'
  <2>1. CASE level' \in [Pin -> {0, 1}] /\ \E v \in Results : Return(c, v) /\
             UNCHANGED <<fault, devVars, arrayVars, taskVars>>
    BY <1>4, <1>a, <1>b, <1>e, <2>1, ReturnKeeps, Zenon DEF GPIO_SET
  <2>2. CASE Oops("unmapped")
    BY <2>2, OopsKeeps, Zenon
  <2>3. QED
    BY <1>4, <1>a, <2>1, <2>2, Zenon DEF GPIO_SET, Results
<1>5. ASSUME NEW a \in SetArg, PWM_SET(c, a)
      PROVE  AnyInv'
  <2>1. /\ NewCall(a, pwm_pin_count) \in CallRecord
        /\ NewCall(a, pwm_pin_count).ld = pwm_pin_count /\ pwm_pin_count <= pwm_pin_count
    BY <1>a, NewCallType, XenoAssumption DEF XenoAssumption
  <2>2. CallFits(c, "scan", NewCall(a, pwm_pin_count))
    BY <2>1, Zenon DEF CallFits, InitPc, FillPc
  <2>3. QED
    BY <1>5, <1>a, <1>b, <1>c, <1>d, <1>e, <2>1, <2>2, QuietKeeps, Zenon DEF PWM_SET, Goto
<1>6. ASSUME NEW a \in InitArg, PWM_INIT(c, a)
      PROVE  AnyInv'
  <2>1. NewCall(a, pwm_pin_count) \in CallRecord /\ NewCall(a, pwm_pin_count).ld = pwm_pin_count
    BY <1>a, NewCallType, XenoAssumption, Zenon DEF XenoAssumption
  <2>2. raced' = (raced \/ \E d \in Client \ {c} : pc[d] \in InitPc)
    BY <1>6, Zenon DEF PWM_INIT
  <2>3. ~raced' => CallFits(c, "fill_pin", NewCall(a, pwm_pin_count))
    BY <2>1, <2>2, Zenon DEF CallFits, InitPc, FillPc
  <2>4. raced' \in BOOLEAN /\ (raced => raced')
    BY <2>2, Zenon
  <2>5. /\ pc' = [pc EXCEPT ![c] = "fill_pin"] /\ call' = [call EXCEPT ![c] = NewCall(a, pwm_pin_count)]
        /\ UNCHANGED <<ret, fault, devVars, arrayVars, st, stop, nap, lost, level>> /\ pc[c] = "user"
    BY <1>6, Zenon DEF PWM_INIT, Goto
  <2>6. QED
    BY <1>a, <1>b, <1>c, <1>e, <2>1, <2>3, <2>4, <2>5, QuietKeeps, Zenon
<1>7. QED
  BY <1>1, <1>2, <1>3, <1>4, <1>5, <1>6, Zenon DEF user_step

(* Setting up an entry of task_array.                                      *)
LEMMA EnterKeeps ==
  ASSUME TypeOK, LifeInv, NEW k \in Slot, NEW s \in {"none", "loop"}, Enter(k, s), mod = "live",
         pc' \in [Client -> Controls], call' \in [Client -> CallRecord], ret' \in [Client -> Results],
         UNCHANGED <<fault, devVars, arrayVars, level>>
  PROVE  TypeOK' /\ LifeInv' /\ raced' = raced
<1>1. UNCHANGED <<mod, held, i, pwm_pin_count, duty_array, stop, raced>>
  BY Zenon DEF devVars, arrayVars, Enter
<1>2. /\ st' \in [Slot -> {"none", "loop", "set", "high", "exited"}]
      /\ lost' \subseteq Slot
  BY Zenon DEF Enter, TypeOK
<1>3. nap' \in [Slot -> Int]
  <2>1. NoNap \in Int
    BY DEF NoNap
  <2>2. QED
    BY <2>1, Zenon DEF Enter, TypeOK
<1>4. TypeOK'
  BY <1>1, <1>2, <1>3, Zenon DEF TypeOK, Controls, Results
<1>5. i = 0 /\ \A j \in Slot : ~(j < 0)
  <2>1. i = 0
    BY Zenon DEF LifeInv
  <2>2. QED
    BY <2>1, SMT DEF Slot
<1>6. LifeInv'
  BY <1>1, <1>5, Zenon DEF LifeInv
<1>7. QED
  BY <1>1, <1>4, <1>6, Zenon

(* rtdm_task_init and what follows it.                                     *)
LEMMA AnyTask ==
  ASSUME AnyInv, NEW c \in Client, init_task(c)
  PROVE  AnyInv' /\ raced' = raced
<1> USE DEF AnyInv
<1> DEFINE n == pwm_pin_count
           k == call[c].ld
<1>a. /\ pc[c] = "task" /\ pc[c] \in InitPc /\ ~Starting(c) /\ mod = "live"
      /\ n \in Nat /\ call[c] \in CallRecord /\ ret \in [Client -> Results]
  BY Zenon DEF init_task, InitPc, Starting, TypeOK, LifeInv, Results
<1>b. {"user", "load"} \subseteq Controls /\ "user" \notin InitPc /\ "load" \in InitPc
  BY Zenon DEF Controls, InitPc, FillPc
<1>c. ASSUME CountInv PROVE k = n /\ (k \in Slot => st[k] = "none") /\ \A d \in Client : ~Starting(d)
  <2>1. \A d \in Client : ~Starting(d)
    BY <1>a, <1>c, Zenon DEF CountInv, Starting, InitPc
  <2>2. k = n /\ ~(n < n)
    BY <1>a, <1>c DEF CountInv
  <2>3. QED
    BY <1>c, <2>1, <2>2, Zenon DEF CountInv
<1>1. CASE Oops("oob")
  BY <1>1, OopsKeeps, Zenon
<1>2. CASE /\ k \in Slot /\ UNCHANGED taskVars /\ Return(c, "error")
           /\ UNCHANGED <<fault, devVars, arrayVars, level>>
  <2>1. level' \in [Pin -> {0, 1}] /\ duty_array' \in [Slot -> SlotOf(Pin)] /\ raced' = raced
    BY <1>2, Zenon DEF arrayVars, taskVars, TypeOK
  <2>2. QED
    BY <1>2, <1>a, <2>1, ReturnKeeps, Zenon DEF Results, arrayVars
<1>3. CASE /\ k \in Slot /\ st[k] # "none" /\ Enter(k, "none") /\ Return(c, "error")
           /\ UNCHANGED <<fault, devVars, arrayVars, level>>
  <2>1. raced
    BY <1>3, <1>c, Zenon
  <2>2. /\ pc' \in [Client -> Controls] /\ call' \in [Client -> CallRecord]
        /\ ret' \in [Client -> Results]
    BY <1>3, <1>b, NoCallType, Zenon DEF Return, TypeOK, Controls, Results
  <2>3. QED
    BY <1>3, <1>a, <2>1, <2>2, EnterKeeps, Zenon
<1>4. CASE /\ k \in Slot /\ Enter(k, "loop") /\ Goto(c, "load")
           /\ UNCHANGED <<call, fault, devVars, arrayVars, level>>
  <2>1. /\ pc' \in [Client -> Controls] /\ call' \in [Client -> CallRecord]
        /\ ret' \in [Client -> Results]
    BY <1>4, <1>a, <1>b, Zenon DEF Goto, TypeOK, Controls, Results
  <2>2. TypeOK' /\ LifeInv' /\ raced' = raced
    BY <1>4, <1>a, <2>1, EnterKeeps, Zenon
  <2>3. ASSUME CountInv PROVE CountInv'
    <3>1. k = n /\ n \in Slot /\ st[n] = "none" /\ \A d \in Client : ~Starting(d)
      BY <1>4, <1>c, <2>3, Zenon
    <3>2. UNCHANGED <<pwm_pin_count, call>> /\ lost' = lost /\ st' = [st EXCEPT ![n] = "loop"]
      BY <1>4, <3>1, Zenon DEF arrayVars, Enter
    <3>3. st'[n] = "loop" /\ \A j \in Slot : j # n => st'[j] = st[j]
      BY <3>1, <3>2, Zenon DEF TypeOK
    <3>4. pc'[c] = "load" /\ \A d \in Client : d # c => pc'[d] = pc[d]
      BY <1>4, Zenon DEF Goto, TypeOK
    <3>5. Starting(c)' /\ \A d \in Client : pc'[d] \in InitPc <=> pc[d] \in InitPc
      BY <1>a, <1>b, <3>4, Zenon DEF Starting
    <3>6. \A d \in Client : pc'[d] \in {"scan", "duty"} => pc[d] \in {"scan", "duty"}
      BY <3>4, Zenon
    <3>7. \A j \in Slot : st'[j] # "none" <=> j < n \/ j = n
      BY <2>3, <3>1, <3>3, Zenon DEF CountInv
    <3>8. QED
      BY <2>2, <2>3, <3>1, <3>2, <3>5, <3>6, <3>7, Zenon DEF CountInv
  <2>4. QED
    BY <2>2, <2>3, Zenon
<1>5. QED
  BY <1>1, <1>2, <1>3, <1>4, Zenon DEF init_task

(* The count is loaded, and raised.                                        *)
LEMMA AnyCount ==
  ASSUME AnyInv, NEW c \in Client, init_load(c) \/ init_incr(c)
  PROVE  AnyInv' /\ raced' = raced
<1> USE DEF AnyInv
<1> DEFINE n == pwm_pin_count
<1>a. /\ pc[c] \in InitPc /\ Starting(c) /\ mod = "live" /\ n \in Nat /\ call[c] \in CallRecord
      /\ call[c].ld \in Nat /\ raced' = raced
  <2>1. pc[c] \in {"load", "incr"} /\ raced' = raced
    BY Zenon DEF init_load, init_incr, taskVars
  <2>2. pc[c] \in InitPc /\ n \in Nat /\ call[c] \in CallRecord
    BY <2>1, Zenon DEF InitPc, TypeOK
  <2>3. QED
    BY <2>1, <2>2, CallFields, Zenon DEF LifeInv, Starting
<1>b. {"user", "incr"} \subseteq Controls /\ "user" \notin InitPc /\ "incr" \in InitPc
  BY Zenon DEF Controls, InitPc, FillPc
<1>c. \A d \in Client : Starting(d) => pc[d] \in InitPc
  BY Zenon DEF Starting, InitPc
<1>1. CASE init_load(c)
  <2> DEFINE r == [call[c] EXCEPT !.ld = n]
  <2>1. /\ pc' = [pc EXCEPT ![c] = "incr"] /\ call' = [call EXCEPT ![c] = r]
        /\ UNCHANGED <<ret, fault, devVars, arrayVars, taskVars, level>>
    BY <1>1, Zenon DEF init_load, Goto
  <2>2. r \in CallRecord /\ r.ld = n
    BY <1>a, CallFields, Zenon
  <2> HIDE DEF r
  <2>3. UNCHANGED <<mod, held, i, pwm_pin_count, duty_array, st, stop, nap, lost>>
    BY <2>1, Zenon DEF devVars, arrayVars, taskVars
  <2>4. /\ pc'[c] = "incr" /\ call'[c] = r
        /\ \A d \in Client : d # c => pc'[d] = pc[d] /\ call'[d] = call[d]
    BY <2>1, ClientMoves, Zenon
  <2>5. TypeOK'
    <3>1. pc' \in [Client -> Controls] /\ call' \in [Client -> CallRecord]
      BY <1>b, <2>1, <2>2, Zenon DEF TypeOK, Controls
    <3>2. QED
      BY <1>a, <2>1, <2>3, <3>1, Zenon DEF TypeOK, Controls
  <2>6. LifeInv'
    BY <1>a, <2>3, Zenon DEF LifeInv
  <2>7. ASSUME CountInv PROVE CountInv'
    <3>1. /\ \A d \in Client : Starting(d)' <=> Starting(d)
          /\ \A d \in Client : pc'[d] \in InitPc <=> pc[d] \in InitPc
          /\ \A d \in Client : pc'[d] \in {"scan", "duty"} => d # c
      BY <1>a, <1>b, <2>4, Zenon DEF Starting
    <3>2. \A d \in Client : pc'[d] \in InitPc => call'[d].ld = n
      BY <2>2, <2>4, <2>7, <3>1, Zenon DEF CountInv
    <3>3. \A d \in Client : pc'[d] \in {"scan", "duty"} => call'[d].ld <= n
      BY <2>4, <2>7, <3>1, Zenon DEF CountInv
    <3>4. \A d, e \in Client : pc'[d] \in InitPc /\ pc'[e] \in InitPc => d = e
      BY <2>7, <3>1, Zenon DEF CountInv
    <3>5. ~raced' /\ lost' = {} /\ n' <= MAX_PWM_NUM /\ n' = n /\ n \in Slot
      BY <1>a, <2>3, <2>7, Zenon DEF CountInv
    <3>6. \A j \in Slot : st'[j] # "none" <=> j < n \/ (j = n /\ \E d \in Client : Starting(d)')
      BY <2>3, <2>7, <3>1, Zenon DEF CountInv
    <3>7. QED
      BY <3>2, <3>3, <3>4, <3>5, <3>6, Zenon DEF CountInv
  <2>8. QED
    BY <1>a, <2>5, <2>6, <2>7, Zenon
<1>2. CASE init_incr(c)
  <2>1. /\ Return(c, "done") /\ n' = call[c].ld + 1
        /\ UNCHANGED <<duty_array, fault, devVars, taskVars, level>>
    BY <1>2, Zenon DEF init_incr
  <2>2. n' \in Nat
    BY <1>a, <2>1
  <2>3. UNCHANGED <<mod, held, i, st, stop, nap, lost>>
    BY <2>1, Zenon DEF devVars, taskVars
  <2>4. /\ pc'[c] = "user" /\ \A d \in Client : d # c => pc'[d] = pc[d] /\ call'[d] = call[d]
    BY <2>1, ClientMoves, Zenon DEF Return
  <2>5. TypeOK'
    <3>1. /\ pc' \in [Client -> Controls] /\ call' \in [Client -> CallRecord]
          /\ ret' \in [Client -> Results]
      BY <1>b, <2>1, NoCallType, Zenon DEF Return, TypeOK, Controls, Results
    <3>2. QED
      BY <1>a, <2>1, <2>2, <2>3, <3>1, Zenon DEF TypeOK, Controls, Results
  <2>6. LifeInv'
    <3>1. i = 0 /\ i <= n'
      BY <1>a, <2>2 DEF LifeInv
    <3>2. QED
      BY <1>a, <2>3, <3>1, Zenon DEF LifeInv
  <2>7. ASSUME CountInv PROVE CountInv'
    <3>1. call[c].ld = n /\ n \in Slot /\ \A d \in Client : pc[d] \in InitPc => c = d
      BY <1>a, <2>7, Zenon DEF CountInv
    <3>2. n' = n + 1 /\ n + 1 <= MAX_PWM_NUM
      <4>1. n + 1 <= MAX_PWM_NUM
        BY <3>1, XenoAssumption DEF Slot, XenoAssumption
      <4>2. QED
        BY <2>1, <3>1, <4>1, Zenon
    <3>3. \A d \in Client : pc'[d] \notin InitPc /\ ~Starting(d)'
      BY <1>b, <1>c, <2>4, <3>1, Zenon DEF Starting
    <3>4. \A d \in Client : pc'[d] \in {"scan", "duty"} => call'[d].ld <= n + 1
      <4>1. ASSUME NEW d \in Client, pc'[d] \in {"scan", "duty"}
            PROVE  call'[d].ld = call[d].ld /\ call[d] \in CallRecord /\ call[d].ld <= n
        BY <2>4, <2>7, <4>1, Zenon DEF CountInv, TypeOK
      <4>2. ASSUME NEW x \in Nat, x <= n PROVE x <= n + 1
        BY <1>a, <4>2
      <4>3. QED
        BY <4>1, <4>2, CallFields, <1>a, Zenon
    <3>5. \A j \in Slot : j < n \/ j = n <=> j < n + 1
      BY <1>a, SMT DEF Slot
    <3>6. \A j \in Slot : st[j] # "none" <=> j < n + 1
      BY <1>a, <2>7, <3>5, Zenon DEF CountInv
    <3>7. QED
      BY <1>a, <2>3, <2>7, <3>2, <3>3, <3>4, <3>6, Zenon DEF CountInv
  <2>8. QED
    BY <1>a, <2>5, <2>6, <2>7, Zenon
<1>3. QED
  BY <1>1, <1>2, Zenon

(* The stores of PWM_INIT, its message, a new copy of the count, PWM_SET.  *)
LEMMA AnyIoctl ==
  ASSUME AnyInv, NEW c \in Client,
         init_fill(c) \/ init_print(c) \/ set_scan(c) \/ set_duty(c) \/ reload(c)
  PROVE  AnyInv' /\ raced' = raced
<1> USE DEF AnyInv
<1>a. /\ pwm_pin_count \in Nat /\ duty_array \in [Slot -> SlotOf(Pin)] /\ level \in [Pin -> {0, 1}]
      /\ ret \in [Client -> Results] /\ call[c] \in CallRecord /\ pc[c] \in Controls
      /\ call = [call EXCEPT ![c] = call[c]] /\ pc = [pc EXCEPT ![c] = pc[c]]
  BY Zenon DEF TypeOK, Results, Controls
<1>b. /\ pc[c] \in FillPc \union {"print", "task", "scan", "duty"} /\ ~Starting(c)
      /\ mod = "live"
  BY Zenon DEF init_fill, init_print, set_scan, set_duty, reload, FillPc, Starting, LifeInv
<1>c. /\ raced' = raced /\ raced' \in BOOLEAN
      /\ UNCHANGED <<devVars, pwm_pin_count, st, stop, nap, lost>>
  BY Zenon DEF init_fill, init_print, set_scan, set_duty, reload, Oops, taskVars, arrayVars, TypeOK
<1>d. {"task", "print", "duty", "user"} \union FillPc \subseteq Controls
  BY Zenon DEF Controls, InitPc, FillPc
<1>e. call[c].idx \in Nat /\ call[c].ld \in Nat /\ call[c].arg \in SlotOf(Pin)
  BY <1>a, CallFields, Zenon
<1>f. ASSUME CountInv
      PROVE  /\ pc[c] \in InitPc =>
                  call[c].ld = pwm_pin_count /\ \A d \in Client : d # c => pc[d] \notin InitPc
             /\ pc[c] \in {"scan", "duty"} => call[c].ld <= pwm_pin_count
  BY <1>f, Zenon DEF CountInv
(* It goes from inside PWM_INIT to inside PWM_INIT, or inside PWM_SET.     *)
<1>g. ASSUME NEW l \in Controls \ {"load", "incr"}, NEW r \in CallRecord,
             r.ld \in {call[c].ld, pwm_pin_count},
             \/ pc[c] \in InitPc /\ l \in InitPc
             \/ pc[c] \in {"scan", "duty"} /\ l \in {"scan", "duty"},
             pc' = [pc EXCEPT ![c] = l], call' = [call EXCEPT ![c] = r], ret' = ret,
             UNCHANGED <<fault, level>>, duty_array' \in [Slot -> SlotOf(Pin)]
      PROVE  AnyInv'
  <2>1. pwm_pin_count <= pwm_pin_count
    BY <1>a
  <2>2. {"scan", "duty"} \intersect InitPc = {}
    BY Zenon DEF InitPc, FillPc
  <2>3. CountInv => CallFits(c, l, r)
    BY <1>f, <1>g, <2>1, <2>2, Zenon DEF CallFits
  <2>4. QED
    BY <1>g, <1>a, <1>b, <1>c, <2>3, QuietKeeps, Zenon
<1>h. FillPc \union {"print", "task"} \subseteq InitPc \ {"load", "incr"}
  BY Zenon DEF InitPc, FillPc
<1>1. CASE init_fill(c)
  <2>1. CASE \E kind \in {"oob", "null"} : Oops(kind)
    BY <2>1, OopsKeeps, Zenon
  <2>2. CASE ~\E kind \in {"oob", "null"} : Oops(kind)
    <3>1. /\ pc[c] \in FillPc /\ call[c].ld \in Slot
          /\ duty_array' = [duty_array EXCEPT ![call[c].ld] =
                              Stored(duty_array[call[c].ld], call[c].arg, pc[c])]
          /\ pc' = [pc EXCEPT ![c] = AfterFill(pc[c])] /\ call' = call
          /\ UNCHANGED <<ret, fault, level>>
      BY <1>1, <2>2, Zenon DEF init_fill, Goto
    <3>2. Stored(duty_array[call[c].ld], call[c].arg, pc[c]) \in SlotOf(Pin)
      BY <1>a, <1>e, <3>1 DEF Stored, SlotOf, FillPc, InitialDuty
    <3>3. AfterFill(pc[c]) \in FillPc \union {"print"}
      BY <3>1, Zenon DEF AfterFill, FillPc
    <3>4. duty_array' \in [Slot -> SlotOf(Pin)]
      BY <1>a, <3>1, <3>2, Zenon
    <3>5. AfterFill(pc[c]) \in Controls \ {"load", "incr"} /\ AfterFill(pc[c]) \in InitPc
          /\ pc[c] \in InitPc
      BY <1>d, <1>h, <3>1, <3>3, Zenon
    <3>6. call' = [call EXCEPT ![c] = call[c]]
      BY <1>a, <3>1, Zenon
    <3>7. QED
      BY <1>a, <1>c, <1>g, <3>1, <3>4, <3>5, <3>6, Zenon
  <2>3. QED
    BY <2>1, <2>2, Zenon
<1>2. UNCHANGED arrayVars => duty_array' \in [Slot -> SlotOf(Pin)]
  BY <1>a, Zenon DEF arrayVars
<1>3. [call[c] EXCEPT !.ld = pwm_pin_count] \in CallRecord
      /\ [call[c] EXCEPT !.ld = pwm_pin_count].ld = pwm_pin_count
  BY <1>a, CallFields, ZenonT(60)
<1>4. CASE init_print(c)
  <2>1. CASE Oops("oob")
    BY <2>1, OopsKeeps, Zenon
  <2>2. CASE ~Oops("oob")
    <3>1. /\ pc[c] = "print" /\ pc' = [pc EXCEPT ![c] = "task"] /\ ret' = ret
          /\ call' = [call EXCEPT ![c] = [call[c] EXCEPT !.ld = pwm_pin_count]]
          /\ UNCHANGED <<fault, arrayVars, level>>
      BY <1>4, <2>2, Zenon DEF init_print, Goto
    <3>2. "task" \in Controls \ {"load", "incr"} /\ "task" \in InitPc /\ "print" \in InitPc
      BY <1>d, <1>h, Zenon
    <3>3. QED
      BY <1>2, <1>3, <1>c, <1>g, <3>1, <3>2, Zenon
  <2>3. QED
    BY <2>1, <2>2, Zenon
<1>5. CASE reload(c)
  <2>1. pc[c] \in Controls \ {"load", "incr"} /\ pc' = [pc EXCEPT ![c] = pc[c]]
    BY <1>5, <1>a, <1>b, Zenon DEF reload, Starting
  <2>2. call' = [call EXCEPT ![c] = [call[c] EXCEPT !.ld = pwm_pin_count]] /\ ret' = ret
        /\ UNCHANGED <<fault, arrayVars, level>>
    BY <1>5, Zenon DEF reload
  <2>3. pc[c] \in InitPc \/ pc[c] \in {"scan", "duty"}
    BY <1>b, <1>h, Zenon
  <2>4. QED
    BY <1>2, <1>3, <1>c, <1>g, <2>1, <2>2, <2>3, Zenon
<1>6. CASE set_scan(c) /\ Return(c, "warned") /\ UNCHANGED <<fault, devVars, arrayVars, taskVars, level>>
  BY <1>6, <1>a, <1>b, <1>c, ReturnKeeps, Zenon DEF Results, arrayVars
<1>7. CASE set_scan(c) /\ ~Return(c, "warned")
  <2>1. [call[c] EXCEPT !.idx = call[c].idx + 1] \in CallRecord
        /\ [call[c] EXCEPT !.idx = call[c].idx + 1].ld = call[c].ld
    <3>1. call[c].idx + 1 \in Nat
      BY <1>e
    <3>2. QED
      BY <1>a, <3>1, CallFields, Zenon
  <2>2. pc[c] = "scan" /\ {"scan", "duty"} \subseteq Controls \ {"load", "incr"}
    BY <1>7, Zenon DEF set_scan, Controls
  <2>3. CASE Oops("oob")
    BY <2>3, OopsKeeps, Zenon
  <2>4. CASE pc' = [pc EXCEPT ![c] = "duty"] /\ UNCHANGED <<ret, call, fault, arrayVars, level>>
    <3>1. call' = [call EXCEPT ![c] = call[c]]
      BY <1>a, <2>4, Zenon
    <3>2. QED
      BY <1>2, <1>a, <1>c, <1>g, <2>2, <2>4, <3>1, Zenon
  <2>5. CASE /\ call' = [call EXCEPT ![c] = [call[c] EXCEPT !.idx = call[c].idx + 1]]
             /\ UNCHANGED <<pc, ret, fault, arrayVars, level>>
    <3>1. pc' = [pc EXCEPT ![c] = "scan"]
      BY <1>a, <2>2, <2>5, Zenon
    <3>2. QED
      BY <1>2, <1>c, <1>g, <2>1, <2>2, <2>5, <3>1, Zenon
  <2>6. QED
    BY <1>7, <2>3, <2>4, <2>5, Zenon DEF set_scan, Goto
<1>8. CASE set_duty(c)
  <2>1. duty_array' \in [Slot -> SlotOf(Pin)]
    BY <1>8, <1>a, <1>e, ZenonT(30) DEF set_duty, SlotOf
  <2>2. QED
    BY <1>8, <1>a, <1>b, <1>c, <2>1, ReturnKeeps, Zenon DEF set_duty, Results
<1>9. CASE set_scan(c) /\ Return(c, "warned") /\ ~UNCHANGED <<fault, devVars, arrayVars, taskVars, level>>
  <2>1. Oops("oob")
    BY <1>9, Zenon DEF set_scan
  <2>2. QED
    BY <2>1, OopsKeeps, Zenon
<1>10. QED
  BY <1>1, <1>4, <1>5, <1>6, <1>7, <1>8, <1>9, Zenon

LEMMA AnyStep ==
  ASSUME AnyInv, [Next]_vars
  PROVE  AnyInv'
<1>1. CASE UNCHANGED vars
  <2>1. UNCHANGED <<mod, held, i, pwm_pin_count, duty_array, st, stop, nap, lost, raced, level,
                    pc, call, ret, fault>>
    BY <1>1, Zenon DEF vars, devVars, arrayVars, taskVars, clientVars
  <2>2. TypeOK' /\ LifeInv' /\ (CountInv => CountInv')
    BY <2>1, Zenon DEF AnyInv, TypeOK, CountInv, LifeInv, Starting
  <2>3. QED
    BY <2>1, <2>2, Zenon DEF AnyInv
<1>2. CASE Next
  BY <1>2, AnyModule, AnyUser, AnyTask, AnyCount, AnyIoctl, TaskStep, LostStep, Zenon
     DEF Next, ioctl_step
<1>3. QED
  BY <1>1, <1>2, Zenon

LEMMA AnyAlways == Spec => []AnyInv
<1>1. Init => AnyInv
  BY AnyInit, Zenon
<1>2. AnyInv /\ [Next]_vars => AnyInv'
  BY AnyStep, Zenon
<1>3. QED
  BY <1>1, <1>2, PTL DEF Spec

(* Whatever its users do, xenoPWM's variables keep their types.            *)
THEOREM TypeCorrect == Spec => []TypeOK
<1>1. AnyInv => TypeOK
  BY Zenon DEF AnyInv
<1>2. QED
  BY <1>1, AnyAlways, PTL

(* While no two PWM_INIT calls have overlapped, whatever else its users    *)
(* do, rtdm_task_destroy meets only started tasks.                         *)
THEOREM CountedTasksWereStarted == Spec => []CountedIsInited
<1>1. AnyInv => CountedIsInited
  BY Zenon DEF AnyInv, CountInv, CountedIsInited
<1>2. QED
  BY <1>1, AnyAlways, PTL

(* While no two PWM_INIT calls have overlapped, whatever else its users    *)
(* do, no task runs once the registers are unmapped.                       *)
THEOREM UnloadIsQuiet == Spec => []QuietAfterUnload
<1>1. AnyInv => QuietAfterUnload
  BY Zenon DEF AnyInv, CountInv, LifeInv, QuietAfterUnload, Starting
<1>2. QED
  BY <1>1, AnyAlways, PTL

=============================================================================
