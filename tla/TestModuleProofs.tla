--------------------------- MODULE TestModuleProofs ---------------------------
(***************************************************************************)
(* Proofs about the two test modules.  First PIN_SET and the gpio access   *)
(* test (GpioSelect, GpioAccess), for any clients, pins and starting       *)
(* functions of the pins.  Then the data-passing test (PassTest), for any  *)
(* clients and values.                                                     *)
(***************************************************************************)
EXTENDS GpioAccess, PassTest, TLAPS

(* More than the prover's default time, for a loaded machine.              *)
USE SMTT(30)

(* The edit of a field: INPUT clears it, OUTPUT makes it odd, and 1 after  *)
(* an INPUT.                                                               *)
LEMMA EditRight ==
  ASSUME NEW f \in 0 .. 7
  PROVE  /\ Edit(f, INPUT) = 0 /\ Edit(f, INPUT) \in 0 .. 7
         /\ Edit(f, OUTPUT) \in 0 .. 7 /\ Edit(f, OUTPUT) % 2 = 1
         /\ f = 0 => Edit(f, OUTPUT) = 1
BY DEF Edit, INPUT, OUTPUT

(* A step of a PIN_SET call of client c.                                   *)
GpioCall(c) ==
  \/ \E p \in Uses(c), t \in {INPUT, OUTPUT} : PIN_SET(c, p, t)
  \/ load(c)
  \/ store(c)

(* A pin that no client ever names.                                        *)
Unnamed(q) == \A d \in Client : q \notin Uses(d)

(* The pins start in the inductive invariant.                              *)
LEMMA GpioInit ==
  ASSUME Init
  PROVE  GpioInv
<1> USE DEF Init
<1>1. TypeOK
  <2>1. InitFsel \subseteq 0 .. 7 /\ fsel \in [Pin -> InitFsel]
    BY GpioAssumption, Zenon DEF GpioAssumption
  <2>2. fsel \in [Pin -> 0 .. 7]
    BY <2>1, Zenon
  <2>3. QED
    BY <2>2 DEF TypeOK, INPUT
<1>2. CallInv /\ LateInv /\ CopyInv
  BY Zenon DEF CallInv, LateInv, CopyInv
<1>3. LastSetHolds
  BY DEF LastSetHolds, INPUT, OUTPUT
<1>4. QED
  BY <1>1, <1>2, <1>3 DEF GpioInv

(* The registers after a store: the caller's pin as it asked, the pins     *)
(* nobody names as they were.                                              *)
LEMMA StoreEffect ==
  ASSUME TypeOK, CallInv, NEW c \in Client, store(c)
  PROVE  /\ pin[c] \in Pin /\ pin[c] \in Uses(c) /\ pc[c] = "store" /\ reg[c][pin[c]] \in 0 .. 7
         /\ fsel' \in [Pin -> 0 .. 7]
         /\ fsel'[pin[c]] = Edit(reg[c][pin[c]], type[c])
         /\ \A q \in Pin : q # pin[c] =>
              fsel'[q] = IF q \in Neighbours(pin[c]) THEN reg[c][q] ELSE fsel[q]
         /\ \A q \in Pin : Unnamed(q) => fsel'[q] = fsel[q]
         /\ Completed(c)
         /\ pc' = [pc EXCEPT ![c] = "user"] /\ UNCHANGED <<pin, type, reg>>
<1>1. /\ pin[c] \in Pin /\ pin[c] \in Uses(c) /\ pc[c] = "store" /\ reg[c] \in [Pin -> 0 .. 7]
      /\ type[c] \in {INPUT, OUTPUT} /\ fsel \in [Pin -> 0 .. 7]
  BY GpioAssumption, Zenon DEF GpioAssumption, TypeOK, CallInv, store
<1>2. fsel' = [q \in Pin |->
                CASE q = pin[c] -> Edit(reg[c][q], type[c])
                  [] q # pin[c] /\ q \in Neighbours(pin[c]) -> reg[c][q]
                  [] OTHER -> fsel[q]]
  BY Zenon DEF store
<1>3. fsel'[pin[c]] = Edit(reg[c][pin[c]], type[c])
  BY <1>1, <1>2, Zenon
<1>4. \A q \in Pin : q # pin[c] =>
        fsel'[q] = IF q \in Neighbours(pin[c]) THEN reg[c][q] ELSE fsel[q]
  BY <1>2, Zenon
<1>5. Edit(reg[c][pin[c]], type[c]) \in 0 .. 7
  <2>1. reg[c][pin[c]] \in 0 .. 7
    BY <1>1, Zenon
  <2>2. QED
    BY <1>1, <2>1, EditRight, Zenon
<1>6. \A q \in Pin : fsel'[q] \in 0 .. 7
  BY <1>1, <1>3, <1>4, <1>5, Zenon
<1>7. fsel' \in [Pin -> 0 .. 7]
  BY <1>2, <1>6, Zenon
<1>8. \A q \in Pin : Unnamed(q) => fsel'[q] = fsel[q] /\ q # pin[c]
  BY <1>1, <1>4, Zenon DEF Unnamed, CallInv
<1>9. QED
  BY <1>1, <1>3, <1>4, <1>7, <1>8, Zenon DEF store

(* What the completion of c's call does to the histories.                  *)
LEMMA CompletedEffect ==
  ASSUME TypeOK, LateInv, NEW c \in Client, pin[c] \in Pin, pin[c] \in Uses(c), Completed(c)
  PROVE  /\ want' \in [Pin -> {INPUT, OUTPUT, -1}] /\ late' \in [Client -> SUBSET Pin]
         /\ want'[pin[c]] = type[c]
         /\ \A q \in Pin : q # pin[c] /\ want'[q] # -1 => q \notin late[c] /\ want'[q] = want[q]
         /\ \A d \in Client : d # c => late[d] \subseteq late'[d]
         /\ \A d \in Client : d # c /\ pc[d] = "store" /\ pin[c] \in Neighbours(pin[d])
                              => pin[c] \in late'[d]
         /\ LateInv'
<1>1. /\ want' = [q \in Pin |-> IF q = pin[c] THEN type[c]
                                ELSE IF q \in late[c] THEN -1 ELSE want[q]]
      /\ late' = [d \in Client |->
                    IF d = c THEN {}
                    ELSE IF pc[d] = "store" /\ pin[c] \in Neighbours(pin[d])
                           THEN late[d] \union {pin[c]} ELSE late[d]]
  BY Zenon DEF Completed
<1>2. /\ want'[pin[c]] = type[c] /\ type[c] \in {INPUT, OUTPUT}
      /\ \A q \in Pin : q # pin[c] => want'[q] = IF q \in late[c] THEN -1 ELSE want[q]
  BY <1>1, Zenon DEF TypeOK
<1>3. want' \in [Pin -> {INPUT, OUTPUT, -1}]
  <2>1. \A q \in Pin : want'[q] \in {INPUT, OUTPUT, -1}
    BY <1>2, Zenon DEF TypeOK
  <2>2. QED
    BY <1>1, <2>1, Zenon
<1>4. \A d \in Client : late'[d] = IF d = c THEN {}
                    ELSE IF pc[d] = "store" /\ pin[c] \in Neighbours(pin[d])
                           THEN late[d] \union {pin[c]} ELSE late[d]
  BY <1>1, Zenon
<1>5. late' \in [Client -> SUBSET Pin]
  <2>1. \A d \in Client : late'[d] \in SUBSET Pin
    BY <1>4, Zenon DEF TypeOK
  <2>2. QED
    BY <1>1, <2>1, Zenon
<1>6. ASSUME NEW d \in Client, NEW q \in late'[d] PROVE \E e \in Client \ {d} : q \in Uses(e)
  <2>1. d # c /\ (q \in late[d] \/ q = pin[c])
    BY <1>4, Zenon
  <2>2. q = pin[c] => q \in Uses(c) /\ c \in Client \ {d}
    BY <2>1, Zenon
  <2>3. QED
    BY <2>1, <2>2, Zenon DEF LateInv
<1>7. LateInv'
  BY <1>6, Zenon DEF LateInv
<1>8. QED
  BY <1>2, <1>3, <1>4, <1>5, <1>7, Zenon

(* A step of PIN_SET keeps the types, and what calls know of the pins that *)
(* nobody names.                                                           *)
LEMMA GpioCallKeeps ==
  ASSUME TypeOK, CallInv, LateInv, NEW c \in Client, GpioCall(c)
  PROVE  /\ TypeOK' /\ CallInv' /\ LateInv'
         /\ \A q \in Pin : Unnamed(q) => fsel'[q] = fsel[q]
<1>1. CASE \E p \in Uses(c), t \in {INPUT, OUTPUT} : PIN_SET(c, p, t)
  <2>1. PICK p \in Uses(c), t \in {INPUT, OUTPUT} : PIN_SET(c, p, t)
    BY <1>1, Zenon
  <2>2. p \in Pin
    BY GpioAssumption, Zenon DEF GpioAssumption
  <2>3. TypeOK'
    BY <2>1, <2>2, Zenon DEF TypeOK, PIN_SET
  <2>4. CallInv'
    BY <2>1, <2>2, Zenon DEF TypeOK, CallInv, PIN_SET
  <2>5. QED
    BY <2>1, <2>3, <2>4, Zenon DEF PIN_SET, LateInv
<1>2. CASE load(c)
  <2>1. TypeOK'
    BY <1>2, Zenon DEF TypeOK, load
  <2>2. CallInv'
    BY <1>2 DEF TypeOK, CallInv, load
  <2>3. QED
    BY <1>2, <2>1, <2>2, Zenon DEF load, LateInv
<1>3. CASE store(c)
  <2>1. /\ pin[c] \in Pin /\ pin[c] \in Uses(c) /\ fsel' \in [Pin -> 0 .. 7] /\ Completed(c)
        /\ pc' = [pc EXCEPT ![c] = "user"] /\ UNCHANGED <<pin, type, reg>>
        /\ \A q \in Pin : Unnamed(q) => fsel'[q] = fsel[q]
    BY <1>3, StoreEffect, Zenon
  <2>2. /\ want' \in [Pin -> {INPUT, OUTPUT, -1}] /\ late' \in [Client -> SUBSET Pin]
        /\ LateInv'
    BY <2>1, CompletedEffect, Zenon
  <2>3. TypeOK'
    BY <2>1, <2>2, Zenon DEF TypeOK, INPUT, OUTPUT
  <2>4. CallInv'
    <3>1. ASSUME NEW d \in Client, pc'[d] # "user"
          PROVE  d # c /\ pc'[d] = pc[d]
      BY <2>1, <3>1, Zenon DEF TypeOK
    <3>2. ASSUME NEW d \in Client, pc'[d] # "user"
          PROVE  /\ pin'[d] \in Uses(d)
                 /\ pc'[d] = "store" => \A q \in Pin : Unnamed(q) => reg'[d][q] = fsel'[q]
      BY <2>1, <3>1, <3>2, Zenon DEF CallInv, Unnamed
    <3>3. QED
      BY <3>2, Zenon DEF CallInv, Unnamed
  <2>5. QED
    BY <2>1, <2>2, <2>3, <2>4, Zenon
<1>4. QED
  BY <1>1, <1>2, <1>3, Zenon DEF GpioCall

(* A store leaves the other pins as they are, unless their setting is lost *)
(* to it.                                                                  *)
LEMMA StoreKeepsSet ==
  ASSUME GpioInv, NEW c \in Client, store(c), NEW q \in Pin, q # pin[c], want'[q] # -1
  PROVE  fsel'[q] = fsel[q] /\ want'[q] = want[q]
<1>1. pin[c] \in Pin /\ pin[c] \in Uses(c) /\ Completed(c) /\ pc[c] = "store"
  BY StoreEffect, Zenon DEF GpioInv
<1>2. q \notin late[c] /\ want'[q] = want[q]
  BY <1>1, CompletedEffect, Zenon DEF GpioInv
<1>3. q \in Neighbours(pin[c]) => reg[c][q] = fsel[q]
  BY <1>1, <1>2, Zenon DEF GpioInv, CopyInv
<1>4. fsel'[q] = IF q \in Neighbours(pin[c]) THEN reg[c][q] ELSE fsel[q]
  BY StoreEffect, Zenon DEF GpioInv
<1>5. QED
  BY <1>2, <1>3, <1>4, Zenon

(* A step of PIN_SET keeps the inductive invariant.                        *)
LEMMA GpioCallStep ==
  ASSUME GpioInv, NEW c \in Client, GpioCall(c)
  PROVE  GpioInv'
<1>0. TypeOK /\ CallInv /\ LateInv /\ CopyInv /\ LastSetHolds
  BY Zenon DEF GpioInv
<1>1. TypeOK' /\ CallInv' /\ LateInv'
  BY <1>0, GpioCallKeeps, Zenon
<1>2. CASE ~store(c)
  <2>1. /\ UNCHANGED <<fsel, want, late>>
        /\ \A d \in Client : pc'[d] = "store" =>
             pin'[d] = pin[d] /\ (reg'[d] = fsel \/ (pc[d] = "store" /\ reg'[d] = reg[d]))
    BY <1>0, <1>2 DEF GpioCall, PIN_SET, load, TypeOK
  <2>2. ASSUME NEW d \in Client, pc'[d] = "store",
               NEW q \in Pin, q \div PerWord = pin'[d] \div PerWord,
               q \notin late'[d], want'[q] # -1
        PROVE  reg'[d][q] = fsel'[q]
    <3>1. q \in Neighbours(pin[d])
      BY <2>1, <2>2, Zenon DEF Neighbours
    <3>2. QED
      BY <1>0, <2>1, <2>2, <3>1, Zenon DEF CopyInv
  <2>3. CopyInv'
    BY <2>2, Zenon DEF CopyInv, Neighbours
  <2>4. LastSetHolds'
    BY <1>0, <2>1, Zenon DEF LastSetHolds
  <2>5. QED
    BY <1>1, <2>3, <2>4, Zenon DEF GpioInv
<1>3. CASE store(c)
  <2>1. /\ pin[c] \in Pin /\ pin[c] \in Uses(c) /\ reg[c][pin[c]] \in 0 .. 7
        /\ fsel'[pin[c]] = Edit(reg[c][pin[c]], type[c]) /\ Completed(c)
        /\ pc' = [pc EXCEPT ![c] = "user"] /\ UNCHANGED <<pin, type, reg>>
    BY <1>0, <1>3, StoreEffect, Zenon
  <2>2. /\ want'[pin[c]] = type[c]
        /\ \A d \in Client : d # c => late[d] \subseteq late'[d]
        /\ \A d \in Client : d # c /\ pc[d] = "store" /\ pin[c] \in Neighbours(pin[d])
                             => pin[c] \in late'[d]
    BY <1>0, <2>1, CompletedEffect, Zenon
  <2>3. CopyInv'
    <3> SUFFICES ASSUME NEW d \in Client, pc'[d] = "store", NEW q \in Neighbours(pin[d]),
                        q \notin late'[d], want'[q] # -1
                 PROVE  reg[d][q] = fsel'[q]
      BY <2>1, Zenon DEF CopyInv, Neighbours
    <3>1. d # c /\ pc[d] = "store"
      BY <1>0, <2>1, Zenon DEF TypeOK
    <3>2. q \in Pin /\ q # pin[c] /\ q \notin late[d]
      BY <2>2, <3>1, Zenon DEF Neighbours
    <3>3. fsel'[q] = fsel[q] /\ want'[q] = want[q]
      BY <1>3, <3>2, StoreKeepsSet, Zenon
    <3>4. QED
      BY <1>0, <3>1, <3>2, <3>3, Zenon DEF CopyInv
  <2>4. LastSetHolds'
    <3> SUFFICES ASSUME NEW p \in Pin
                 PROVE  /\ want'[p] = OUTPUT => fsel'[p] % 2 = 1
                        /\ want'[p] = INPUT => fsel'[p] = 0
      BY Zenon DEF LastSetHolds, INPUT, OUTPUT
    <3>1. CASE p = pin[c]
      <4>1. want'[p] = type[c] /\ type[c] \in {INPUT, OUTPUT}
        BY <1>0, <2>2, <3>1, Zenon DEF TypeOK
      <4>2. fsel'[p] = Edit(reg[c][p], want'[p]) /\ reg[c][p] \in 0 .. 7
        BY <2>1, <3>1, <4>1, Zenon
      <4>3. QED
        BY <4>2, EditRight
    <3>2. CASE p # pin[c] /\ want'[p] # -1
      BY <1>0, <1>3, <3>2, StoreKeepsSet, Zenon DEF LastSetHolds
    <3>3. CASE want'[p] = -1
      BY <3>3 DEF INPUT, OUTPUT
    <3>4. QED
      BY <3>1, <3>2, <3>3, Zenon
  <2>5. QED
    BY <1>1, <2>3, <2>4, Zenon DEF GpioInv
<1>4. QED
  BY <1>2, <1>3, Zenon

(* So does a step that leaves the pins alone.                              *)
LEMMA GpioUnchanged ==
  ASSUME UNCHANGED vars
  PROVE  /\ TypeOK => TypeOK'
         /\ CallInv => CallInv'
         /\ LateInv => LateInv'
         /\ GpioInv => GpioInv'
<1>1. UNCHANGED <<fsel, pc, pin, type, reg, want, late>>
  BY Zenon DEF vars
<1>2. (TypeOK => TypeOK') /\ (CallInv => CallInv') /\ (LateInv => LateInv')
      /\ (LastSetHolds => LastSetHolds')
  BY <1>1, Zenon DEF TypeOK, CallInv, LateInv, LastSetHolds, INPUT, OUTPUT
<1>3. CopyInv => CopyInv'
  BY <1>1, Zenon DEF CopyInv, Neighbours
<1>4. QED
  BY <1>2, <1>3, Zenon DEF GpioInv

(* What a step of the composition is to the calls.                         *)
LEMMA TestStepCases ==
  ASSUME TestPin \in Uses(Loader), [TestNext]_allVars
  PROVE  (\E c \in Client : GpioCall(c)) \/ UNCHANGED vars
<1>1. Loader \in Client
  BY LoaderAssumption, Zenon DEF LoaderAssumption
<1>2. gp_input \/ gp_output => GpioCall(Loader)
  BY Zenon DEF gp_input, gp_output, GpioCall
<1>3. UNCHANGED allVars => UNCHANGED vars
  BY DEF allVars
<1>4. QED
  BY <1>1, <1>2, <1>3, Zenon DEF TestNext, gp_map, gp_set, gp_exit, GpioCall, AnyStore

(* No other process names the test's pin.                                  *)
OwnPin == TestPin \in Uses(Loader) /\ \A c \in Client \ {Loader} : TestPin \notin Uses(c)

(* A store of the loader, when no stale copy was written over the pin.     *)
LEMMA LoaderStore ==
  ASSUME OwnPin, GpioInv, LoaderInv, store(Loader), UNCHANGED <<gp, latch>>, clash' = clash
  PROVE  LoaderInv'
<1> DEFINE l == Loader
           P == TestPin
<1>0. l \in Client /\ P \in Pin
  BY LoaderAssumption, Zenon DEF LoaderAssumption
<1>1. /\ pin[l] \in Pin /\ pc[l] = "store" /\ pin[l] \in Uses(l) /\ Completed(l)
      /\ pc' = [pc EXCEPT ![l] = "user"] /\ UNCHANGED <<pin, type>>
      /\ fsel'[pin[l]] = Edit(reg[l][pin[l]], type[l]) /\ reg[l][pin[l]] \in 0 .. 7
  BY <1>0, StoreEffect, Zenon DEF GpioInv
<1>2. pc'[l] = "user"
  BY <1>0, <1>1, Zenon DEF GpioInv, TypeOK
<1>3. want'[pin[l]] = type[l]
  BY <1>0, <1>1, CompletedEffect, Zenon DEF GpioInv
<1>4. gp \in {"output", "set", "oops"}
  BY <1>1, Zenon DEF LoaderInv
<1>5. CASE gp = "output"
  <2>1. pin[l] = P /\ type[l] = INPUT
    BY <1>5, Zenon DEF LoaderInv
  <2>2. QED
    BY <1>1, <1>2, <1>3, <1>5, <2>1, Zenon DEF LoaderInv
<1>6. CASE gp = "set"
  <2>1. pin[l] = P /\ type[l] = OUTPUT /\ (~clash => want[P] = INPUT)
    BY <1>1, <1>6, Zenon DEF LoaderInv
  <2>2. ASSUME ~clash PROVE fsel'[P] = 1
    <3>1. P \notin late[l] /\ P \in Neighbours(pin[l])
      BY <1>0, <2>1, Zenon DEF OwnPin, GpioInv, LateInv, Neighbours
    <3>2. want[P] # -1 /\ want[P] = INPUT
      BY <2>1, <2>2 DEF INPUT
    <3>3. reg[l][P] = 0
      BY <1>0, <1>1, <3>1, <3>2, Zenon DEF GpioInv, CopyInv, LastSetHolds
    <3>4. QED
      BY <1>1, <2>1, <3>3, EditRight, Zenon
  <2>3. QED
    BY <1>1, <1>2, <1>3, <1>6, <2>1, <2>2, Zenon DEF LoaderInv
<1>7. CASE gp = "oops"
  BY <1>7, Zenon DEF LoaderInv
<1>8. QED
  BY <1>4, <1>5, <1>6, <1>7, Zenon

(* A store of another client.                                              *)
LEMMA OtherStore ==
  ASSUME OwnPin, GpioInv, LoaderInv, NEW c \in Client, c # Loader, AnyStore(c)
  PROVE  LoaderInv'
<1> DEFINE l == Loader
           P == TestPin
<1>0. /\ l \in Client /\ P \in Pin /\ store(c) /\ UNCHANGED <<gp, latch>>
      /\ clash' = (clash \/ P \in late[c]) /\ clash \in BOOLEAN
  BY LoaderAssumption, Zenon DEF LoaderAssumption, AnyStore, LoaderInv
<1>1. /\ pin[c] \in Pin /\ pin[c] \in Uses(c) /\ Completed(c) /\ UNCHANGED <<pin, type>>
      /\ pc' = [pc EXCEPT ![c] = "user"]
  BY <1>0, StoreEffect, Zenon DEF GpioInv
<1>2. pc'[l] = pc[l] /\ pin[c] # P
  BY <1>0, <1>1, Zenon DEF GpioInv, TypeOK, OwnPin
<1>3. clash' \in BOOLEAN /\ (~clash' => ~clash /\ P \notin late[c])
  BY <1>0, Zenon
<1>4. P \notin late[c] => want'[P] = want[P]
  BY <1>0, <1>1, <1>2, Zenon DEF Completed
<1>5. P \notin late[c] /\ want[P] # -1 => fsel'[P] = fsel[P]
  BY <1>0, <1>2, <1>4, StoreKeepsSet, Zenon
<1>6. OUTPUT # -1
  BY DEF OUTPUT
<1>7. QED
  BY <1>0, <1>1, <1>2, <1>3, <1>4, <1>5, <1>6, Zenon DEF LoaderInv

(* The loader's own progress.                                              *)
LEMMA LoaderStep ==
  ASSUME OwnPin, AccessInv, [TestNext]_allVars
  PROVE  LoaderInv'
<1> DEFINE l == Loader
<1>0. /\ l \in Client /\ GpioInv /\ LoaderInv
      /\ DOMAIN pc = Client /\ DOMAIN pin = Client /\ DOMAIN type = Client
      /\ pc[l] \in {"user", "load", "store"}
  BY LoaderAssumption, Zenon DEF AccessInv, LoaderAssumption, GpioInv, TypeOK
<1>1. CASE UNCHANGED allVars
  BY <1>0, <1>1, Zenon DEF allVars, vars, testVars, LoaderInv
<1>2. CASE UNCHANGED vars /\ (gp_map \/ gp_set \/ gp_exit)
  BY <1>0, <1>2, Zenon DEF vars, gp_map, gp_set, gp_exit, LoaderInv
<1>3. CASE gp_input
  BY <1>0, <1>3, Zenon DEF gp_input, PIN_SET, LoaderInv
<1>4. CASE gp_output
  BY <1>0, <1>4, Zenon DEF gp_output, PIN_SET, LoaderInv
<1>5. CASE /\ UNCHANGED testVars
           /\ \E c \in Client : load(c) \/ (c # l /\ \E p \in Uses(c), t \in {INPUT, OUTPUT} : PIN_SET(c, p, t))
  <2>1. PICK c \in Client : load(c) \/ (c # l /\ \E p \in Uses(c), t \in {INPUT, OUTPUT} : PIN_SET(c, p, t))
    BY <1>5, Zenon
  <2>2. /\ pin'[l] = pin[l] /\ type'[l] = type[l] /\ UNCHANGED <<fsel, want, gp, latch, clash>>
        /\ pc'[l] = "user" <=> pc[l] = "user"
    BY <1>0, <1>5, <2>1 DEF PIN_SET, load, testVars
  <2>3. QED
    BY <1>0, <2>2, Zenon DEF LoaderInv
<1>6. CASE \E c \in Client : AnyStore(c)
  <2>1. PICK c \in Client : AnyStore(c)
    BY <1>6, Zenon
  <2>2. CASE c = l
    <3>1. clash' = (clash \/ FALSE) /\ UNCHANGED <<gp, latch>> /\ store(l)
      BY <2>1, <2>2, Zenon DEF AnyStore
    <3>2. clash' = clash
      BY <1>0, <3>1, Zenon DEF LoaderInv
    <3>3. QED
      BY <1>0, <3>1, <3>2, LoaderStore, Zenon
  <2>3. CASE c # l
    BY <1>0, <2>1, <2>3, OtherStore, Zenon
  <2>4. QED
    BY <2>2, <2>3, Zenon
<1>7. CASE TestNext
  BY <1>2, <1>3, <1>4, <1>5, <1>6, <1>7, Zenon DEF TestNext, gp_map, gp_set, gp_exit
<1>8. QED
  BY <1>1, <1>7, Zenon

(* Whatever processes call PIN_SET for whatever pins, the function last    *)
(* set for a pin stays set, but for the settings that come between another *)
(* call's read of their register and its write.                            *)
THEOREM LastSetSurvives ==
  Spec => []LastSetHolds
<1>1. Init => GpioInv
  BY GpioInit, Zenon
<1>2. GpioInv /\ [Next]_vars => GpioInv'
  BY GpioCallStep, GpioUnchanged, Zenon DEF Next, GpioCall
<1>3. GpioInv => LastSetHolds
  BY Zenon DEF GpioInv
<1>4. QED
  BY <1>1, <1>2, <1>3, PTL DEF Spec

(* The same while the gpio access test is loaded and unloaded beside them. *)
THEOREM LastSetSurvivesTest ==
  ASSUME TestPin \in Uses(Loader)
  PROVE  TestSpec => []LastSetHolds
<1>1. TestInit => GpioInv
  BY GpioInit, Zenon DEF TestInit
<1>2. GpioInv /\ [TestNext]_allVars => GpioInv'
  BY TestStepCases, GpioCallStep, GpioUnchanged, Zenon
<1>3. GpioInv => LastSetHolds
  BY Zenon DEF GpioInv
<1>4. QED
  BY <1>1, <1>2, <1>3, PTL DEF TestSpec

(* While the gpio access test has set its pin high, the pin is an output,  *)
(* unless a PIN_SET for another pin of the register, which no lock keeps   *)
(* out, has written a stale copy over it.  No other process sets the pin.  *)
THEOREM TestDrivesAnOutput ==
  ASSUME OwnPin
  PROVE  TestSpec => []HighPinIsOutput
<1>1. TestInit => AccessInv
  <2>1. Init => GpioInv
    BY GpioInit, Zenon
  <2>2. Init /\ gp = "out" /\ latch = 0 /\ clash = FALSE => LoaderInv
    <3>1. latch = 0 => latch # 1
      BY SMT
    <3>2. Init => pc[Loader] = "user"
      BY LoaderAssumption, Zenon DEF Init, LoaderAssumption
    <3>3. QED
      BY <3>1, <3>2, Zenon DEF LoaderInv
  <2>3. QED
    BY <2>1, <2>2, Zenon DEF TestInit, AccessInv
<1>2. AccessInv /\ [TestNext]_allVars => AccessInv'
  BY LoaderStep, TestStepCases, GpioCallStep, GpioUnchanged, Zenon DEF AccessInv, OwnPin
<1>3. AccessInv => HighPinIsOutput
  BY Zenon DEF AccessInv, LoaderInv, HighPinIsOutput
<1>4. QED
  BY <1>1, <1>2, <1>3, PTL DEF TestSpec

(* No call, not even one of clients that race for a register, changes the  *)
(* function of a pin that nobody names.                                    *)
THEOREM UnnamedPinsKept ==
  ASSUME TestPin \in Uses(Loader)
  PROVE  TestSpec => OthersKeepFunction
<1> DEFINE Inv == TypeOK /\ CallInv /\ LateInv
           Kept == \A p \in Pin : (\A c \in Client : p \notin Uses(c)) => fsel'[p] = fsel[p]
<1>1. TestInit => Inv
  BY GpioInit, Zenon DEF TestInit, GpioInv
<1>2. Inv /\ [TestNext]_allVars => Inv' /\ [Kept]_vars
  <2>1. ASSUME Inv, NEW c \in Client, GpioCall(c) PROVE Inv' /\ Kept
    BY <2>1, GpioCallKeeps, Zenon DEF Unnamed
  <2>2. QED
    BY <2>1, TestStepCases, GpioUnchanged, Zenon
<1>3. QED
  BY <1>1, <1>2, PTL DEF TestSpec, OthersKeepFunction

-----------------------------------------------------------------------------
(* A sequence with the values of a function is that function.              *)
LEMMA SameSeq ==
  ASSUME NEW N \in Nat, NEW s \in Seq(Value), Len(s) = N, NEW f \in [1 .. N -> Value],
         \A k \in 1 .. N : s[k] = f[k]
  PROVE  s = f
OBVIOUS

(* What Append does.                                                       *)
LEMMA AppendFacts ==
  ASSUME NEW V, NEW s \in Seq(V), NEW v \in V
  PROVE  /\ Append(s, v) \in Seq(V) /\ Len(s) \in Nat /\ Len(Append(s, v)) = Len(s) + 1
         /\ \A k \in 1 .. Len(s) : Append(s, v)[k] = s[k]
         /\ Append(s, v)[Len(s) + 1] = v
OBVIOUS

(* What a step of client c leaves to the calls of another client d.        *)
LEMMA OtherCall ==
  ASSUME PassInv, NEW c \in Caller, NEW d \in Caller, c # d,
         step'[d] = step[d], arg'[d] = arg[d], out'[d] = out[d], idx'[d] = idx[d],
         alone'[d] => alone[d],
         \A e \in Caller \ {c} : step'[e] = step[e],
         step[d] \notin Outside /\ alone'[d] => step'[c] \in Outside,
         (pwm_data' = pwm_data /\ a' = a) \/ step[c] \notin Outside
  PROVE  LocalsInv(d)' /\ (alone'[d] => AloneInv(d)')
<1> USE DEF PassInv, Outside
<1>1. LocalsInv(d)'
  BY DEF LocalsInv
<1>2. ASSUME alone'[d] PROVE AloneInv(d)'
  <2>1. AloneInv(d)
    BY <1>2, Zenon
  <2>2. step[d] \notin Outside => \A e \in Caller \ {d} : step'[e] \in Outside
    BY <1>2, <2>1 DEF AloneInv
  <2>3. step[d] \notin Outside => pwm_data' = pwm_data /\ a' = a
    BY <2>1, Zenon DEF AloneInv
  <2>4. QED
    BY <2>1, <2>2, <2>3 DEF AloneInv
<1>3. QED
  BY <1>1, <1>2, Zenon

(* The test module starts in the inductive invariant.                      *)
LEMMA PassStarts ==
  ASSUME PassInit
  PROVE  PassInv
<1> USE DEF PassInit
<1>1. PassTypeOK
  BY PassAssumption DEF PassTypeOK, PassAssumption, Outside
<1>2. ASSUME NEW c \in Caller PROVE LocalsInv(c) /\ AloneInv(c)
  BY DEF LocalsInv, AloneInv, Outside
<1>3. QED
  BY <1>1, <1>2, Zenon DEF PassInv, ForeignOnlyByOverlap

(* A client prints one more value, its own if it is alone.                 *)
LEMMA ShowKeeps ==
  ASSUME PassInv, NEW c \in Caller, NEW N \in Nat, NEW v \in Value,
         \/ step[c] = "echo" /\ N = Pins
         \/ step[c] = "deref" /\ N = 2,
         alone[c] => v = arg[c][Len(out[c]) + 1],
         Show(c, v, N)
  PROVE  PassTypeOK' /\ LocalsInv(c)' /\ (alone'[c] => AloneInv(c)')
<1>0. PassTypeOK /\ LocalsInv(c) /\ (alone[c] => AloneInv(c))
  BY Zenon DEF PassInv
<1> DEFINE k == Len(out[c])
           o == Append(out[c], v)
<1>1. /\ out[c] \in Seq(Value) /\ k \in Nat /\ k < N
      /\ arg[c] \in [1 .. N -> Value] /\ LocalsInv(c)
      /\ c \in DOMAIN step /\ c \in DOMAIN out
  <2>1. /\ out[c] \in Seq(Value) /\ LocalsInv(c) /\ c \in DOMAIN step /\ c \in DOMAIN out
        /\ Arg \subseteq [1 .. Pins -> Value] /\ Pair \subseteq [1 .. 2 -> Value]
    BY <1>0, PassAssumption, Zenon DEF PassTypeOK, PassAssumption
  <2>2. k \in Nat
    BY <2>1
  <2>3. k < N /\ arg[c] \in [1 .. N -> Value]
    BY <2>1, Zenon DEF LocalsInv
  <2>4. QED
    BY <2>1, <2>2, <2>3, Zenon
<1>2. /\ o \in Seq(Value) /\ Len(o) = k + 1 /\ o[k + 1] = v
      /\ \A f \in 1 .. k : o[f] = out[c][f]
  BY <1>1, AppendFacts
<1>3. /\ out' = [out EXCEPT ![c] = o]
      /\ step' = [step EXCEPT ![c] = IF k + 1 = N THEN "user" ELSE @]
      /\ UNCHANGED <<arg, idx, alone, pwm_data, a>>
  BY DEF Show, dataVars
<1> HIDE DEF o, k
<1>4. out'[c] = o /\ step'[c] = IF k + 1 = N THEN "user" ELSE step[c]
  BY <1>1, <1>3, Zenon
<1>5. PassTypeOK'
  BY <1>0, <1>2, <1>3, Zenon DEF PassTypeOK, Outside
<1>6. LocalsInv(c)'
  BY <1>1, <1>2, <1>3, <1>4 DEF LocalsInv
<1>7. ASSUME alone'[c] PROVE AloneInv(c)'
  <2>1. alone[c] /\ AloneInv(c) /\ v = arg[c][k + 1]
    BY <1>0, <1>3, <1>7, Zenon DEF k
  <2>2. \A f \in 1 .. k + 1 : o[f] = arg[c][f]
    <3>1. \A f \in 1 .. k : o[f] = arg[c][f]
      BY <1>0, <1>2, <2>1, Zenon DEF AloneInv, k
    <3>2. \A f \in 1 .. k + 1 : f \in 1 .. k \/ f = k + 1
      BY <1>1, SMT
    <3>3. QED
      BY <1>2, <2>1, <3>1, <3>2, Zenon
  <2>3. ASSUME k + 1 = N PROVE o = arg[c]
    <3>1. Len(o) = N /\ \A f \in 1 .. N : o[f] = arg[c][f]
      BY <1>2, <2>2, <2>3, Zenon
    <3>2. QED
      BY <1>1, <1>2, <3>1, SameSeq, Zenon
  <2>4. \A d \in Caller \ {c} : step'[d] \in Outside
    BY <1>0, <1>3, <1>4, <2>1 DEF AloneInv, Outside, PassTypeOK
  <2>5. CASE k + 1 = N
    BY <1>3, <1>4, <2>3, <2>5 DEF AloneInv, Outside
  <2>6. CASE k + 1 # N
    BY <1>2, <1>3, <1>4, <2>1, <2>2, <2>4, <2>6 DEF AloneInv, Outside
  <2>7. QED
    BY <2>5, <2>6, Zenon
<1>8. QED
  BY <1>5, <1>6, <1>7, Zenon

(* The caller's own part of a step of client c.                            *)
Mine(c) == LocalsInv(c) /\ (alone[c] => AloneInv(c))

(* The steps of a call; fault is not among them.                           *)
PassCall(c) ==
  \/ open(c) /\ mod = "live"
  \/ close(c)
  \/ \E v \in Arg : PWM_SET(c, v)
  \/ \E v \in Pair : PWM_INT_ARRAY(c, v)
  \/ set_copy(c) /\ "pwm_data" \in held
  \/ set_echo(c)
  \/ array_point(c)
  \/ array_deref(c) /\ UNCHANGED fault

(* A step of its own call keeps what a client relies on.                   *)
LEMMA MineStep ==
  ASSUME PassInv, NEW c \in Caller, PassCall(c)
  PROVE  PassTypeOK' /\ Mine(c)'
<1>0. /\ PassTypeOK /\ LocalsInv(c) /\ (alone[c] => AloneInv(c)) /\ Pins \in Nat \ {0}
      /\ DOMAIN step = Caller /\ DOMAIN arg = Caller /\ DOMAIN out = Caller /\ DOMAIN idx = Caller
  BY PassAssumption, Zenon DEF PassInv, PassAssumption, PassTypeOK
<1>1. CASE (open(c) /\ mod = "live") \/ close(c)
  <2>1. /\ step[c] \in Outside /\ \E l \in Outside : step' = [step EXCEPT ![c] = l]
        /\ UNCHANGED <<arg, out, idx, alone, pwm_data, a>>
    BY <1>1, Zenon DEF open, close, Outside, dataVars
  <2>2. QED
    BY <1>0, <2>1 DEF Mine, PassTypeOK, LocalsInv, AloneInv, Outside
<1>2. ASSUME NEW v \in Arg \union Pair, NEW l \in {"copy", "point"}, Enter(c, l, v),
             IF l = "copy" THEN v \in Arg ELSE v \in Pair
      PROVE  PassTypeOK' /\ Mine(c)'
  <2>1. /\ step[c] = "user" /\ step' = [step EXCEPT ![c] = l] /\ arg' = [arg EXCEPT ![c] = v]
        /\ out' = [out EXCEPT ![c] = <<>>] /\ UNCHANGED <<idx, pwm_data, a>>
        /\ alone' \in [Caller -> BOOLEAN]
        /\ alone'[c] => \A d \in Caller \ {c} : step[d] \in Outside
    BY <1>0, <1>2, Zenon DEF Enter, dataVars, PassTypeOK
  <2>2. step'[c] = l /\ arg'[c] = v /\ out'[c] = <<>> /\ idx'[c] = 0
    BY <1>0, <2>1, Zenon DEF LocalsInv
  <2>3. PassTypeOK'
    BY <1>0, <2>1 DEF PassTypeOK
  <2>4. LocalsInv(c)'
    BY <1>0, <1>2, <2>2, Zenon DEF LocalsInv
  <2>5. alone'[c] => AloneInv(c)'
    BY <1>0, <2>1, <2>2 DEF AloneInv, Outside
  <2>6. QED
    BY <2>3, <2>4, <2>5, Zenon DEF Mine
<1>3. CASE set_copy(c) /\ "pwm_data" \in held
  <2> DEFINE k == idx[c] + 1
  <2>1. /\ step[c] = "copy" /\ k \in 1 .. Pins /\ arg[c] \in [1 .. Pins -> Value] /\ out[c] = <<>>
    <3>1. step[c] = "copy" /\ arg[c] \in Arg /\ out[c] = <<>> /\ idx[c] \in 0 .. Pins - 1
      BY <1>0, <1>3, Zenon DEF set_copy, PassTypeOK, LocalsInv
    <3>2. arg[c] \in [1 .. Pins -> Value]
      BY <3>1, PassAssumption, Zenon DEF PassAssumption
    <3>3. QED
      BY <1>0, <3>1, <3>2
  <2>2. /\ pwm_data' = [pwm_data EXCEPT ![k] = arg[c][k]]
        /\ idx' = [idx EXCEPT ![c] = k % Pins]
        /\ step' = [step EXCEPT ![c] = IF k = Pins THEN "echo" ELSE @]
        /\ UNCHANGED <<a, arg, out, alone>>
    BY <1>3, Zenon DEF set_copy
  <2>3. k % Pins = IF k = Pins THEN 0 ELSE k
    BY <1>0, <2>1
  <2>4. k % Pins \in 0 .. Pins - 1
    BY <1>0, <2>1, <2>3
  <2> HIDE DEF k
  <2>5. PassTypeOK'
    BY <1>0, <2>1, <2>2, <2>4, Zenon DEF PassTypeOK
  <2>6. step'[c] = (IF k = Pins THEN "echo" ELSE "copy") /\ idx'[c] = IF k = Pins THEN 0 ELSE k
    BY <1>0, <2>1, <2>2, <2>3, Zenon
  <2>7. LocalsInv(c)'
    BY <1>0, <2>1, <2>2, <2>6 DEF LocalsInv
  <2>8. ASSUME alone'[c] PROVE AloneInv(c)'
    <3>1. alone[c] /\ AloneInv(c)
      BY <1>0, <2>2, <2>8, Zenon
    <3>2. \A f \in 1 .. k : pwm_data'[f] = arg[c][f]
      <4>1. pwm_data \in [1 .. Pins -> Value] /\ idx[c] \in 0 .. Pins - 1
        BY <1>0, Zenon DEF PassTypeOK
      <4>2. \A f \in 1 .. idx[c] : pwm_data[f] = arg[c][f]
        BY <2>1, <3>1, Zenon DEF AloneInv
      <4>3. QED
        BY <1>0, <2>1, <2>2, <4>1, <4>2 DEF k
    <3>3. k = Pins => pwm_data' = arg[c]
      <4>1. pwm_data' \in [1 .. Pins -> Value]
        BY <2>5, Zenon DEF PassTypeOK
      <4>2. QED
        BY <2>1, <3>2, <4>1
    <3>4. \A d \in Caller \ {c} : step'[d] \in Outside
      BY <2>1, <2>2, <3>1 DEF AloneInv, Outside
    <3>5. Len(out'[c]) = 0
      BY <2>1, <2>2, Zenon
    <3>6. QED
      BY <2>2, <2>6, <3>2, <3>3, <3>4, <3>5 DEF AloneInv, Outside
  <2>9. QED
    BY <2>5, <2>7, <2>8 DEF Mine
<1>4. CASE set_echo(c)
  <2> DEFINE k == Len(out[c]) + 1
  <2>1. PICK v \in {arg[c][k], pwm_data[k]} : step[c] = "echo" /\ Show(c, v, Pins)
    BY <1>4, Zenon DEF set_echo
  <2>2. k \in 1 .. Pins /\ arg[c] \in [1 .. Pins -> Value] /\ pwm_data \in [1 .. Pins -> Value]
    BY <1>0, <2>1, PassAssumption DEF PassTypeOK, LocalsInv, PassAssumption
  <2>3. v \in Value /\ (alone[c] => v = arg[c][k])
    BY <1>0, <2>1, <2>2 DEF AloneInv
  <2>4. QED
    BY <1>0, <2>1, <2>3, ShowKeeps, Zenon DEF Mine
<1>5. CASE array_point(c)
  <2>1. /\ step[c] = "point" /\ a' = c /\ step' = [step EXCEPT ![c] = "deref"]
        /\ UNCHANGED <<pwm_data, arg, out, idx, alone>>
    BY <1>5, Zenon DEF array_point
  <2>2. PassTypeOK'
    BY <1>0, <2>1, Zenon DEF PassTypeOK
  <2>3. step'[c] = "deref" /\ out'[c] = <<>>
    BY <1>0, <2>1, Zenon DEF LocalsInv
  <2>4. LocalsInv(c)'
    BY <1>0, <2>1, <2>3 DEF LocalsInv
  <2>5. alone'[c] => AloneInv(c)'
    BY <1>0, <2>1, <2>3 DEF AloneInv, Outside
  <2>6. QED
    BY <2>2, <2>4, <2>5 DEF Mine
<1>6. CASE array_deref(c) /\ UNCHANGED fault
  <2> DEFINE k == Len(out[c]) + 1
  <2>1. step[c] = "deref" /\ k \in 1 .. 2 /\ arg[c] \in [1 .. 2 -> Value]
    BY <1>0, <1>6, PassAssumption DEF array_deref, PassTypeOK, LocalsInv, PassAssumption
  <2>2. alone[c] => a = c
    BY <1>0, <2>1, Zenon DEF AloneInv
  <2>3. CASE Show(c, arg[c][k], 2)
    BY <1>0, <2>1, <2>3, ShowKeeps, Zenon DEF Mine
  <2>4. ASSUME a # c, NEW v \in Value, Show(c, v, 2) PROVE PassTypeOK' /\ Mine(c)'
    BY <1>0, <2>1, <2>2, <2>4, ShowKeeps, Zenon DEF Mine
  <2>5. CASE a # c /\ Oops("badptr")
    BY <1>0, <1>6, <2>5 DEF Oops, dataVars, callVars, Mine, PassTypeOK, LocalsInv, AloneInv
  <2>6. QED
    BY <1>6, <2>3, <2>4, <2>5, Zenon DEF array_deref
<1>7. QED
  BY <1>1, <1>2, <1>3, <1>4, <1>5, <1>6, Zenon DEF PassCall, PWM_SET, PWM_INT_ARRAY

(* What a step of client c does to another client d.                       *)
LEMMA OthersStep ==
  ASSUME PassInv, NEW c \in Caller, PassCall(c), NEW d \in Caller, c # d
  PROVE  Mine(d)'
<1> DEFINE Apart == /\ step'[d] = step[d] /\ arg'[d] = arg[d] /\ out'[d] = out[d] /\ idx'[d] = idx[d]
                    /\ alone'[d] => alone[d]
                    /\ \A e \in Caller \ {c} : step'[e] = step[e]
                    /\ step[d] \notin Outside /\ alone'[d] => step'[c] \in Outside
                    /\ (pwm_data' = pwm_data /\ a' = a) \/ step[c] \notin Outside
<1>0. /\ DOMAIN step = Caller /\ DOMAIN arg = Caller /\ DOMAIN out = Caller /\ DOMAIN idx = Caller
      /\ step[d] \notin Outside /\ alone[d] => step[c] \in Outside
  BY Zenon DEF PassInv, PassTypeOK, AloneInv
<1>1. ASSUME (open(c) /\ mod = "live") \/ close(c) PROVE Apart
  BY <1>0, <1>1, Zenon DEF open, close, Outside, dataVars
<1>2. ASSUME NEW l, NEW v, Enter(c, l, v) PROVE Apart
  <2>1. alone'[d] => alone[d] /\ step[d] \in Outside
    BY <1>2, Zenon DEF Enter
  <2>2. QED
    BY <1>0, <1>2, <2>1, Zenon DEF Enter, dataVars
<1>3. ASSUME set_copy(c), "pwm_data" \in held PROVE Apart
  BY <1>0, <1>3, Zenon DEF set_copy, Outside
<1>4. ASSUME NEW v, NEW N, Show(c, v, N), step[c] \in {"echo", "deref"} PROVE Apart
  BY <1>0, <1>4, Zenon DEF Show, Outside, dataVars
<1>5. ASSUME array_point(c) PROVE Apart
  BY <1>0, <1>5, Zenon DEF array_point, Outside
<1>6. ASSUME Oops("badptr"), step[c] = "deref" PROVE Apart
  BY <1>0, <1>6, Zenon DEF Oops, dataVars, callVars, Outside
<1> HIDE DEF Apart
<1>7. Apart
  BY <1>1, <1>2, <1>3, <1>4, <1>5, <1>6, Zenon
    DEF PassCall, PWM_SET, PWM_INT_ARRAY, set_echo, array_deref
<1>8. QED
  BY <1>7, OtherCall, Zenon DEF Apart, Mine

(* Every step keeps the inductive invariant.                               *)
LEMMA PassKept ==
  ASSUME PassInv, [PassNext]_passVars
  PROVE  PassInv'
<1>1. CASE fault = "none" /\ \E c \in Caller : PassCall(c) /\ UNCHANGED fault
  <2>1. PICK c \in Caller : PassCall(c) /\ UNCHANGED fault
    BY <1>1
  <2>2. PassTypeOK' /\ \A d \in Caller : Mine(d)'
    BY <2>1, MineStep, OthersStep, Zenon
  <2>3. QED
    BY <1>1, <2>1, <2>2, Zenon DEF PassInv, ForeignOnlyByOverlap, Mine
<1>2. CASE /\ UNCHANGED <<pwm_data, a, step, arg, out, idx, alone>>
           /\ UNCHANGED fault \/ fault' \in {"stale", "null"}
              \/ \E c \in Caller : step[c] = "deref" /\ a # c
  <2>1. PassTypeOK' /\ \A d \in Caller : Mine(d)'
    BY <1>2 DEF PassInv, Mine, PassTypeOK, LocalsInv, AloneInv
  <2>2. ForeignOnlyByOverlap'
    <3>1. \A c \in Caller : step[c] = "deref" /\ a # c => ~alone[c]
      BY Zenon DEF PassInv, AloneInv
    <3>2. QED
      BY <1>2, <3>1, Zenon DEF PassInv, ForeignOnlyByOverlap
  <2>3. QED
    BY <2>1, <2>2, Zenon DEF PassInv, Mine
<1>3. CASE PassNext
  <2>0. fault = "none"
    BY <1>3, Zenon DEF PassNext
  <2>1. CASE pwm_init \/ pwm_exit
    BY <1>2, <2>1, Zenon DEF pwm_init, pwm_exit, dataVars, callVars
  <2>2. ASSUME NEW c \in Caller, open(c) PROVE PassInv'
    <3>1. CASE mod = "live" /\ UNCHANGED fault
      BY <1>1, <2>0, <2>2, <3>1, Zenon DEF PassCall
    <3>2. CASE Oops("stale")
      BY <1>2, <3>2, Zenon DEF Oops, dataVars, callVars
    <3>3. QED
      BY <2>2, <3>1, <3>2, Zenon DEF open
  <2>3. ASSUME NEW c \in Caller, set_copy(c) PROVE PassInv'
    <3>1. CASE "pwm_data" \in held /\ UNCHANGED fault
      BY <1>1, <2>0, <2>3, <3>1, Zenon DEF PassCall
    <3>2. CASE Oops("null")
      BY <1>2, <3>2, Zenon DEF Oops, dataVars, callVars
    <3>3. QED
      BY <2>3, <3>1, <3>2, Zenon DEF set_copy
  <2>4. ASSUME NEW c \in Caller, array_deref(c) PROVE PassInv'
    <3>1. CASE UNCHANGED fault
      BY <1>1, <2>0, <2>4, <3>1, Zenon DEF PassCall
    <3>2. CASE Oops("badptr") /\ step[c] = "deref" /\ a # c
      BY <1>2, <3>2, Zenon DEF Oops, dataVars, callVars
    <3>3. QED
      BY <2>4, <3>1, <3>2, Zenon DEF array_deref, Show
  <2>5. ASSUME NEW c \in Caller,
               \/ close(c) \/ set_echo(c) \/ array_point(c)
               \/ \E v \in Arg : PWM_SET(c, v)
               \/ \E v \in Pair : PWM_INT_ARRAY(c, v)
        PROVE  PassInv'
    <3>1. UNCHANGED fault
      BY <2>5, Zenon DEF close, set_echo, array_point, PWM_SET, PWM_INT_ARRAY,
        Enter, Show
    <3>2. QED
      BY <1>1, <2>0, <2>5, <3>1, Zenon DEF PassCall
  <2>6. QED
    BY <1>3, <2>1, <2>2, <2>3, <2>4, <2>5, Zenon DEF PassNext
<1>4. CASE UNCHANGED passVars
  BY <1>2, <1>4, Zenon DEF passVars, dataVars, callVars
<1>5. QED
  BY <1>1, <1>2, <1>3, <1>4, Zenon

(* The inductive invariant holds throughout.                               *)
LEMMA PassAlways ==
  PassSpec => []PassInv
<1>1. PassInit => PassInv
  BY PassStarts, Zenon
<1>2. PassInv /\ [PassNext]_passVars => PassInv'
  BY PassKept, Zenon
<1>3. QED
  BY <1>1, <1>2, PTL DEF PassSpec

(* A client whose call no other call overlaps sees printed what it passed, *)
(* through the shared buffer pwm_data and the shared pointer a.            *)
THEOREM AloneCallsEcho ==
  PassSpec => []AloneEchoes
<1>1. PassInv => AloneEchoes
  BY Zenon DEF PassInv, AloneInv, AloneEchoes, Outside
<1>2. QED
  BY <1>1, PassAlways, PTL

(* The test module follows a pointer of another process only in a          *)
(* PWM_INT_ARRAY call that another call overlapped.                        *)
THEOREM BadPointerNeedsOverlap ==
  PassSpec => []ForeignOnlyByOverlap
<1>1. PassInv => ForeignOnlyByOverlap
  BY Zenon DEF PassInv
<1>2. QED
  BY <1>1, PassAlways, PTL

=============================================================================
