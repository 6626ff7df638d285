----------------------------- MODULE GpioSelect -----------------------------
(***************************************************************************)
(* PIN_SET: gpio_input and gpio_output of gpio.c (the same in softPWM and  *)
(* xenoPWM) change a pin's function by reading a function-select register, *)
(* editing the pin's three bits and writing the register back.  A register *)
(* holds the fields of PerWord neighbouring pins, and pwm_ioctl takes no   *)
(* lock, so a call may overwrite what another call wrote in between.       *)
(*                                                                         *)
(* The registers survive the module: whatever ran before may have left a   *)
(* pin in an alternate function (2 .. 7).                                  *)
(***************************************************************************)
EXTENDS Integers

CONSTANTS
  Client,     \* processes that have the device open
  Uses(_),    \* the pins a client calls PIN_SET for
  Pin,
  PerWord,    \* fields per register: 10
  InitFsel    \* functions a pin may have at the start

ASSUME GpioAssumption ==
  /\ Pin \subseteq Nat
  /\ PerWord \in Nat \ {0}
  /\ InitFsel \subseteq 0 .. 7
  /\ \A c \in Client : Uses(c) \subseteq Pin

VARIABLES
  fsel,       \* the function field of each pin
  pc, pin, type, reg,  \* of each client: control point, arguments, register copy
  want,       \* history: what the last completed PIN_SET asked of a pin, or -1
              \* when there is none or a stale copy was written over it
  late        \* history: of each client, the pins of the register it has a
              \* copy of that a PIN_SET completed for since the copy was read

vars == <<fsel, pc, pin, type, reg, want, late>>

INPUT  == 0
OUTPUT == 1

Neighbours(p) == {q \in Pin : q \div PerWord = p \div PerWord}

TypeOK ==
  /\ fsel \in [Pin -> 0 .. 7]
  /\ pc \in [Client -> {"user", "load", "store"}]
  /\ pin \in [Client -> Pin \union {-1}]
  /\ type \in [Client -> {INPUT, OUTPUT}]
  /\ reg \in [Client -> [Pin -> 0 .. 7]]
  /\ want \in [Pin -> {INPUT, OUTPUT, -1}]
  /\ late \in [Client -> SUBSET Pin]

Init ==
  /\ fsel \in [Pin -> InitFsel]
  /\ pc = [c \in Client |-> "user"]
  /\ pin = [c \in Client |-> -1]
  /\ type = [c \in Client |-> INPUT]
  /\ reg = [c \in Client |-> [p \in Pin |-> 0]]
  /\ want = [p \in Pin |-> -1]
  /\ late = [c \in Client |-> {}]

(* PIN_SET with a type other than the two only warns.                      *)
PIN_SET(c, p, t) ==
  /\ pc[c] = "user"
  /\ t \in {INPUT, OUTPUT}
  /\ pc' = [pc EXCEPT ![c] = "load"]
  /\ pin' = [pin EXCEPT ![c] = p]
  /\ type' = [type EXCEPT ![c] = t]
  /\ UNCHANGED <<fsel, reg, want, late>>

(* Read the register the pin's field is in.                                *)
load(c) ==
  /\ pc[c] = "load"
  /\ pc' = [pc EXCEPT ![c] = "store"]
  /\ reg' = [reg EXCEPT ![c] = fsel]
  /\ UNCHANGED <<fsel, pin, type, want, late>>

(* The field with all three bits cleared, or with bit 0 set.               *)
Edit(f, t) == IF t = INPUT THEN 0 ELSE f + 1 - (f % 2)

(* History: client c's PIN_SET is complete.  What completed for another    *)
(* pin of the register since c read it is overwritten, and c's own setting *)
(* is late for the clients that hold a copy of the register.               *)
Completed(c) ==
  /\ want' = [q \in Pin |-> IF q = pin[c] THEN type[c]
                            ELSE IF q \in late[c] THEN -1 ELSE want[q]]
  /\ late' = [d \in Client |->
                IF d = c THEN {}
                ELSE IF pc[d] = "store" /\ pin[c] \in Neighbours(pin[d])
                       THEN late[d] \union {pin[c]} ELSE late[d]]

(* The register is assigned the pin's field alone: = in place of |= or &=. *)
Mut_store_assign(c) ==
  /\ pc[c] = "store"
  /\ fsel' = [q \in Pin |->
                CASE q = pin[c] -> Edit(reg[c][q], type[c])
                  [] q # pin[c] /\ q \in Neighbours(pin[c]) -> 0
                  [] OTHER -> fsel[q]]
  /\ Completed(c)
  /\ pc' = [pc EXCEPT ![c] = "user"]
  /\ UNCHANGED <<pin, type, reg>>

(* Write the register back, the fields of the neighbours as they were read.*)
store(c) ==
  /\ pc[c] = "store"
  /\ fsel' = [q \in Pin |->
                CASE q = pin[c] -> Edit(reg[c][q], type[c])
                  [] q # pin[c] /\ q \in Neighbours(pin[c]) -> reg[c][q]
                  [] OTHER -> fsel[q]]
  /\ Completed(c)
  /\ pc' = [pc EXCEPT ![c] = "user"]
  /\ UNCHANGED <<pin, type, reg>>

Next ==
  \E c \in Client :
    \/ \E p \in Uses(c), t \in {INPUT, OUTPUT} : PIN_SET(c, p, t)
    \/ load(c)
    \/ store(c)

Spec == Init /\ [][Next]_vars

-----------------------------------------------------------------------------
(* The last completed PIN_SET on a pin still decides its direction (bit 0  *)
(* of the field), and an INPUT the whole field, however the unlocked edits *)
(* of gpio_input and gpio_output interleave on one register: a setting is  *)
(* lost only to a call for another pin of its register that had read the   *)
(* register before the setting was written and wrote it back afterwards.   *)
LastSetHolds ==
  \A p \in Pin :
    /\ want[p] = OUTPUT => fsel[p] % 2 = 1
    /\ want[p] = INPUT => fsel[p] = 0

(* PIN_SET never touches a pin that no process names.                      *)
OthersKeepFunction ==
  [][\A p \in Pin : (\A c \in Client : p \notin Uses(c)) => fsel'[p] = fsel[p]]_vars

-----------------------------------------------------------------------------
(* A call in flight is for one of its caller's pins, and the copy it took  *)
(* of the register is right for the pins that no process names.            *)
CallInv ==
  \A c \in Client : pc[c] # "user" =>
    /\ pin[c] \in Uses(c)
    /\ pc[c] = "store" =>
         \A q \in Pin : (\A d \in Client : q \notin Uses(d)) => reg[c][q] = fsel[q]

(* Only another client's pin is late.                                      *)
LateInv == \A c \in Client : \A q \in late[c] : \E d \in Client \ {c} : q \in Uses(d)

(* Of a pin that is set, the copy is right unless the setting came later.  *)
CopyInv ==
  \A c \in Client : pc[c] = "store" =>
    \A q \in Neighbours(pin[c]) : q \notin late[c] /\ want[q] # -1 => reg[c][q] = fsel[q]

GpioInv == TypeOK /\ CallInv /\ LateInv /\ CopyInv /\ LastSetHolds

=============================================================================
