------------------------------ MODULE PassTest ------------------------------
(***************************************************************************)
(* The data passing test (tests/pass_test/pass_data_test.c): a module with *)
(* a character device that copies a caller's structure into the global     *)
(* pwm_data, or a caller's pointer into the global a, and prints what is   *)
(* there.  No lock is taken, so a step is one access to a global variable. *)
(*                                                                         *)
(* A pointer to user memory is the client whose memory it is.  It reads    *)
(* the client's own data only in a call of that client; in another process *)
(* the same address may hold anything or nothing.  The compiler may print  *)
(* the values a call still has in registers instead of reading them back.  *)
(***************************************************************************)
EXTENDS Integers, Sequences

CONSTANTS
  Caller,     \* processes that may open the device
  Value,      \* the integers they pass
  Arg,        \* the tuples they pass: PWM_SET takes Pins of them
  Pair,       \* the arrays they pass to PWM_INT_ARRAY
  Pins,       \* fields of PWMset: 4
  LoadFault,  \* the calls of pwm_init that may fail
  NULL

Resource == {"pwm_data", "region", "cdevp", "cdev_map"}

ASSUME PassAssumption ==
  /\ Pins \in Nat \ {0}
  /\ Arg \subseteq [1 .. Pins -> Value] /\ Pair \subseteq [1 .. 2 -> Value]
  /\ 0 \in Value /\ LoadFault \subseteq Resource /\ NULL \notin Caller

VARIABLES
  mod, held,      \* where the module is; what pwm_init acquired
  pwm_data, a,    \* the two globals
  step, arg, out,   \* of each client: control point, argument, values printed
  idx,            \* of each client: fields copied
  alone,          \* history: no other call was in the driver during this one
  fault

devVars  == <<mod, held>>
dataVars == <<pwm_data, a>>
callVars == <<step, arg, out, idx, alone>>
passVars == <<devVars, dataVars, callVars, fault>>

Outside == {"closed", "user"}

PassInit ==
  /\ mod = "out" /\ held = {}
  /\ pwm_data = [f \in 1 .. Pins |-> 0] /\ a = NULL
  /\ step = [c \in Caller |-> "closed"]
  /\ arg = [c \in Caller |-> <<>>] /\ out = [c \in Caller |-> <<>>]
  /\ idx = [c \in Caller |-> 0] /\ alone = [c \in Caller |-> TRUE]
  /\ fault = "none"

Oops(kind) == fault' = kind /\ UNCHANGED <<devVars, dataVars, callVars>>

-----------------------------------------------------------------------------
(* As in softPWM, only a missing device number makes the load fail.        *)
pwm_init ==
  /\ mod = "out"
  /\ \E F \in SUBSET LoadFault :
       /\ held' = ({"pwm_data", "region"} \ F)
                    \union (IF {"region", "cdevp", "cdev_map"} \intersect F = {}
                              THEN {"cdevp", "cdev_map"} ELSE {})
       /\ mod' = IF "region" \in F THEN "failed" ELSE "live"
  /\ UNCHANGED <<dataVars, callVars, fault>>

(* pwm_exit frees the cdev and leaves it in the device map.                *)
pwm_exit ==
  /\ mod = "live"
  /\ \A c \in Caller : step[c] = "closed"
  /\ mod' = "gone"
  /\ held' = held \ {"region", "cdevp"}
  /\ UNCHANGED <<dataVars, callVars, fault>>

open(c) ==
  /\ step[c] = "closed" /\ "cdev_map" \in held
  /\ \/ /\ mod = "live"
        /\ step' = [step EXCEPT ![c] = "user"]
        /\ UNCHANGED <<arg, out, idx, alone, devVars, dataVars, fault>>
     \/ /\ mod = "gone"
        /\ Oops("stale")

close(c) ==
  /\ step[c] = "user"
  /\ step' = [step EXCEPT ![c] = "closed"]
  /\ UNCHANGED <<arg, out, idx, alone, devVars, dataVars, fault>>

-----------------------------------------------------------------------------
(* pwm_ioctl.  A command of another type or number, or with a bad pointer, *)
(* is refused and changes nothing.                                         *)
Enter(c, l, v) ==
  /\ step[c] = "user"
  /\ step' = [step EXCEPT ![c] = l]
  /\ arg' = [arg EXCEPT ![c] = v]
  /\ out' = [out EXCEPT ![c] = <<>>]
  /\ LET others == {d \in Caller \ {c} : step[d] \notin Outside} IN
       alone' = [d \in Caller |->
                   IF d = c THEN others = {} ELSE alone[d] /\ d \notin others]
  /\ UNCHANGED <<idx, devVars, dataVars, fault>>

PWM_SET(c, v) == Enter(c, "copy", v)

PWM_INT_ARRAY(c, v) == Enter(c, "point", v)

(* Caller c prints value v, the last of n, or has more to print.           *)
Show(c, v, n) ==
  /\ out' = [out EXCEPT ![c] = Append(@, v)]
  /\ step' = [step EXCEPT ![c] = IF Len(out[c]) + 1 = n THEN "user" ELSE @]
  /\ UNCHANGED <<arg, idx, alone, devVars, dataVars, fault>>

(* The last field is forgotten.                                            *)
Mut_set_copy(c) ==
  /\ step[c] = "copy"
  /\ "pwm_data" \in held
  /\ LET k == idx[c] + 1 IN
       /\ pwm_data' = IF k = Pins THEN pwm_data ELSE [pwm_data EXCEPT ![k] = arg[c][k]]
       /\ idx' = [idx EXCEPT ![c] = k % Pins]
       /\ step' = [step EXCEPT ![c] = IF k = Pins THEN "echo" ELSE @]
  /\ UNCHANGED <<a, arg, out, alone, devVars, fault>>

(* pwm_data->pin<k> = data_tmp->pin<k>, one after the other.               *)
set_copy(c) ==
  /\ step[c] = "copy"
  /\ \/ /\ "pwm_data" \in held
        /\ LET k == idx[c] + 1 IN
             /\ pwm_data' = [pwm_data EXCEPT ![k] = arg[c][k]]
             /\ idx' = [idx EXCEPT ![c] = k % Pins]
             /\ step' = [step EXCEPT ![c] = IF k = Pins THEN "echo" ELSE @]
        /\ UNCHANGED <<a, arg, out, alone, devVars, fault>>
     \/ /\ "pwm_data" \notin held
        /\ Oops("null")

set_echo(c) ==
  /\ step[c] = "echo"
  /\ LET k == Len(out[c]) + 1 IN
       \E v \in {arg[c][k], pwm_data[k]} : Show(c, v, Pins)

(* Only the first call stores its pointer.                                 *)
Mut_array_point(c) ==
  /\ step[c] = "point"
  /\ a' = IF a = NULL THEN c ELSE a
  /\ step' = [step EXCEPT ![c] = "deref"]
  /\ UNCHANGED <<pwm_data, arg, out, idx, alone, devVars, fault>>

(* a = tmp; then a[0] and a[1] are printed.                                *)
array_point(c) ==
  /\ step[c] = "point"
  /\ a' = c
  /\ step' = [step EXCEPT ![c] = "deref"]
  /\ UNCHANGED <<pwm_data, arg, out, idx, alone, devVars, fault>>

array_deref(c) ==
  /\ step[c] = "deref"
  /\ \/ Show(c, arg[c][Len(out[c]) + 1], 2)
     \/ a # c /\ \E v \in Value : Show(c, v, 2)
     \/ a # c /\ Oops("badptr")

PassNext ==
  /\ fault = "none"
  /\ \/ pwm_init \/ pwm_exit
     \/ \E c \in Caller :
          \/ open(c) \/ close(c)
          \/ \E v \in Arg : PWM_SET(c, v)
          \/ \E v \in Pair : PWM_INT_ARRAY(c, v)
          \/ set_copy(c) \/ set_echo(c) \/ array_point(c) \/ array_deref(c)

PassSpec == PassInit /\ [][PassNext]_passVars

-----------------------------------------------------------------------------
(* A call of PWM_SET or PWM_INT_ARRAY that overlaps no other call prints   *)
(* exactly what it was given, whatever earlier calls of this or of another *)
(* process, torn or not, left in pwm_data and a.                           *)
AloneEchoes ==
  \A c \in Caller : step[c] = "user" /\ alone[c] => out[c] = arg[c]

(* A pointer another process passed is followed only in a call that        *)
(* overlaps one of that process.                                           *)
ForeignOnlyByOverlap == fault = "badptr" => \E c \in Caller : ~alone[c] /\ step[c] = "deref"

-----------------------------------------------------------------------------
PassTypeOK ==
  /\ pwm_data \in [1 .. Pins -> Value] /\ a \in Caller \union {NULL}
  /\ step \in [Caller -> Outside \union {"copy", "echo", "point", "deref"}]
  /\ arg \in [Caller -> Arg \union Pair \union {<<>>}]
  /\ out \in [Caller -> Seq(Value)]
  /\ idx \in [Caller -> 0 .. Pins - 1]
  /\ alone \in [Caller -> BOOLEAN]

(* The locals of a call fit the command it runs.                           *)
LocalsInv(c) ==
  /\ step[c] \in {"copy", "echo"} => arg[c] \in Arg
  /\ step[c] \in {"point", "deref"} => arg[c] \in Pair
  /\ step[c] \in {"copy", "point"} => out[c] = <<>>
  /\ step[c] = "echo" => Len(out[c]) < Pins
  /\ step[c] = "deref" => Len(out[c]) < 2
  /\ step[c] # "copy" => idx[c] = 0

(* A call that is alone so far has the globals for itself.                 *)
AloneInv(c) ==
  /\ step[c] \in Outside => out[c] = arg[c]
  /\ step[c] \notin Outside => \A d \in Caller \ {c} : step[d] \in Outside
  /\ step[c] = "copy" => \A f \in 1 .. idx[c] : pwm_data[f] = arg[c][f]
  /\ step[c] = "echo" => pwm_data = arg[c]
  /\ step[c] = "deref" => a = c
  /\ step[c] \in {"echo", "deref"} => \A f \in 1 .. Len(out[c]) : out[c][f] = arg[c][f]

PassInv ==
  /\ PassTypeOK
  /\ \A c \in Caller : LocalsInv(c) /\ (alone[c] => AloneInv(c))
  /\ ForeignOnlyByOverlap

=============================================================================
