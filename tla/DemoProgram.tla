----------------------------- MODULE DemoProgram -----------------------------
(***************************************************************************)
(* main() of the demo programs (softPWM/uapi/main.c and xenoPWM/uapi/      *)
(* main.c, which make the same calls through the same user library).       *)
(* Each client runs main() up to Runs times in a row.  A failed open is    *)
(* only printed; the calls on the bad descriptor then fail as well.  The   *)
(* library prints a message when ioctl returns less than 0, and main()     *)
(* goes on in any case.                                                    *)
(***************************************************************************)
EXTENDS Integers, Sequences

CONSTANTS
  Client,
  Runs      \* bound: how often a client runs the demo

VARIABLES
  runs,     \* of each client: the runs it has begun
  at,       \* of each client: the next call of Program; 0 before open
  said,     \* of each client: this run has printed that something failed
  ret       \* the driver's: what the last ioctl of a client returned

-----------------------------------------------------------------------------
PIN1 == 16
PIN2 == 21

(* A command with its argument, as a slot.                                 *)
Command(op, p, lo, hi, d) ==
  [op |-> op, arg |-> [pin |-> p, min |-> lo, max |-> hi, duty_cycle |-> d]]

pinMode(p)               == Command("PIN_SET", p, 0, 0, 0)
softPwmCreate(p, lo, hi) == Command("PWM_INIT", p, lo, hi, 0)
softPwmWrite(p, d)       == Command("PWM_SET", p, 0, 0, d)

Program == <<
  pinMode(PIN1), pinMode(PIN2),
  softPwmCreate(PIN1, 0, 100), softPwmCreate(PIN2, 0, 10000),
  softPwmWrite(PIN1, 50), softPwmWrite(PIN2, 1000) >>

ArgsOf(op) == {Program[n].arg : n \in {m \in DOMAIN Program : Program[m].op = op}}
Creates == ArgsOf("PWM_INIT")
Writes  == ArgsOf("PWM_SET")

-----------------------------------------------------------------------------
End == Len(Program) + 1
Ended(c) == at[c] = End + 1

MainInit ==
  /\ runs = [c \in Client |-> 0]
  /\ at = [c \in Client |-> End + 1]
  /\ said = [c \in Client |-> TRUE]

main_start(c) ==
  /\ Ended(c) /\ runs[c] < Runs
  /\ runs' = [runs EXCEPT ![c] = @ + 1]
  /\ at' = [at EXCEPT ![c] = 0]
  /\ said' = [said EXCEPT ![c] = FALSE]

main_open(c, works) ==
  /\ at[c] = 0
  /\ at' = [at EXCEPT ![c] = IF works THEN 1 ELSE End + 1]
  /\ said' = [said EXCEPT ![c] = ~works]
  /\ UNCHANGED runs

(* The next call, or the end; before it the library has looked at what the *)
(* last ioctl returned.                                                    *)
main_next(c) ==
  /\ at[c] \in 1 .. End
  /\ at' = [at EXCEPT ![c] = @ + 1]
  /\ said' = [said EXCEPT ![c] = @ \/ ret[c] = "error"]
  /\ UNCHANGED runs

=============================================================================
