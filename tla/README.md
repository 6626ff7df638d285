# KsoftPWM: a TLA+ verification of the PWM kernel modules

KsoftPWM makes pulse-width modulation (PWM) on the GPIO pins of a Raspberry Pi 3
in software. This directory holds TLA+ specifications of the code, TLC models
that check them on small instances, and TLAPS proofs that extend the main results
to every value of the constants. `PROJECT.json` lists, for each definition, the
source lines it stands for, and for each run, property and hazard what it is about.

## The system

| Part | Source | State it changes | Modelled in |
|---|---|---|---|
| softPWM driver | `softPWM/main.c`, `softpwm.h` | `pwm_pin_count`, `duty_array`, `pwm_tsk`, the device, one kernel thread per channel | `SoftPwm`, `PwmTiming`, `PwmWave` |
| xenoPWM driver (RTDM) | `xenoPWM/main.c`, `xenopwm.h` | `pwm_pin_count`, `duty_array`, `task_array`, the device, one real-time task per channel | `XenoPwm`, `PwmTiming`, `PwmWave` |
| GPIO access | `gpio.c` (identical in both drivers) | function-select registers, output latches | `GpioSelect`, `level` in `SoftPwm` and `XenoPwm` |
| user libraries and demos | `*/uapi/*.c` | none of their own | `DemoProgram`, `SoftPwmDemo` |
| latency test | `tests/latency/wiring_pi` | a histogram, counters, a report | `LatencyTest` |
| data passing test | `tests/pass_test` | a global record and a pointer | `PassTest` |
| GPIO access test | `tests/pi_gpio_access` | one pin's function and latch | `GpioAccess` |
| vendored kernel headers and build files | `xenoPWM/kernel_source` | | not modelled: not this program's code |

A process opens the character device and issues `PIN_SET`, `GPIO_SET`, `PWM_INIT`
and `PWM_SET`. `PWM_INIT` creates a kernel thread, fills an entry of `duty_array`,
wakes the thread and counts it. The thread raises the pin, sleeps `HIGH_TIME`,
lowers it, sleeps `LOW_TIME`, and computes both times from its entry, which
`PWM_SET` may change meanwhile. `pwm_exit` stops the threads one after the other,
then unmaps the registers and gives the device back. The driver takes no lock.

xenoPWM has the same commands on an RTDM device. Its `PWM_INIT` fills the entry
first, with duty cycle 10, and `rtdm_task_init` creates and starts the task in one
call, before `pwm_pin_count` is raised. `xeno_pwm_exit` destroys the tasks in turn.

## Modules

- `PwmTiming`: an entry of `duty_array` and both drivers' `HIGH_TIME` and
  `LOW_TIME`. C division truncates, `int` arithmetic wraps (the kernel is built
  with `-fno-strict-overflow`), and a negative time becomes a large `unsigned long`.
  `PERIOD` and `IntHalf` (2^31 in the build) are constants.
- `SoftPwm`: the driver over one lifetime of the module. One step is one access to
  a shared variable. Actions carry the name of the function or command they come
  from; `init_*` are the steps of `PWM_INIT` in program order, `set_*` those of
  `PWM_SET`, `task_*` those of `pwm_task`, `exit_*` those of `pwm_exit`.
  - A call keeps a register copy of `pwm_pin_count`. It is loaded anew after
    `printk` and for `++`; anywhere else the compiler may load it again, which the
    action `reload` does at any moment.
  - An access the program may not make sets `fault`, and nothing follows.
  - `kthread_create`, `kthread_stop`, `wake_up_process`, the device map and module
    reference counting are modelled from how the driver uses them. A thread that
    was never woken ends without running when it is stopped.
  - The sleeps are control points without a duration; durations are in `PwmWave`.
- `PwmWave`: one channel of either driver, the two sleeps of each turn, and
  `PWM_SET` between them. `HIGH_TIME` appears twice in `usleep_range(HIGH_TIME,
  HIGH_TIME)`; the model computes it once, as an optimising build does. A delay of 0
  in xenoPWM is a sleep without an end (`Forever`): with duty cycle 0 the pin stays
  high, with the full range it stays low, whatever `PWM_SET` writes later.
- `GpioSelect`: `PIN_SET` as load, edit and store of a register that holds the
  fields of ten pins. Processes may share a register. Two history variables say
  what the race does: `late` holds, for a call that has read the register, the pins
  set since then, and `want` forgets a setting when such a call writes its copy back.
- `XenoPwm`: the RTDM driver in the same style. `rtdm_task_sleep` matters for
  control here: a delay of 0 means no limit and a negative one returns at once, so
  each task keeps its last delay in `nap`. `rtdm_task_destroy` ends a sleep of any
  length and waits for the task. Two `PWM_INIT` calls that overlap may hand one entry
  of `task_array` to `rtdm_task_init` twice. Nothing checks that and nothing stops:
  the first task runs on, out of reach of `xeno_pwm_exit` (`lost`, `lost_step`), and
  increments of the count may be lost. `raced` remembers that two calls overlapped.
- `PwmService`: what both drivers promise, as a table of channels. A call takes
  effect in one step: `Start` and `Publish` for `PWM_INIT`, `Store` or `Miss` for
  `PWM_SET`. `SoftPwmService` and `XenoPwmService` give the refinement mappings; a
  channel is in the table from the moment its thread or task may run.
- `DemoProgram`: `main()` of the demos and the library functions it calls.
  `SoftPwmDemo` composes it with the softPWM driver and with processes that use the
  driver freely. `ret` connects them: the library prints a message exactly when an
  ioctl returned an error. The xenoPWM demo makes the same calls.
- `GpioAccess`: the GPIO access test as one more user of `GpioSelect`'s registers;
  `clash` remembers that another call wrote a stale copy over its pin.
- `LatencyTest`: the options, the measuring loop with its histogram, and the report.
  A latency of exactly `array_size` is counted one place past the histogram. The
  variable there (`behind`) is a choice of the build: `max_latency`, padding or
  `overrun_num`; `stray` counts such writes. A report that runs past the histogram
  prints what it finds there, or ends in a fault.
- `PassTest`: the data passing test; a user pointer is the process it belongs to.
- `MC...`: the instances TLC checks. `SoftPwmDemo` is its own instance.
- `PwmTimingProofs`, `SleepProofs` (`PwmWave`, `LatencyTest`), `SoftPwmProofs`,
  `SoftPwmSafety`, `SoftPwmServiceProofs`, `XenoPwmProofs`, `XenoPwmSafety` and
  `TestModuleProofs` (`GpioSelect`, `GpioAccess`, `PassTest`): the proofs. Each
  extends the modules it is about.

Definitions named `Mut_...` are wrong on purpose. Each is the operation that
follows it with one slip, and the property named in `PROJECT.json` fails with it.

## Runs

| Run | Expected | Shows |
|---|---|---|
| `soft_disciplined` | pass | One creating and one writing process, two channels, unload at any time: no invalid access, threads end before the registers are unmapped, pins fall with their threads, created pins stay writable, sleep times stay within a period, published entries stay as they are, and `PwmService` is implemented. |
| `soft_anyuser` | pass | Two creators, failing allocations, a zero range, a count past the arrays: every kind of fault (array bound, NULL, unmapped register, division by zero, freed code, freed device) is reached, the state stays well typed, and no thread is in two entries of `pwm_tsk`. |
| `soft_live` | pass | The demo beside a second process: it ends; if it printed no failure its pins pulse as asked, and go on after it ended. Every ioctl returns, every channel keeps pulsing, unloading ends. |
| `wave_steady` | pass | Length of a turn that ends, worst case of a torn turn, share of the high half, and that xenoPWM stays in one half for good only if that half was asked to have no width. |
| `gpio_words` | pass | The GPIO access test beside `PIN_SET` calls on its own register and on another: a setting is lost only to a call for another pin that read the register before it and wrote it after it, no unnamed pin changes, and pin 16 is an output when it is driven high, unless such a call hit it. |
| `xeno_disciplined` | pass | One creating and one writing process, two tasks, a duty cycle at the end of the range: no invalid access, no lost task, pins fall with their tasks, every delay asked for is between 0 (which has no limit) and a period, `PwmService` is implemented, every ioctl returns, a channel pulses unless it is in a sleep without a limit, and unloading ends even then. |
| `xeno_anyuser` | pass | Two creators, failing loads, a zero range, too many channels: the races run on to lost tasks and every kind of fault, and the state stays well typed; until two `PWM_INIT` calls overlap, only started tasks are counted and none outlives unloading. |
| `latency` | pass | Every sleep is counted once, extremes are right and the report is complete, each up to what writes at `array_size` did; the report leaves the histogram only after a latency that did not fit. |
| `pass_test` | pass | A call that overlaps no other prints its own data and follows no foreign pointer. |
| `soft_reopen` | violation | After `rmmod` the device map still names the freed `cdev`. |
| `soft_lost` | violation | Two concurrent `PWM_INIT` calls return 0 and one channel is lost. |
| `wave_minmax` | violation | With `min` > 0 a duty cycle up to `max` gives a negative `LOW_TIME`. |

The three violations are disagreements between the code and its own messages,
comments or callers; `findings` in `PROJECT.json` quotes the lines.

**Behaviour the models show and no property forbids.** These follow from a line or
two of the code, so a run about them alone would say little; a reader should know
them.

- `pwm_ioctl` answers a refused `PIN_SET`, `GPIO_SET` or `PWM_SET` with 0, which the library takes for
  success. `SilentMeansServed` says what a silent demo may still conclude.
- A failed allocation is logged and `pwm_init` goes on, up to a loaded module without
  its arrays (fault `null` in `soft_anyuser`) or its device.
- `OUTPUT` on a pin in an alternate function keeps the other bits of its field, so
  it need not select output. The GPIO access test selects input first, which is why
  `HighPinIsOutput` holds for it.
- On xenoPWM a duty cycle at an end of the range makes a sleep of 0, which has no
  limit: the task stays in one half, high for duty cycle 0. `CreatedPulses` and
  `CycleBound` name that case. A range above `PERIOD_NS` would make every sleep 0.
- Two `PWM_INIT` calls at once on xenoPWM can leave a task that `xeno_pwm_exit` does
  not know of, which then writes unmapped registers, or a count that takes in an
  entry without a task (`raced` in `xeno_anyuser`).
- Two calls that edit one function-select register at once can undo each other:
  `PIN_SET` of a neighbour can take from the GPIO access test what it set.
- `xeno_pwm_exit` unregisters a device whose registration failed (fault `unreg`).
- A second run of the demo puts a second channel on each pin, which no write
  reaches; a third exceeds `MAX_PWM_NUM` (`SoftPwmDemo` with a larger `Runs` and
  `InitLimit`; no run here takes the minutes that needs).
- A latency of exactly `array_size` is counted one entry past the histogram, and can
  raise `max_latency` or `overrun_num` by one instead.

**Bounds.** `Client` has two processes: every race in `pwm_ioctl` is between two
calls. `MAX_PWM_NUM` is 2 instead of 5, enough for an entry below the count, one
being filled, and a stop loop of two turns. `InitLimit` bounds the threads created
in a lifetime, not the calls: in `soft_anyuser` a failed creation that races with
another is counted too, and the next one is past the arrays. `PERIOD` = 100 and
`IntHalf` = 2048 stand for 10000 us and 2^31: in `wave_steady` the widest softPWM
product is just below the limit, and the ranges include some that do not divide the
period. `gpio_words` has three pins of one register, of which the test names one, the
other process one and nobody the third, and one pin of the next register. Deadlock is not checked where the system may stop: after unloading, after a
failed load, at the end of a program, or at a fault.

`XenoPwm` has the same bounds; its ranges are 20, so that the initial duty cycle 10
is inside. In `xeno_anyuser`, where the races go on, the arguments are few: a range
of 0, a range of 10, at which the initial duty cycle makes an endless sleep, and a
`PWM_SET` for a pin that has no channel, which walks the whole count. `soft_live` uses the program's own pins, ranges and `MAX_PWM_NUM` = 5,
and the real period; `IntHalf` is 2^29, above every product it forms, because TLC's
integers have 32 bits. `Runs` = 1 is the number of times a client runs the demo.
`LatencyTest` has 10 ns to the microsecond and three histogram entries, with samples
on each side of every comparison; `PassTest` has the four fields of the code and two
processes.

**Symmetry** is used where both processes create channels and are alike, and only
for invariants.

**Fairness** (`soft_live`, `xeno_disciplined`). A call inside the driver, a woken
thread and a started `pwm_exit` go on: the kernel schedules every runnable task and
its timers fire. `kthread_stop` waits, so `exit_wait` needs only weak fairness: an
ended thread stays ended. Users and `rmmod` are under no obligation. An RTDM task is
scheduled only when its sleep is over, so a sleep without a limit is not fair to
anything. In `soft_live` a demo process that has the device open is scheduled until
it ends.

## What is proved

Proofs are for any sets of clients, pins and arguments, any array size and any
period, under the named assumptions of the modules.

- `SoftPwmProofs`: `TypeCorrect` (`TypeOK`) and `NoThreadStoppedTwice`
  (`NoDoubleStop`) for *any* users. `NoDoubleStop` is not inductive: a thread is
  first in the local of the call that created it. `OwnInv` adds that such a thread
  is in no entry and in no other call.
- `SoftPwmSafety`, with the lemmas of `SoftPwmProofs`: six theorems under
  `Disciplined`: at most one process creates channels, at most `MAX_PWM_NUM` of them; the arrays and the mapping were
  allocated; `min < max`, the products fit an `int`, and every duty cycle is in its
  pin's range. The inductive invariant `DisciplinedInv` says how far each call has
  come (`AddingInv`, `SettingInv`), that thread, entry and index agree
  (`ThreadInv`), what unloading has done (`LifeInv`), and how the count relates to
  the threads (`CountInv`). The theorems are `DriverNeverFaults`, `UnloadIsQuiet`,
  `PinsFallWithThreads`, `CreatedStaysWritable`, `SleepsStayBounded` and
  `PublishedStaysStable`. The runs `soft_anyuser` and `soft_lost` show that the
  hypotheses are needed: without them the driver faults or loses a channel.
  `NoDriverFault` does not cover the open after unload, which is the finding
  `soft_reopen`.
- `SoftPwmServiceProofs`: `SoftImplementsService`, that `SoftPwm` implements
  `PwmService` under `Disciplined`. Initial states map to initial states, and each
  action maps to one action of the service or to a stutter. It needs `DisciplinedInv`
  and `ServiceInv`: a search has passed only entries of other pins, so `PWM_SET`
  writes the *first* channel of its pin, and a thread is woken with duty cycle 0.
  The part of the mapping that is about the module and its threads is in
  `SoftPwmSafety`.
- `SoftPwmServiceProofs`, on `SoftPwmDemo`: `SilenceIsService` (`SilentMeansServed`),
  for any number of runs, other processes and channels, under `DemoSound`:
  `Disciplined`, where the creating process is the one of the demo, and whoever
  writes to a pin of the demo writes the duty cycle the demo does. The property is
  about the last state of `main()` only. `DemoInv` carries it there: each call that
  has returned in silence took effect (`Effect`: the pin is created, the duty cycle
  is written), and a failure is forgotten only once its message is printed. A
  refused `PWM_SET` also returns in silence. It took effect all the same, because
  it cannot have been refused: its pin was created by an earlier silent call, so
  some entry below the count has it; the count the search has read is still the
  count, as the only creator is the one searching; and the search has passed only
  entries of other pins (`ServiceInv`). Effects stay until the module is unloaded:
  later runs of the demo add channels and write the same duty cycles.
- `XenoPwmProofs`: `TypeCorrect`, `CountedTasksWereStarted` (`CountedIsInited`) and
  `UnloadIsQuiet` (`QuietAfterUnload`) for *any* users: any number of creators, failed
  loads, arguments and calls past the arrays. The last two say nothing once two
  `PWM_INIT` calls have overlapped (`raced`), because the code then keeps neither; the
  first holds through that, too. The invariant `AnyInv` has what loading and unloading
  have done (`LifeInv`), which holds in any case, and, unless `raced`, `CountInv`: one
  call at a time is inside `PWM_INIT`, and the started tasks are those below the count
  and the one of the call that is about to raise it.
- `XenoPwmSafety`: that one creator's calls never overlap (`StaysCalm`), so `CountInv`
  always holds, and with it `DriverNeverFaults`, `PinsFallWithTasks` and `SleepsStayBounded`
  under `Disciplined`, which here asks for ranges of at least the initial duty cycle.
  `DisciplinedInv` adds that the entry at the count is filled in order by the one
  creating call (`AddingInv`) and that every task works on an entry in range
  (`GoodSlot`), although it is not counted yet. The same invariant carries
  `XenoImplementsService`, that `XenoPwm` implements `PwmService`: the start of the
  task is the service's `Start`, the new count its `Publish`, and the stores before
  them go to an entry that no running task reads (`InitUnseen`).
- `PwmTimingProofs`: `SoftTimes` and `XenoTimes`, the bounds, sum and accuracy of
  the two times. softPWM multiplies first and loses at most one microsecond a turn;
  xenoPWM divides first and loses less than the range, in nanoseconds.
- `SleepProofs`, on `PwmWave`: `CyclesAreSteady`, `CyclesAreBounded` and `HighIsAsked` under
  `Sound` (duty cycles from 0 to the range, softPWM products within an `int`,
  xenoPWM ranges from its initial duty cycle 10 to the period). The invariant `WaveInv`
  ties the sleep of the high half to the current entry until a `PWM_SET` tears the
  turn. That a half without an end was asked for needs the quotient `PERIOD_NS /
  PWM_RANGE` to be at least 1, hence the bound on xenoPWM's range.
- `SleepProofs`, on `LatencyTest`: `SleepsAreCounted` (`EverySleepCounted`),
  `PrintedExtremesAreRight`, `ReportAddsUp` (`ReportIsComplete`) and
  `ReportOverrunsOnlyWithSamples`, for any samples, any number of sleeps, any
  histogram size and each of the variables that may lie behind the histogram. The invariant `LatencyInv` adds that the histogram is empty past
  `max_latency`, which lies in it unless a sample overran it (`HistogramInv`), and
  that the lines of the report sum to the histogram up to the line reached
  (`ReportInv`); a report that ends at `max_latency` therefore leaves nothing out.
  The sums are those of the community modules. What they do when one entry grows or
  one line is added is shown from their definition, by induction on the number of
  elements.
- `TestModuleProofs`, on `GpioSelect` and `GpioAccess`: `LastSetSurvives` and
  `LastSetSurvivesTest` (`LastSetHolds`, without and with the access test),
  `TestDrivesAnOutput` (`HighPinIsOutput`) and `UnnamedPinsKept`
  (`OthersKeepFunction`), for any pins and any number of processes, which may share
  registers and race for them. The second needs that the test's pin is among those
  the loader is said to use, the third that no other process sets that pin
  (`OwnPin`). The invariant `GpioInv` says that the copy a call has taken is still what
  the register holds: for a pin with a setting, unless that came after the copy
  (`CopyInv`); for the unnamed pins always (`CallInv`). Only pins of others come after
  it (`LateInv`). `AccessInv` adds what `gp_init` has done to its pin so far.
- `TestModuleProofs`, on `PassTest`: `AloneCallsEcho` (`AloneEchoes`) and
  `BadPointerNeedsOverlap` (`ForeignOnlyByOverlap`), for any number of processes and
  fields. `PassInv` says that while a call is alone all other processes are outside
  the driver, so what it has stored so far is still there (`AloneInv`).

Only model-checked:

- the liveness properties: fairness and `ENABLED` are beyond the prover. Every
  invariant and every action property of a passing run has a theorem.

The proofs do not rest on a theorem with an operator parameter, which the provers
cannot instantiate. Induction is a lemma about a *set* of numbers, from the
well-foundedness of `<`, and each use names the set for which it is needed.

## Not modelled

- `xenoPWM/kernel_source`: headers, scripts and build files of Linux 4.1.21 with
  Xenomai, almost all of the lines in the repository and none of them this program's.
  Measured against them the part of the source that is mapped is close to nothing;
  of the program itself every function that changes state is mapped.
- The kernel and RTDM functions the modules call: modelled from their use only, and
  marked external in `PROJECT.json`. In particular that `rtdm_task_sleep(0)` has no
  limit and that `rtdm_task_destroy` ends it is taken from RTDM's interface.
- `copy_from_user`-like checks: the drivers follow the user's pointer directly, and
  the models take the argument as given.
- `usleep_range(HIGH_TIME, HIGH_TIME)` with a `PWM_SET` between the two evaluations:
  an optimising build computes the two equal expressions once.
- The demo on the xenoPWM driver: `DemoProgram` is the same program, but only softPWM
  is composed with it.
- Real time: durations are in `PwmTiming` and `PwmWave`, and `SoftPwm` and `XenoPwm`
  have none. Two channels on one pin are checked for control, not for their wave.
- Messages, file names and the wording of the reports.
