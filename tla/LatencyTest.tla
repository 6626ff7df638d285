----------------------------- MODULE LatencyTest -----------------------------
(***************************************************************************)
(* The latency test (tests/latency/wiring_pi/wiring_latency.c): it sleeps  *)
(* `times' times, sorts each latency in whole microseconds into a          *)
(* histogram, and writes a report of the histogram up to the largest       *)
(* latency.                                                                *)
(*                                                                         *)
(* A sample is LATENCY, in ns: how much longer than test_period a sleep    *)
(* took.  It is negative for a sleep that ended early.                     *)
(*                                                                         *)
(* The test for an overrun lets a latency of exactly array_size pass, and  *)
(* the report runs up to max_latency however large that is: both leave the *)
(* histogram, and the program goes on.  The write hits what the build put  *)
(* behind the array: the compiler lays the zero-initialised statics out in *)
(* the order of their definition or in the reverse one, so that is         *)
(* max_latency, the padding before it, or overrun_num.  A read past the    *)
(* array prints some number, or ends in a fault once it leaves the mapped  *)
(* memory.                                                                 *)
(***************************************************************************)
EXTENDS Integers, Sequences, FiniteSetsExt, Functions

CONSTANTS
  TimesArg,      \* what atoi may make of the option -n; 0 without the option
  DefaultTimes,  \* 1000 in the code
  Sample,        \* the latencies that occur, in ns
  US,            \* ns in a microsecond
  array_size,    \* entries of the histogram
  LONG_MAX

ASSUME LatencyAssumption ==
  /\ TimesArg \subseteq Int /\ Sample \subseteq Int
  /\ {DefaultTimes, US, array_size, LONG_MAX} \subseteq Nat \ {0}

VARIABLES
  times, output,  \* the options: number of sleeps; whether -o names a file
  behind,         \* the variable behind the histogram, if it is modelled
  n,              \* sleeps measured: the loop variable
  latency,        \* the histogram
  negative_num, overrun_num, min_latency, max_latency,
  stage,          \* "loop", "report" or "done"
  line,           \* the loop variable of the report
  report,         \* the lines of the histogram written so far
  seen,           \* history: the latencies met, in microseconds
  stray,          \* history: writes past the histogram
  fault           \* why the program was killed: "nofile", "segv" or "none"

optVars == <<times, output, behind>>
histVars ==
  <<n, latency, negative_num, overrun_num, min_latency, max_latency, seen, stray>>
reportVars == <<line, report>>
latencyVars == <<optVars, histVars, stage, reportVars, fault>>

Index == 0 .. array_size - 1

LatencyInit ==
  /\ times \in {IF t = 0 THEN DefaultTimes ELSE t : t \in TimesArg}
  /\ output \in BOOLEAN
  /\ behind \in {"padding", "max_latency", "overrun_num"}
  /\ n = 0
  /\ latency = [k \in Index |-> 0]
  /\ negative_num = 0 /\ overrun_num = 0
  /\ min_latency = LONG_MAX /\ max_latency = 0
  /\ stage = "loop"
  /\ line = 0 /\ report = <<>>
  /\ seen = {} /\ stray = 0
  /\ fault = "none"

-----------------------------------------------------------------------------
(* C division truncates: a sample above -US counts as 0 microseconds.      *)
Micro(x) == IF x < 0 THEN -((-x) \div US) ELSE x \div US

(* latency[u]++ is the increment of the variable v behind the histogram.   *)
Hits(u, v) == u = array_size /\ behind = v

(* max_latency as the comparisons of a turn find it.                       *)
max_before(u) == IF Hits(u, "max_latency") THEN max_latency + 1 ELSE max_latency

(* min_latency is left as it is by the sample that sets max_latency.       *)
Mut_Track(u) ==
  /\ max_latency' = IF u > max_before(u) THEN u ELSE max_before(u)
  /\ min_latency' = IF u < min_latency /\ u <= max_before(u) THEN u ELSE min_latency

Track(u) ==
  /\ min_latency' = IF u < min_latency THEN u ELSE min_latency
  /\ max_latency' = IF u > max_before(u) THEN u ELSE max_before(u)

(* A latency of 0 counts as negative, too.                                 *)
Mut_Count(u) ==
  /\ negative_num' = IF u <= 0 THEN negative_num + 1 ELSE negative_num
  /\ overrun_num' = IF u > array_size \/ Hits(u, "overrun_num")
                    THEN overrun_num + 1 ELSE overrun_num
  /\ latency' = IF u \in Index THEN [latency EXCEPT ![u] = @ + 1] ELSE latency
  /\ stray' = IF u = array_size THEN stray + 1 ELSE stray

(* Where a latency is counted: the test for an overrun is > array_size.    *)
Count(u) ==
  /\ negative_num' = IF u < 0 THEN negative_num + 1 ELSE negative_num
  /\ overrun_num' = IF u > array_size \/ Hits(u, "overrun_num")
                    THEN overrun_num + 1 ELSE overrun_num
  /\ latency' = IF u \in Index THEN [latency EXCEPT ![u] = @ + 1] ELSE latency
  /\ stray' = IF u = array_size THEN stray + 1 ELSE stray

(* One turn of the loop.                                                   *)
measure ==
  /\ stage = "loop" /\ n < times
  /\ \E x \in Sample :
       LET u == Micro(x) IN
       /\ Count(u)
       /\ Track(u)
       /\ seen' = seen \union {u}
  /\ n' = n + 1
  /\ UNCHANGED <<optVars, stage, reportVars, fault>>

(* After the loop: no file was asked for, or fopen works, or it fails and  *)
(* the header is printed to NULL.                                          *)
open_report ==
  /\ stage = "loop" /\ n >= times
  /\ \/ ~output /\ stage' = "done" /\ UNCHANGED fault
     \/ output /\ stage' = "report" /\ UNCHANGED fault
     \/ output /\ fault' = "nofile" /\ UNCHANGED stage
  /\ UNCHANGED <<optVars, histVars, reportVars>>

(* fprintf of one line: of the histogram, or of what lies behind it.       *)
PrintLine ==
  \/ /\ line' = line + 1
     /\ report' = IF line \in Index THEN Append(report, latency[line]) ELSE report
     /\ UNCHANGED <<stage, fault>>
  \/ /\ line \notin Index
     /\ fault' = "segv"
     /\ UNCHANGED <<stage, reportVars>>

CloseReport ==
  /\ stage' = "done"
  /\ UNCHANGED <<reportVars, fault>>

(* The last line is left out.                                              *)
Mut_report_line ==
  /\ stage = "report"
  /\ \/ line < max_latency /\ PrintLine
     \/ line >= max_latency /\ CloseReport
  /\ UNCHANGED <<optVars, histVars>>

(* The bound is array_size, not max_latency.                               *)
Mut_report_all ==
  /\ stage = "report"
  /\ \/ line <= array_size /\ PrintLine
     \/ line > array_size /\ CloseReport
  /\ UNCHANGED <<optVars, histVars>>

(* One turn of the report's loop, or its end.                              *)
report_line ==
  /\ stage = "report"
  /\ \/ line <= max_latency /\ PrintLine
     \/ line > max_latency /\ CloseReport
  /\ UNCHANGED <<optVars, histVars>>

LatencyNext == fault = "none" /\ (measure \/ open_report \/ report_line)

LatencySpec == LatencyInit /\ [][LatencyNext]_latencyVars

-----------------------------------------------------------------------------
(* The sleeps whose count went to a place the report does not show.        *)
Lost == IF behind = "overrun_num" THEN 0 ELSE stray

(* How much the writes past the histogram may have added to max_latency.   *)
Excess == IF behind = "max_latency" THEN stray ELSE 0

(* Every sleep is counted exactly once: as negative, as an overrun, in one *)
(* entry of the histogram, or, at exactly array_size microseconds, behind  *)
(* the histogram, which may happen to be the count of overruns.            *)
EverySleepCounted == n = negative_num + overrun_num + Lost + SumFunction(latency)

(* The extremes the report names are those of all samples, negative and    *)
(* overrun ones included (max_latency starts at 0, min_latency at the      *)
(* largest long); only where max_latency lies behind the histogram may it  *)
(* be too large, by at most one for each write past the array.             *)
ExtremesAreRight ==
  /\ max_latency - Max(seen \union {0}) \in 0 .. Excess
  /\ min_latency = Min(seen \union {LONG_MAX})

(* A finished report leaves no sleep out but those lost behind the         *)
(* histogram: its lines, overruns and negative latencies add up to the     *)
(* sleeps asked for, also after overruns.                                  *)
ReportIsComplete ==
  stage = "done" /\ output /\ times >= 0 =>
    SumFunction(report) + overrun_num + negative_num + Lost = times

(* The report reads past the histogram only if some latency was array_size *)
(* or more; the loop's bound max_latency is safe else.                     *)
ReportFitsUnlessOverrun ==
  line > array_size \/ fault = "segv" => \E u \in seen : u >= array_size

-----------------------------------------------------------------------------
LatencyTypeOK ==
  /\ times \in Int /\ output \in BOOLEAN
  /\ behind \in {"padding", "max_latency", "overrun_num"}
  /\ n \in Nat /\ negative_num \in Nat /\ overrun_num \in Nat
  /\ latency \in [Index -> Nat]
  /\ min_latency \in Int /\ max_latency \in Nat
  /\ stage \in {"loop", "report", "done"}
  /\ line \in Nat /\ report \in Seq(Nat)
  /\ seen \subseteq Int /\ stray \in Nat
  /\ fault \in {"none", "segv", "nofile"}

(* There is a largest sample, and max_latency is that far from it at most; *)
(* min_latency is a sample, or as it began, and bounds all samples.        *)
ExtremesInv ==
  /\ \E m \in seen \union {0} : /\ \A u \in seen \union {0} : u <= m
                                /\ max_latency - m \in 0 .. Excess
  /\ min_latency \in seen \union {LONG_MAX}
  /\ min_latency <= LONG_MAX /\ \A u \in seen : min_latency <= u

(* The histogram is empty past max_latency, which lies in it unless a      *)
(* sample did not.                                                         *)
HistogramInv ==
  /\ \A k \in Index : k > max_latency => latency[k] = 0
  /\ max_latency >= array_size => \E u \in seen : u >= array_size

(* The report is the histogram up to the line it has reached, and is       *)
(* written when all sleeps are counted.                                    *)
ReportInv ==
  /\ times >= 0 => n <= times
  /\ stage = "loop" => line = 0
  /\ stage # "loop" => n >= times
  /\ Len(report) = IF line <= array_size THEN line ELSE array_size
  /\ SumFunction(report) = SumFunctionOnSet(latency, 0 .. Len(report) - 1)
  /\ stage = "done" /\ output => line > max_latency

LatencyInv ==
  /\ LatencyTypeOK
  /\ EverySleepCounted
  /\ ExtremesInv
  /\ HistogramInv
  /\ ReportInv
  /\ ReportFitsUnlessOverrun

=============================================================================
