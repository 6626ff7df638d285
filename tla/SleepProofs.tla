-------------------------------- MODULE SleepProofs -------------------------
(***************************************************************************)
(* Proofs about what sleeps make.  First PwmWave: the turns of pwm_task's  *)
(* loop for any period, any ranges and any sequence of PWM_SET calls that  *)
(* keeps duty cycles sound.  Then LatencyTest: what latency_test prints of *)
(* the sleeps it measured, for any samples and any size of its histogram.  *)
(* Its sums are SumFunction of the community modules, a recursion over     *)
(* subsets; what they need of it is proved here by induction.              *)
(***************************************************************************)
EXTENDS PwmWave, LatencyTest, PwmTimingProofs, WellFoundedInduction

(* More than the prover's default time, for a loaded machine.              *)
USE SMTT(30)

(* A time within the period is its own conversion to unsigned long.        *)
LEMMA ULongFits ==
  ASSUME NEW x \in 0 .. PERIOD
  PROVE  ULong(x) = x
  BY TimingAssumption DEF ULong, TimingAssumption

(* Dividing the period by the range first, q times d falls short of the    *)
(* exact share by less than the range.                                     *)
LEMMA CutShare ==
  ASSUME NEW p \in Nat, NEW r \in Nat, NEW d \in Nat, NEW q \in Nat,
         0 < r, d <= r, r * q <= p, p < r * q + r
  PROVE  r * (q * d) <= p * d /\ p * d - r * (q * d) < r * r
<1> DEFINE m == p - r * q
<1>1. m \in Nat /\ m < r
  <2>1. r * q \in Nat
    OBVIOUS
  <2>2. QED
    BY <2>1
<1>2. p * d - r * (q * d) = m * d
  OBVIOUS
<1> HIDE DEF m
<1>3. m * d \in Nat /\ m * d <= m * r
  BY <1>1, MulMono, Zenon
<1>4. r * m < r * r /\ r * m = m * r
  BY <1>1
<1>5. p * d \in Int /\ r * (q * d) \in Int /\ r * m \in Int /\ r * r \in Int
  BY <1>1
<1>6. QED
  BY <1>2, <1>3, <1>4, <1>5

(* A product of two numbers is 0 only when one of them is.                 *)
LEMMA MulPositive ==
  ASSUME NEW a \in Nat, NEW b \in Nat, 0 < a, a * b = 0
  PROVE  b = 0
  OBVIOUS

(* A xenoPWM sleep of a time in the period.                                *)
LEMMA XenoSleep ==
  ASSUME drv = "xeno", NEW x \in 0 .. PERIOD
  PROVE  SleepArg(x) = IF x = 0 THEN Forever ELSE x
<1>1. drv # "soft" /\ ~(x < 0)
  BY TimingAssumption DEF TimingAssumption
<1>2. QED
  BY <1>1, Zenon DEF SleepArg

(* Both drivers' times for the current entry, and what sleeping them does. *)
LEMMA Times ==
  ASSUME WaveInv
  PROVE  /\ HIGH_TIME \in 0 .. PERIOD /\ LOW_TIME \in 0 .. PERIOD
         /\ IF drv = "xeno" /\ HIGH_TIME = 0 THEN slot.duty_cycle = 0 /\ SleepArg(HIGH_TIME) = Forever
                                             ELSE SleepArg(HIGH_TIME) = HIGH_TIME
         /\ IF drv = "xeno" /\ LOW_TIME = 0 THEN slot.duty_cycle = R /\ SleepArg(LOW_TIME) = Forever
                                            ELSE SleepArg(LOW_TIME) = LOW_TIME
         /\ IF drv = "soft" THEN HIGH_TIME + LOW_TIME \in {PERIOD - 1, PERIOD}
                            ELSE HIGH_TIME + LOW_TIME \in PERIOD - R + 1 .. PERIOD
         /\ R * HIGH_TIME <= PERIOD * slot.duty_cycle
         /\ PERIOD * slot.duty_cycle - R * HIGH_TIME < IF drv = "soft" THEN R ELSE R * R
<1> USE DEF WaveInv, TypeOK
<1> DEFINE d == slot.duty_cycle
<1>0. R \in Nat /\ 0 < R /\ d \in Nat /\ d <= R /\ PERIOD \in Nat
  BY TimingAssumption DEF R, SlotOf, TimingAssumption
<1>1. CASE drv = "soft"
  <2>1. InRange(slot)
    BY <1>1 DEF InRange, R
  <2>2. /\ HIGH_TIME \in 0 .. PERIOD /\ LOW_TIME \in 0 .. PERIOD
        /\ HIGH_TIME + LOW_TIME \in {PERIOD - 1, PERIOD}
        /\ R * HIGH_TIME <= PERIOD * d
        /\ PERIOD * d < R * HIGH_TIME + R
    BY <1>1, <2>1, SoftTimes, Zenon DEF HIGH_TIME, LOW_TIME, R
  <2>3. SleepArg(HIGH_TIME) = HIGH_TIME /\ SleepArg(LOW_TIME) = LOW_TIME
    BY <1>1, <2>2, ULongFits, Zenon DEF SleepArg
  <2>4. R * HIGH_TIME \in Int /\ PERIOD * d \in Int
    BY <1>0, <2>2
  <2>5. QED
    BY <1>0, <1>1, <2>2, <2>3, <2>4
<1>2. CASE drv = "xeno"
  <2>0. R < IntHalf /\ R <= PERIOD
    BY <1>0, <1>2, TimingAssumption DEF TimingAssumption
  <2>1. /\ HIGH_TIME = (PERIOD \div R) * d /\ LOW_TIME = (PERIOD \div R) * (R - d)
        /\ HIGH_TIME \in 0 .. PERIOD /\ LOW_TIME \in 0 .. PERIOD
        /\ HIGH_TIME + LOW_TIME \in PERIOD - R + 1 .. PERIOD
    BY <1>2, <2>0, XenoTimes, Zenon DEF HIGH_TIME, LOW_TIME, R
  <2>3. /\ PERIOD \div R \in Nat /\ R * (PERIOD \div R) <= PERIOD
        /\ PERIOD < R * (PERIOD \div R) + R
    BY <1>0, DivBound
  <2>4. R * HIGH_TIME <= PERIOD * d /\ PERIOD * d - R * HIGH_TIME < R * R
    BY ONLY <1>0, <2>1, <2>3, CutShare, Zenon
  <2>5. 0 < PERIOD \div R
    BY <1>0, <2>0, <2>3
  <2>6. HIGH_TIME = 0 => d = 0
    BY <1>0, <2>1, <2>3, <2>5, MulPositive, Zenon
  <2>7. LOW_TIME = 0 => d = R
    <3>1. R - d \in Nat /\ (R - d = 0 => d = R)
      BY <1>0
    <3>2. QED
      BY <2>1, <2>3, <2>5, <3>1, MulPositive, Zenon
  <2>8. /\ SleepArg(HIGH_TIME) = IF HIGH_TIME = 0 THEN Forever ELSE HIGH_TIME
        /\ SleepArg(LOW_TIME) = IF LOW_TIME = 0 THEN Forever ELSE LOW_TIME
    BY <1>2, <2>1, XenoSleep, Zenon
  <2>9. QED
    BY <1>0, <1>2, <2>1, <2>4, <2>6, <2>7, <2>8, Zenon
<1>3. QED
  BY <1>1, <1>2, Zenon

(* Every state of a wave whose ranges and duty cycles are sound meets the  *)
(* inductive invariant.                                                    *)
THEOREM WaveInvariant ==
  ASSUME Sound
  PROVE  Spec => []WaveInv
<1>1. Init => WaveInv
  <2> SUFFICES ASSUME Init PROVE WaveInv
    BY Zenon
  <2>1. PICK r \in Ranges(drv) : slot = [pin |-> 0, min |-> r[1], max |-> r[2],
                              duty_cycle |-> IF drv = "soft" THEN 0 ELSE 10]
    BY Zenon DEF Init
  <2>2. r[1] \in Int /\ r[2] \in Int /\ R = r[2] - r[1] /\ drv \in {"soft", "xeno"}
    BY <2>1, Zenon DEF Init, Sound, R
  <2>3. slot \in SlotOf({0}) /\ slot.duty_cycle = IF drv = "soft" THEN 0 ELSE 10
    BY <2>1, <2>2 DEF SlotOf
  <2>4. /\ 0 < R /\ (drv = "xeno" => 10 <= R)
        /\ IF drv = "soft" THEN PERIOD * R < IntHalf ELSE R <= PERIOD
    <3>1. CASE drv = "soft"
      BY <2>1, <2>2, <3>1, Zenon DEF Sound
    <3>2. CASE drv = "xeno"
      <4>1. 10 <= R /\ R <= PERIOD /\ drv # "soft"
        BY <2>1, <2>2, <3>2, Zenon DEF Sound
      <4>2. 0 < R
        BY <2>2, <4>1
      <4>3. QED
        BY <4>1, <4>2, Zenon
    <3>3. QED
      BY <2>2, <3>1, <3>2, Zenon
  <2>5. TypeOK
    <3>1. high \in Int /\ low \in Int /\ asked \in Int /\ lowAsked \in Int
      <4>1. high = 0 /\ low = 0 /\ asked = 0 /\ lowAsked = 0
        BY Zenon DEF Init
      <4>2. QED
        BY <4>1
    <3>2. at \in {"start", "high", "low"} /\ torn \in BOOLEAN
      BY Zenon DEF Init
    <3>3. QED
      BY <2>2, <2>3, <3>1, <3>2, Zenon DEF TypeOK
  <2>6. at = "start" /\ slot.duty_cycle \in 0 .. R
    BY <2>2, <2>3, <2>4 DEF Init
  <2>7. QED
    BY <2>4, <2>5, <2>6, Zenon DEF WaveInv, SteadyCycle, CycleBound, HighShare
<1>2. WaveInv /\ [Next]_vars => WaveInv'
  <2> SUFFICES ASSUME WaveInv, [Next]_vars PROVE WaveInv'
    BY Zenon
  <2>0. TypeOK /\ R \in Nat /\ PERIOD \in Nat
    BY TimingAssumption DEF WaveInv, TypeOK, R, SlotOf, TimingAssumption
  <2>1. CASE PWM_SET
    <3>1. PICK d \in Asked(slot) : slot' = [slot EXCEPT !.duty_cycle = d]
      BY <2>1, Zenon DEF PWM_SET
    <3>2. d \in 0 .. R
      BY <2>0, <3>1, Zenon DEF Sound, TypeOK, R
    <3>3. slot' \in SlotOf({0}) /\ slot'.duty_cycle = d /\ R' = R
      BY <2>0, <3>1, <3>2 DEF TypeOK, SlotOf, R
    <3>4. /\ drv' = drv /\ at' = at /\ high' = high /\ low' = low /\ asked' = asked
          /\ lowAsked' = lowAsked /\ torn' = (torn \/ at = "high")
      BY <2>1, Zenon DEF PWM_SET
    <3>5. torn' \in BOOLEAN /\ (~torn' => ~torn /\ at # "high")
      BY <3>4, <2>0, Zenon DEF TypeOK
    <3>6. TypeOK'
      BY <2>0, <3>3, <3>4, <3>5 DEF TypeOK
    <3>7. SteadyCycle' /\ CycleBound'
      BY <3>3, <3>4, <3>5, Zenon DEF WaveInv, SteadyCycle, CycleBound
    <3>8. HighShare'
      BY <3>3, <3>4, Zenon DEF WaveInv, HighShare
    <3>9. QED
      BY <3>2, <3>3, <3>4, <3>5, <3>6, <3>7, <3>8, Zenon DEF WaveInv
  <2>2. CASE HighHalf
    <3>1. /\ drv' = drv /\ slot' = slot /\ low' = low /\ torn' = FALSE /\ at' = "high"
          /\ lowAsked' = lowAsked /\ asked' = slot.duty_cycle /\ high' = SleepArg(HIGH_TIME)
      BY <2>2, Zenon DEF HighHalf
    <3>2. R' = R /\ HIGH_TIME' = HIGH_TIME /\ SleepArg(HIGH_TIME)' = SleepArg(HIGH_TIME)
      BY <3>1, Zenon DEF R, HIGH_TIME, SleepArg
    <3>3. high' \in 0 .. PERIOD \union {Forever} /\ high' \in Int
      <4>1. HIGH_TIME \in Int /\ Forever \in Int
        BY Times DEF Forever
      <4>2. QED
        BY <3>1, <4>1, Times, Zenon
    <3>4. TypeOK'
      <4>1. slot.duty_cycle \in Int
        BY <2>0 DEF TypeOK, SlotOf
      <4>2. QED
        BY <2>0, <3>1, <3>3, <4>1, Zenon DEF TypeOK
    <3>5. high' = Forever => drv' = "xeno" /\ asked' = 0
      <4>1. HIGH_TIME # Forever
        BY Times, <2>0 DEF Forever
      <4>2. QED
        BY <3>1, <4>1, Times, Zenon
    <3>6. HighShare'
      BY <3>1, <3>2, Times, Zenon DEF HighShare
    <3>7. SteadyCycle' /\ CycleBound'
      BY <3>1, <3>5, Zenon DEF SteadyCycle, CycleBound
    <3>8. QED
      BY <3>1, <3>2, <3>3, <3>4, <3>6, <3>7, Zenon DEF WaveInv
  <2>3. CASE LowHalf
    <3>1. /\ drv' = drv /\ slot' = slot /\ high' = high /\ asked' = asked /\ torn' = torn
          /\ at = "high" /\ high # Forever /\ at' = "low" /\ low' = SleepArg(LOW_TIME)
          /\ lowAsked' = slot.duty_cycle
      BY <2>3, Zenon DEF LowHalf
    <3>2. R' = R
      BY <3>1, Zenon DEF R
    <3>3. low' \in 0 .. PERIOD \union {Forever} /\ low' \in Int
      <4>1. LOW_TIME \in Int /\ Forever \in Int
        BY Times DEF Forever
      <4>2. QED
        BY <3>1, <4>1, Times, Zenon
    <3>4. TypeOK'
      <4>1. slot.duty_cycle \in Int
        BY <2>0 DEF TypeOK, SlotOf
      <4>2. QED
        BY <2>0, <3>1, <3>3, <4>1, Zenon DEF TypeOK
    <3>5. LOW_TIME # Forever
      BY Times, <2>0 DEF Forever
    <3>6. HighShare'
      BY <3>1, <3>2, Zenon DEF WaveInv, HighShare
    <3>7. SteadyCycle'
      <4> SUFFICES ASSUME ~torn, low' # Forever
                   PROVE  IF drv = "soft" THEN high + low' \in {PERIOD - 1, PERIOD}
                                          ELSE high + low' \in PERIOD - R + 1 .. PERIOD
        BY <3>1, <3>2, Zenon DEF SteadyCycle
      <4>1. low' = LOW_TIME
        BY <3>1, Times, Zenon
      <4>2. high = HIGH_TIME
        BY <3>1, Times, Zenon DEF WaveInv
      <4>3. QED
        BY <4>1, <4>2, Times, Zenon
    <3>8. CycleBound'
      <4>1. low' # Forever => high + low' \in 0 .. 2 * PERIOD
        <5>1. high \in 0 .. PERIOD
          BY <3>1, Zenon DEF WaveInv
        <5>2. low' # Forever => low' \in 0 .. PERIOD
          BY <3>3, Zenon
        <5>3. QED
          BY <2>0, <5>1, <5>2
      <4>2. low' = Forever => drv = "xeno" /\ lowAsked' = R
        BY <3>1, <3>5, Times, Zenon
      <4>3. QED
        BY <3>1, <3>2, <4>1, <4>2, Zenon DEF CycleBound
    <3>9. QED
      BY <3>1, <3>2, <3>3, <3>4, <3>6, <3>7, <3>8, Zenon DEF WaveInv
  <2>4. CASE UNCHANGED vars
    BY <2>4, Zenon DEF vars, WaveInv, TypeOK, SteadyCycle, CycleBound, HighShare, R, HIGH_TIME,
                       SleepArg
  <2>5. QED
    BY <2>1, <2>2, <2>3, <2>4, Zenon DEF Next
<1>3. QED
  BY <1>1, <1>2, PTL DEF Spec

(* A turn no PWM_SET tears lasts one period, if it ends, up to the         *)
(* rounding of the two time macros, in both drivers.                       *)
THEOREM CyclesAreSteady ==
  ASSUME Sound
  PROVE  Spec => []SteadyCycle
<1>1. WaveInv => SteadyCycle
  BY Zenon DEF WaveInv
<1>2. QED
  BY <1>1, WaveInvariant, PTL

(* A turn, torn or not, lasts at most two periods, or waits for good in a  *)
(* half of xenoPWM that was asked to have no width.                        *)
THEOREM CyclesAreBounded ==
  ASSUME Sound
  PROVE  Spec => []CycleBound
<1>1. WaveInv => CycleBound
  BY Zenon DEF WaveInv
<1>2. QED
  BY <1>1, WaveInvariant, PTL

(* A high half that ends is the requested share of the period, up to       *)
(* rounding.                                                               *)
THEOREM HighIsAsked ==
  ASSUME Sound
  PROVE  Spec => []HighShare
<1>1. WaveInv => HighShare
  BY Zenon DEF WaveInv
<1>2. QED
  BY <1>1, WaveInvariant, PTL

-----------------------------------------------------------------------------
(* Induction over the numbers, for a set instead of a predicate: the least *)
(* number outside T would be neither 0 nor a successor.                    *)
LEMMA Induction ==
  ASSUME NEW T \in SUBSET Nat, 0 \in T, \A k \in T : k + 1 \in T
  PROVE  \A k \in Nat : k \in T
<1>1. SUFFICES ASSUME Nat \ T # {} PROVE FALSE
  BY Zenon
<1>2. IsWellFoundedOn(OpToRel(<, Nat), Nat)
  BY NatLessThanWellFounded, Zenon
<1>3. PICK m \in Nat \ T : \A k \in Nat \ T : <<k, m>> \notin OpToRel(<, Nat)
  BY <1>1, <1>2, WFMin, Zenon
<1>4. \A k \in Nat \ T : ~(k < m)
  BY <1>3, Zenon DEF OpToRel
<1>5. m - 1 \in Nat \ T /\ m - 1 < m
  OBVIOUS
<1>6. QED
  BY <1>4, <1>5

(* Fits(s, k): s has at most k elements, numbered apart by some e.         *)
Fits(s, k) == \E e \in [s -> 1 .. k] : \A x, y \in s : e[x] = e[y] => x = y

(* A set of at most some number of elements.                               *)
Finite(S) == \E k \in Nat : Fits(S, k)

(* A part of a set that lacks an element x of it fits a number less: x     *)
(* hands its own number to the element that has the last one.              *)
LEMMA FitsLess ==
  ASSUME NEW k \in Nat, NEW s, Fits(s, k + 1), NEW r \in SUBSET s, r # s
  PROVE  Fits(r, k)
<1>1. PICK e \in [s -> 1 .. k + 1] : \A x, y \in s : e[x] = e[y] => x = y
  BY Zenon DEF Fits
<1>2. PICK x \in s : x \notin r
  BY Zenon
<1> DEFINE d == [y \in r |-> IF e[y] = k + 1 THEN e[x] ELSE e[y]]
<1>3. \A y \in r : y \in s /\ e[y] # e[x] /\ e[y] \in 1 .. k + 1 /\ e[x] \in 1 .. k + 1
  BY <1>1, <1>2, Zenon
<1>4. d \in [r -> 1 .. k]
  BY <1>3
<1>5. \A y, z \in r : d[y] = d[z] => y = z
  BY <1>1, <1>3
<1>6. QED
  BY <1>4, <1>5, Zenon DEF Fits

(* Only the empty set fits 0.                                              *)
LEMMA FitsNone == ASSUME NEW s PROVE Fits(s, 0) <=> s = {}
<1>1. [x \in {} |-> x] \in [{} -> 1 .. 0]
  BY Zenon
<1>2. ASSUME s # {} PROVE ~Fits(s, 0)
  BY <1>2 DEF Fits
<1>3. QED
  BY <1>1, <1>2, Zenon DEF Fits

(* A part of a set fits wherever the set does.                             *)
LEMMA FitsPart ==
  ASSUME NEW k \in Nat, NEW S, Fits(S, k), NEW s \in SUBSET S
  PROVE  Fits(s, k)
<1>1. PICK e \in [S -> 1 .. k] : \A x, y \in S : e[x] = e[y] => x = y
  BY Zenon DEF Fits
<1>2. [x \in s |-> e[x]] \in [s -> 1 .. k]
  BY <1>1
<1>3. \A x, y \in s : [z \in s |-> e[z]][x] = [z \in s |-> e[z]][y] => x = y
  BY <1>1, Zenon
<1>4. QED
  BY <1>2, <1>3, Zenon DEF Fits

(* Intervals are finite, and so are the parts of a finite set.             *)
LEMMA IntervalFinite == ASSUME NEW k \in Nat PROVE Finite(1 .. k) /\ Finite(0 .. k - 1)
<1> DEFINE e == [x \in 1 .. k |-> x]
           d == [x \in 0 .. k - 1 |-> x + 1]
<1>1. e \in [1 .. k -> 1 .. k] /\ d \in [0 .. k - 1 -> 1 .. k]
  OBVIOUS
<1>2. \A x, y \in 1 .. k : e[x] = e[y] => x = y
  BY Zenon
<1>3. \A x, y \in 0 .. k - 1 : d[x] = d[y] => x = y
  OBVIOUS
<1> HIDE DEF e, d
<1>4. Fits(1 .. k, k) /\ Fits(0 .. k - 1, k)
  BY <1>1, <1>2, <1>3, Zenon DEF Fits
<1>5. QED
  BY <1>4, Zenon DEF Finite

(* A part of a finite set is finite.                                       *)
LEMMA PartFinite == ASSUME NEW S, Finite(S), NEW s \in SUBSET S PROVE Finite(s)
BY FitsPart, Zenon DEF Finite

(* Induction over the subsets of a finite set.                             *)
LEMMA SetInduction ==
  ASSUME NEW S, Finite(S), NEW T,
         \A s \in SUBSET S : (\A r \in SUBSET s : r # s => r \in T) => s \in T
  PROVE  \A s \in SUBSET S : s \in T
<1> DEFINE U == {k \in Nat : \A s \in SUBSET S : Fits(s, k) => s \in T}
<1>1. 0 \in U
  BY FitsNone
<1>2. ASSUME NEW k \in U PROVE k + 1 \in U
  <2>1. ASSUME NEW s \in SUBSET S, Fits(s, k + 1) PROVE s \in T
    <3>1. \A r \in SUBSET s : r # s => r \in SUBSET S /\ Fits(r, k)
      BY <2>1, FitsLess, Zenon
    <3>2. QED
      BY <3>1, Zenon
  <2>2. QED
    BY <2>1
<1>3. \A k \in Nat : k \in U
  BY <1>1, <1>2, Induction, Zenon
<1>4. PICK k \in Nat : Fits(S, k)
  BY Zenon DEF Finite
<1>5. QED
  BY <1>3, <1>4, FitsPart, Zenon

-----------------------------------------------------------------------------
(* The recursion behind SumFunctionOnSet(f, S): g is a table of the sums   *)
(* over the subsets of S.                                                  *)
One(s) == CHOOSE x \in s : TRUE

(* The sum over s: the value at its chosen element, and the sum that g     *)
(* has for the rest.                                                       *)
SumAt(f, g, s) == IF s = {} THEN 0 ELSE f[One(s)] + g[s \ {One(s)}]

(* The equation that defines the table.                                    *)
IsSums(f, S, g) == g = [s \in SUBSET S |-> SumAt(f, g, s)]

(* The table the library chooses.                                          *)
Sums(f, S) == CHOOSE g : IsSums(f, S, g)

(* What is summed are numbers.                                             *)
IntOn(f, S) == \A x \in S : f[x] \in Int

(* The library's sum is that table's entry for the whole set.              *)
LEMMA SumIsTable ==
  ASSUME NEW f, NEW S
  PROVE  SumFunctionOnSet(f, S) = Sums(f, S)[S]
BY DEF SumFunctionOnSet, FoldFunctionOnSet, MapThenFoldSet, IsSums, SumAt, Sums, One

(* The chosen element is one of the set.                                   *)
LEMMA OneIn == ASSUME NEW s, s # {} PROVE One(s) \in s
BY DEF One

(* g is right for the subsets of at most k elements.                       *)
SumsUpto(f, S, k, g) ==
  /\ g = [s \in SUBSET S |-> g[s]]
  /\ \A s \in SUBSET S : Fits(s, k) => g[s] = SumAt(f, g, s)

(* There is such a table: it is built for one number of elements after     *)
(* another.                                                                *)
LEMMA SumsExist ==
  ASSUME NEW S, Finite(S), NEW f
  PROVE  IsSums(f, S, Sums(f, S))
<1> DEFINE T == {k \in Nat : \E g : SumsUpto(f, S, k, g)}
<1>1. 0 \in T
  <2> DEFINE z == [s \in SUBSET S |-> 0]
  <2>1. SumsUpto(f, S, 0, z)
    BY FitsNone, Zenon DEF SumsUpto, SumAt
  <2>2. QED
    BY <2>1, Zenon
<1>2. ASSUME NEW k \in T PROVE k + 1 \in T
  <2>1. PICK g : SumsUpto(f, S, k, g)
    OBVIOUS
  <2> DEFINE h == [s \in SUBSET S |-> SumAt(f, g, s)]
  <2>2. ASSUME NEW s \in SUBSET S, Fits(s, k + 1), s # {}
        PROVE  h[s] = SumAt(f, h, s)
    <3>1. s \ {One(s)} \in SUBSET S /\ Fits(s \ {One(s)}, k)
      BY <2>2, OneIn, FitsLess, Zenon
    <3>2. g[s \ {One(s)}] = SumAt(f, g, s \ {One(s)})
      BY <2>1, <3>1, Zenon DEF SumsUpto
    <3>3. QED
      BY <2>2, <3>1, <3>2, Zenon DEF SumAt
  <2>3. \A s \in SUBSET S : s = {} => h[s] = SumAt(f, h, s)
    BY Zenon DEF SumAt
  <2>4. SumsUpto(f, S, k + 1, h)
    BY <2>2, <2>3, Zenon DEF SumsUpto
  <2>5. QED
    BY <2>4
<1>3. PICK k \in Nat : Fits(S, k)
  BY Zenon DEF Finite
<1>4. k \in T
  BY <1>1, <1>2, Induction, Zenon
<1>5. PICK g : SumsUpto(f, S, k, g)
  BY <1>4, Zenon
<1>6. \A s \in SUBSET S : Fits(s, k)
  BY <1>3, FitsPart, Zenon
<1>7. \A s \in SUBSET S : g[s] = SumAt(f, g, s)
  BY <1>5, <1>6, Zenon DEF SumsUpto
<1>8. g = [s \in SUBSET S |-> SumAt(f, g, s)]
  BY <1>5, <1>7, Zenon DEF SumsUpto
<1>9. QED
  BY <1>8, Zenon DEF IsSums, Sums

(* Any element may be taken out first.                                     *)
Splits(f, g, s) == g[s] \in Int /\ \A x \in s : g[s] = f[x] + g[s \ {x}]

(* The order of two summands does not matter.                              *)
LEMMA Swap == \A i, j, k \in Int : i + j \in Int /\ i + (j + k) = j + (i + k)
OBVIOUS

(* Over a finite set of numbers, whichever element is taken out first,     *)
(* the sum is the same.                                                    *)
LEMMA SumsStep ==
  ASSUME NEW S, Finite(S), NEW f, IntOn(f, S)
  PROVE  \A s \in SUBSET S :
           /\ Splits(f, Sums(f, S), s)
           /\ s = {} => Sums(f, S)[s] = 0
<1> DEFINE g == Sums(f, S)
           T == {s \in SUBSET S : Splits(f, g, s)}
<1>1. g = [s \in SUBSET S |-> SumAt(f, g, s)]
  BY SumsExist, Zenon DEF IsSums
<1> HIDE DEF g
<1>2. \A s \in SUBSET S : g[s] = SumAt(f, g, s)
  BY <1>1
<1>3. \A s \in SUBSET S : s = {} => g[s] = 0
  BY <1>2, Zenon DEF SumAt
<1>4. ASSUME NEW s \in SUBSET S, \A r \in SUBSET s : r # s => r \in T, s # {}
      PROVE  Splits(f, g, s)
  <2> DEFINE c == One(s)
  <2>1. c \in s /\ c \in S /\ g[s] = f[c] + g[s \ {c}]
    BY <1>2, <1>4, OneIn, Zenon DEF SumAt
  <2> HIDE DEF c
  <2>2. \A x \in s : Splits(f, g, s \ {x}) /\ f[x] \in Int
    BY <1>4, Zenon DEF IntOn
  <2>3. ASSUME NEW x \in s, x # c PROVE g[s] = f[x] + g[s \ {x}]
    <3>1. /\ x \in s \ {c} /\ c \in s \ {x}
          /\ (s \ {c}) \ {x} \in SUBSET s /\ (s \ {c}) \ {x} # s
      BY <2>1, <2>3, Zenon
    <3>2. (s \ {x}) \ {c} = (s \ {c}) \ {x}
      BY Zenon
    <3>3. Splits(f, g, s \ {c}) /\ Splits(f, g, s \ {x}) /\ Splits(f, g, (s \ {c}) \ {x})
      BY <1>4, <2>1, <2>2, <3>1, Zenon
    <3>4. /\ g[s \ {c}] = f[x] + g[(s \ {c}) \ {x}]
          /\ g[s \ {x}] = f[c] + g[(s \ {c}) \ {x}]
          /\ g[(s \ {c}) \ {x}] \in Int
      BY <3>1, <3>2, <3>3, Zenon DEF Splits
    <3>5. f[c] \in Int /\ f[x] \in Int
      BY <2>1, <2>2, Zenon
    <3>6. QED
      BY <2>1, <3>4, <3>5
  <2>4. g[s] \in Int
    <3>1. g[s \ {c}] \in Int /\ f[c] \in Int
      BY <2>1, <2>2, Zenon DEF Splits
    <3>2. QED
      BY <2>1, <3>1
  <2>5. QED
    BY <2>1, <2>3, <2>4, Zenon DEF Splits
<1>5. {} \in T
  <2>1. {} \in SUBSET S /\ g[{}] = 0
    BY <1>3, Zenon
  <2>2. 0 \in Int
    OBVIOUS
  <2>3. QED
    BY <2>1, <2>2, Zenon DEF Splits
<1>6. \A s \in SUBSET S : (\A r \in SUBSET s : r # s => r \in T) => s \in T
  BY <1>4, <1>5, Zenon
<1> HIDE DEF T
<1>7. \A s \in SUBSET S : s \in T
  BY <1>6, SetInduction, Zenon
<1>8. QED
  BY <1>3, <1>7, Zenon DEF g, T

(* The sum depends on the values of f on S alone.                          *)
LEMMA SameSums ==
  ASSUME NEW S, Finite(S), NEW f, IntOn(f, S),
         NEW Q \in SUBSET S, NEW h, \A x \in Q : h[x] = f[x]
  PROVE  Sums(h, Q)[Q] = Sums(f, S)[Q]
<1> DEFINE T == {s \in SUBSET Q : Sums(h, Q)[s] = Sums(f, S)[s]}
<1>1. Finite(Q) /\ IntOn(h, Q) /\ \A s \in SUBSET Q : s \in SUBSET S
  BY PartFinite, Zenon DEF IntOn
<1>2. \A s \in SUBSET Q : /\ Splits(h, Sums(h, Q), s) /\ (s = {} => Sums(h, Q)[s] = 0)
                          /\ Splits(f, Sums(f, S), s) /\ (s = {} => Sums(f, S)[s] = 0)
  BY <1>1, SumsStep, Zenon
<1>3. ASSUME NEW s \in SUBSET Q, \A r \in SUBSET s : r # s => r \in T PROVE s \in T
  <2>1. CASE s = {}
    BY <1>2, <2>1, Zenon
  <2>2. ASSUME NEW x \in s PROVE s \in T
    <3>1. s \ {x} \in T /\ h[x] = f[x]
      BY <1>3, Zenon
    <3>2. /\ Sums(h, Q)[s] = h[x] + Sums(h, Q)[s \ {x}]
          /\ Sums(f, S)[s] = f[x] + Sums(f, S)[s \ {x}]
      BY <1>2, Zenon DEF Splits
    <3>3. QED
      BY <3>1, <3>2, Zenon
  <2>3. QED
    BY <2>1, <2>2, Zenon
<1> HIDE DEF T
<1>4. Q \in T
  BY <1>1, <1>3, SetInduction, Zenon
<1>5. QED
  BY <1>4, Zenon DEF T

-----------------------------------------------------------------------------
(* What the sums of the code need: an element apart, equal values, zeros.  *)
LEMMA SumSplit ==
  ASSUME NEW S, Finite(S), NEW f, IntOn(f, S)
  PROVE  /\ SumFunctionOnSet(f, S) \in Int
         /\ S = {} => SumFunctionOnSet(f, S) = 0
         /\ \A x \in S : SumFunctionOnSet(f, S) = f[x] + SumFunctionOnSet(f, S \ {x})
<1>1. Splits(f, Sums(f, S), S) /\ (S = {} => Sums(f, S)[S] = 0)
  BY SumsStep, Zenon
<1>2. \A x \in S : Sums(f, S \ {x})[S \ {x}] = Sums(f, S)[S \ {x}]
  BY SameSums
<1>3. QED
  BY <1>1, <1>2, SumIsTable, Zenon DEF Splits

(* Equal entries, equal sums.                                              *)
LEMMA SumSame ==
  ASSUME NEW S, Finite(S), NEW f, IntOn(f, S), NEW h, \A x \in S : h[x] = f[x]
  PROVE  SumFunctionOnSet(h, S) = SumFunctionOnSet(f, S)
BY SameSums, SumIsTable

(* Entries that are 0 add nothing.                                         *)
LEMMA SumZero ==
  ASSUME NEW S, Finite(S), NEW f, IntOn(f, S),
         NEW Q \in SUBSET S, \A x \in S \ Q : f[x] = 0
  PROVE  SumFunctionOnSet(f, Q) = SumFunctionOnSet(f, S)
<1> DEFINE g == Sums(f, S)
           T == {s \in SUBSET S : Q \subseteq s => g[s] = g[Q]}
<1> HIDE DEF g
<1>1. ASSUME NEW s \in SUBSET S, \A r \in SUBSET s : r # s => r \in T, Q \subseteq s, s # Q
      PROVE  g[s] = g[Q]
  <2>1. PICK x \in s : x \notin Q
    BY <1>1, Zenon
  <2>2. g[s \ {x}] = g[Q] /\ f[x] = 0
    BY <1>1, <2>1, Zenon
  <2>3. Splits(f, g, s) /\ Splits(f, g, Q)
    BY SumsStep, Zenon DEF g
  <2>4. QED
    BY <2>2, <2>3 DEF Splits
<1>2. \A s \in SUBSET S : (\A r \in SUBSET s : r # s => r \in T) => s \in T
  BY <1>1, Zenon
<1> HIDE DEF T
<1>3. \A s \in SUBSET S : s \in T
  BY <1>2, SetInduction, Zenon
<1>4. g[S] = g[Q]
  BY <1>3, Zenon DEF T
<1>5. Sums(f, Q)[Q] = g[Q]
  BY SameSums DEF g
<1>6. QED
  BY <1>4, <1>5, SumIsTable, Zenon DEF g

(* A sum over a whole function is one over its domain.                     *)
LEMMA SumWhole ==
  ASSUME NEW f
  PROVE  SumFunction(f) = SumFunctionOnSet(f, DOMAIN f)
BY Zenon DEF SumFunction, FoldFunction, SumFunctionOnSet

(* The sum over nothing is 0.                                              *)
LEMMA SumEmpty == \A f : SumFunctionOnSet(f, {}) = 0
<1>1. Finite({})
  BY FitsNone, Zenon DEF Finite
<1>2. QED
  BY <1>1, SumSplit, Zenon DEF IntOn

(* One entry that grows by 1 makes the sum grow by 1.                      *)
LEMMA SumBump ==
  ASSUME NEW S, Finite(S), NEW f \in [S -> Nat], NEW u \in S
  PROVE  SumFunctionOnSet([f EXCEPT ![u] = @ + 1], S) = SumFunctionOnSet(f, S) + 1
<1> DEFINE h == [f EXCEPT ![u] = @ + 1]
<1>1. IntOn(f, S) /\ IntOn(h, S) /\ IntOn(f, S \ {u}) /\ Finite(S \ {u})
  BY PartFinite DEF IntOn
<1>2. \A x \in S \ {u} : h[x] = f[x]
  OBVIOUS
<1>3. h[u] = f[u] + 1 /\ f[u] \in Int
  OBVIOUS
<1> HIDE DEF h
<1>4. SumFunctionOnSet(h, S \ {u}) = SumFunctionOnSet(f, S \ {u})
  BY <1>1, <1>2, SumSame, Zenon
<1>5. SumFunctionOnSet(h, S) = h[u] + SumFunctionOnSet(h, S \ {u})
  BY <1>1, SumSplit, Zenon
<1>6. SumFunctionOnSet(f, S) = f[u] + SumFunctionOnSet(f, S \ {u})
  BY <1>1, SumSplit, ZenonT(30)
<1>7. SumFunctionOnSet(f, S \ {u}) \in Int
  BY <1>1, SumSplit, Zenon
<1>8. QED
  BY <1>3, <1>4, <1>5, <1>6, <1>7 DEF h

(* What a table of naturals is to the sums.                                *)
LEMMA NatTable ==
  ASSUME NEW S, NEW f \in [S -> Nat]
  PROVE  DOMAIN f = S /\ IntOn(f, S)
BY DEF IntOn

(* What Append does.                                                       *)
LEMMA SeqFacts ==
  ASSUME NEW s \in Seq(Nat), NEW x \in Nat
  PROVE  /\ Len(s) \in Nat /\ DOMAIN s = 1 .. Len(s) /\ \A k \in 1 .. Len(s) : s[k] \in Nat
         /\ Append(s, x) \in Seq(Nat) /\ Len(Append(s, x)) = Len(s) + 1
         /\ \A k \in 1 .. Len(s) : Append(s, x)[k] = s[k]
         /\ Append(s, x)[Len(s) + 1] = x
OBVIOUS

(* An interval without its last number.                                    *)
LEMMA LastOut ==
  \A m \in Nat : /\ (1 .. m + 1) \ {m + 1} = 1 .. m /\ m + 1 \in 1 .. m + 1
                 /\ (0 .. m) \ {m} = 0 .. m - 1 /\ m \in 0 .. m
OBVIOUS

(* A sequence of the first values of f, and one more.                      *)
LEMMA SumAppend ==
  ASSUME NEW N \in Nat, NEW f \in [0 .. N - 1 -> Nat], NEW s \in Seq(Nat), Len(s) \in 0 .. N - 1,
         SumFunction(s) = SumFunctionOnSet(f, 0 .. Len(s) - 1)
  PROVE  LET r == Append(s, f[Len(s)]) IN
         SumFunction(r) = SumFunctionOnSet(f, 0 .. Len(r) - 1)
<1> DEFINE m == Len(s)
           r == Append(s, f[m])
<1>1. m \in Nat /\ f[m] \in Nat /\ m \in 0 .. N - 1
  OBVIOUS
<1> HIDE DEF m
<1>2. /\ DOMAIN s = 1 .. m /\ \A k \in 1 .. m : s[k] \in Nat /\ r[k] = s[k]
      /\ r \in Seq(Nat) /\ Len(r) = m + 1 /\ r[m + 1] = f[m]
  BY <1>1, SeqFacts DEF m
<1> HIDE DEF r
<1>3. DOMAIN r = 1 .. m + 1 /\ \A k \in 1 .. m + 1 : r[k] \in Nat
  BY <1>2, SeqFacts, Zenon
<1>4. \A k \in 0 .. m : f[k] \in Nat
  BY <1>1
<1>5. IntOn(s, 1 .. m) /\ IntOn(r, 1 .. m + 1) /\ IntOn(f, 0 .. m)
  <2>1. Nat \subseteq Int
    OBVIOUS
  <2>2. QED
    BY <1>2, <1>3, <1>4, <2>1, Zenon DEF IntOn
<1>6. Finite(1 .. m) /\ Finite(1 .. m + 1) /\ Finite(0 .. m)
  <2>1. m + 1 \in Nat /\ (m + 1) - 1 = m
    BY <1>1
  <2>2. Finite(1 .. m + 1) /\ Finite(0 .. (m + 1) - 1)
    BY <2>1, IntervalFinite, Zenon
  <2>3. QED
    BY <1>1, <2>1, <2>2, IntervalFinite, Zenon
<1>7. /\ (1 .. m + 1) \ {m + 1} = 1 .. m /\ m + 1 \in 1 .. m + 1
      /\ (0 .. m) \ {m} = 0 .. m - 1 /\ m \in 0 .. m
      /\ 0 .. Len(r) - 1 = 0 .. m
  <2>1. Len(r) - 1 = m
    BY <1>1, <1>2
  <2>2. QED
    BY <1>1, <2>1, LastOut, Zenon
<1>8. SumFunctionOnSet(r, 1 .. m + 1) = r[m + 1] + SumFunctionOnSet(r, (1 .. m + 1) \ {m + 1})
  BY <1>5, <1>6, <1>7, SumSplit, Zenon
<1>9. SumFunctionOnSet(f, 0 .. m) = f[m] + SumFunctionOnSet(f, (0 .. m) \ {m})
  BY <1>5, <1>6, <1>7, SumSplit, Zenon
<1>10. SumFunctionOnSet(r, 1 .. m) = SumFunctionOnSet(s, 1 .. m)
  BY <1>2, <1>5, <1>6, SumSame, Zenon
<1>11. SumFunctionOnSet(s, 1 .. m) = SumFunctionOnSet(f, 0 .. m - 1)
  BY <1>2, SumWhole, Zenon DEF m
<1>12. SumFunctionOnSet(r, 1 .. m + 1) = SumFunctionOnSet(f, 0 .. m)
  BY <1>2, <1>7, <1>8, <1>9, <1>10, <1>11, Zenon
<1>13. SumFunction(r) = SumFunctionOnSet(f, 0 .. Len(r) - 1)
  <2>1. SumFunction(r) = SumFunctionOnSet(r, 1 .. m + 1)
    BY <1>3, SumWhole, Zenon
  <2>2. QED
    BY <1>7, <1>12, <2>1, Zenon
<1>14. QED
  BY <1>13, Zenon DEF r, m

-----------------------------------------------------------------------------
(* A latency in microseconds is a number.                                  *)
LEMMA MicroType ==
  ASSUME NEW x \in Sample
  PROVE  Micro(x) \in Int
<1>1. x \in Int /\ US \in Nat /\ US > 0
  BY LatencyAssumption DEF LatencyAssumption
<1>2. QED
  BY <1>1 DEF Micro

(* latency_test starts in the inductive invariant.                         *)
LEMMA LatencyStarts ==
  ASSUME LatencyInit
  PROVE  LatencyInv
<1> USE DEF LatencyInit
<1>1. LatencyTypeOK
  BY LatencyAssumption DEF LatencyTypeOK, LatencyAssumption
<1>2. SumFunction(latency) = 0
  <2>1. Finite(Index) /\ DOMAIN latency = Index /\ IntOn(latency, Index)
    BY IntervalFinite, LatencyAssumption DEF Index, LatencyAssumption, IntOn
  <2>2. \A x \in Index \ {} : latency[x] = 0
    BY Zenon
  <2>3. SumFunctionOnSet(latency, {}) = SumFunctionOnSet(latency, Index)
    BY <2>1, <2>2, SumZero, Zenon
  <2>4. SumFunctionOnSet(latency, {}) = 0
    BY SumEmpty, Zenon
  <2>5. QED
    BY <2>1, <2>3, <2>4, SumWhole, Zenon
<1>3. EverySleepCounted
  BY <1>2 DEF EverySleepCounted, Lost
<1>4. ExtremesInv
  <2>1. Excess = 0
    BY Zenon DEF Excess
  <2>2. QED
    BY <2>1, LatencyAssumption DEF ExtremesInv, LatencyAssumption
<1>5. HistogramInv /\ ReportFitsUnlessOverrun
  BY LatencyAssumption DEF HistogramInv, ReportFitsUnlessOverrun, LatencyAssumption
<1>6. ReportInv
  <2>1. report = << >> /\ Len(report) = 0 /\ DOMAIN report = {} /\ 0 .. Len(report) - 1 = {}
    OBVIOUS
  <2>2. SumFunction(report) = 0 /\ SumFunctionOnSet(latency, {}) = 0
    BY <2>1, SumEmpty, SumWhole
  <2>3. times >= 0 => n <= times
    BY LatencyAssumption DEF LatencyAssumption
  <2>4. QED
    BY <2>1, <2>2, <2>3, LatencyAssumption DEF ReportInv, LatencyAssumption
<1>7. QED
  BY <1>1, <1>3, <1>4, <1>5, <1>6, Zenon DEF LatencyInv

(* The histogram is a finite table of numbers, so its sum behaves.         *)
LEMMA IndexFinite ==
  ASSUME LatencyTypeOK
  PROVE  /\ Finite(Index) /\ IntOn(latency, Index)
         /\ DOMAIN latency = Index
         /\ array_size \in Nat
         /\ SumFunction(latency) = SumFunctionOnSet(latency, Index)
         /\ SumFunctionOnSet(latency, Index) \in Int
<1>1. array_size \in Nat
  BY LatencyAssumption, Zenon DEF LatencyAssumption
<1>2. Finite(Index)
  BY <1>1, IntervalFinite, Zenon DEF Index
<1>3. IntOn(latency, Index) /\ DOMAIN latency = Index
  BY DEF LatencyTypeOK, IntOn
<1>4. QED
  BY <1>1, <1>2, <1>3, SumWhole, SumSplit, Zenon

(* What one latency adds to the counts beside the histogram.               *)
LEMMA CountsBeside ==
  ASSUME LatencyTypeOK, NEW u \in Int, Count(u), UNCHANGED behind
  PROVE  /\ negative_num' \in Nat /\ overrun_num' \in Nat /\ stray' \in Nat
         /\ Lost \in Nat /\ Lost' \in Nat
         /\ negative_num' + overrun_num' + Lost'
              = negative_num + overrun_num + Lost + IF u \in Index THEN 0 ELSE 1
<1>0. negative_num \in Nat /\ overrun_num \in Nat /\ stray \in Nat /\ array_size \in Nat
  BY IndexFinite, Zenon DEF LatencyTypeOK
<1>1. /\ negative_num' = IF u < 0 THEN negative_num + 1 ELSE negative_num
      /\ overrun_num' = IF u > array_size \/ (u = array_size /\ behind = "overrun_num")
                        THEN overrun_num + 1 ELSE overrun_num
      /\ stray' = IF u = array_size THEN stray + 1 ELSE stray
  BY Zenon DEF Count, Hits
<1>2. u \in Index <=> 0 <= u /\ u < array_size
  BY <1>0 DEF Index
<1>3. CASE behind = "overrun_num"
  <2>1. Lost = 0 /\ Lost' = 0
    BY <1>3, Zenon DEF Lost
  <2>2. QED
    BY <1>0, <1>1, <1>2, <1>3, <2>1
<1>4. CASE behind # "overrun_num"
  <2>1. Lost = stray /\ Lost' = stray'
    BY <1>4, Zenon DEF Lost
  <2>2. QED
    BY <1>0, <1>1, <1>2, <1>4, <2>1
<1>5. QED
  BY <1>3, <1>4, Zenon

(* What one latency does to the histogram.                                 *)
LEMMA CountsInside ==
  ASSUME LatencyTypeOK, NEW u \in Int, Count(u)
  PROVE  /\ latency' \in [Index -> Nat]
         /\ SumFunction(latency) \in Int
         /\ SumFunction(latency') = SumFunction(latency) + IF u \in Index THEN 1 ELSE 0
         /\ \A k \in Index : k # u => latency'[k] = latency[k]
<1>0. latency \in [Index -> Nat] /\ SumFunction(latency) \in Int
  BY IndexFinite, Zenon DEF LatencyTypeOK
<1>1. CASE u \in Index
  <2>1. latency' = [latency EXCEPT ![u] = @ + 1]
    BY <1>1, Zenon DEF Count
  <2>2. latency' \in [Index -> Nat] /\ \A k \in Index : k # u => latency'[k] = latency[k]
    BY <1>0, <1>1, <2>1
  <2>3. SumFunctionOnSet(latency', Index) = SumFunctionOnSet(latency, Index) + 1
    BY <1>0, <1>1, <2>1, IndexFinite, SumBump, Zenon
  <2>4. SumFunction(latency') = SumFunctionOnSet(latency', Index)
    BY <2>2, NatTable, SumWhole, Zenon
  <2>5. QED
    BY <1>0, <1>1, <2>2, <2>3, <2>4, IndexFinite, Zenon
<1>2. CASE u \notin Index
  <2>1. latency' = latency
    BY <1>2, Zenon DEF Count
  <2>2. SumFunction(latency) + 0 = SumFunction(latency)
    BY <1>0
  <2>3. QED
    BY <1>0, <1>2, <2>1, <2>2, Zenon
<1>3. QED
  BY <1>1, <1>2, Zenon

(* What one latency does to the extremes: the largest sample may be new,   *)
(* and the distance of max_latency from it grows only with a stray write   *)
(* that hits max_latency.                                                  *)
LEMMA TracksMax ==
  ASSUME LatencyTypeOK, ExtremesInv, NEW u \in Int, Count(u), Track(u), UNCHANGED behind
  PROVE  /\ max_latency' \in Nat /\ max_latency' >= max_latency /\ max_latency' >= u
         /\ max_latency' > max_latency => max_latency' = u \/ u = array_size
         /\ \E m \in seen \union {u, 0} : /\ \A v \in seen \union {u, 0} : v <= m
                                          /\ max_latency' - m \in 0 .. Excess'
<1>0. max_latency \in Nat /\ stray \in Nat /\ seen \subseteq Int /\ array_size \in Nat
  BY IndexFinite, Zenon DEF LatencyTypeOK
<1>1. stray' = IF u = array_size THEN stray + 1 ELSE stray
  BY Zenon DEF Count
<1> DEFINE hit == IF u = array_size /\ behind = "max_latency" THEN 1 ELSE 0
<1>2. hit \in 0 .. 1 /\ (hit = 1 => u = array_size) /\ Excess \in Nat /\ Excess' = Excess + hit
  BY <1>0, <1>1 DEF Excess
<1>3. max_latency' = IF u > max_latency + hit THEN u ELSE max_latency + hit
  BY <1>0 DEF Track, max_before, Hits
<1> HIDE DEF hit
<1>4. PICK m \in seen \union {0} : /\ \A v \in seen \union {0} : v <= m
                                  /\ max_latency - m \in 0 .. Excess
  BY Zenon DEF ExtremesInv
<1>5. m \in Int /\ m <= max_latency /\ max_latency - m <= Excess
  BY <1>0, <1>2, <1>4
<1>6. /\ max_latency' \in Nat /\ max_latency' >= max_latency /\ max_latency' >= u
      /\ max_latency' > max_latency => max_latency' = u \/ u = array_size
  BY <1>0, <1>2, <1>3
<1>7. \E w \in seen \union {u, 0} : /\ \A v \in seen \union {u, 0} : v <= w
                                   /\ max_latency' - w \in 0 .. Excess'
  <2>1. CASE u > m
    <3>1. \A v \in seen \union {u, 0} : v <= u
      BY <1>0, <1>4, <1>5, <2>1
    <3>2. max_latency' - u \in 0 .. Excess'
      BY <1>0, <1>2, <1>3, <1>5, <2>1
    <3>3. QED
      BY <3>1, <3>2, Zenon
  <2>2. CASE ~(u > m)
    <3>1. \A v \in seen \union {u, 0} : v <= m
      BY <1>0, <1>4, <1>5, <2>2
    <3>2. max_latency' - m \in 0 .. Excess'
      BY <1>0, <1>2, <1>3, <1>5, <2>2
    <3>3. QED
      BY <1>4, <3>1, <3>2, Zenon
  <2>3. QED
    BY <2>1, <2>2, Zenon
<1>8. QED
  BY <1>6, <1>7, Zenon

(* A sleep that is counted.                                                *)
LEMMA LatencyCount ==
  ASSUME LatencyInv, stage = "loop", n < times,
         NEW u \in Int, Count(u), Track(u),
         n' = n + 1, seen' = seen \union {u},
         UNCHANGED <<times, output, behind, stage, line, report, fault>>
  PROVE  LatencyInv'
<1>i. /\ LatencyTypeOK /\ EverySleepCounted /\ ExtremesInv /\ HistogramInv
      /\ ReportInv /\ ReportFitsUnlessOverrun
  BY Zenon DEF LatencyInv
<1>0. /\ times \in Int /\ n \in Nat /\ negative_num \in Nat /\ overrun_num \in Nat
      /\ latency \in [Index -> Nat] /\ min_latency \in Int /\ max_latency \in Nat
      /\ array_size \in Nat /\ seen \subseteq Int /\ UNCHANGED behind
  BY <1>i, IndexFinite, Zenon DEF LatencyTypeOK
<1>b. /\ negative_num' \in Nat /\ overrun_num' \in Nat /\ stray' \in Nat
      /\ Lost \in Nat /\ Lost' \in Nat
      /\ negative_num' + overrun_num' + Lost'
           = negative_num + overrun_num + Lost + IF u \in Index THEN 0 ELSE 1
  BY <1>i, <1>0, CountsBeside, Zenon
<1>c. /\ latency' \in [Index -> Nat]
      /\ SumFunction(latency) \in Int
      /\ SumFunction(latency') = SumFunction(latency) + IF u \in Index THEN 1 ELSE 0
      /\ \A k \in Index : k # u => latency'[k] = latency[k]
  BY <1>i, CountsInside, Zenon
<1>t. /\ max_latency' \in Nat /\ max_latency' >= max_latency /\ max_latency' >= u
      /\ max_latency' > max_latency => max_latency' = u \/ u = array_size
      /\ \E m \in seen \union {u, 0} : /\ \A v \in seen \union {u, 0} : v <= m
                                       /\ max_latency' - m \in 0 .. Excess'
  BY <1>i, <1>0, TracksMax, Zenon
<1>1. LatencyTypeOK'
  <2>1. min_latency' \in Int /\ n' \in Nat
    BY <1>0 DEF Track
  <2>2. seen' \subseteq Int
    BY <1>0, Zenon
  <2>3. QED
    BY <1>i, <1>b, <1>c, <1>t, <2>1, <2>2, Zenon DEF LatencyTypeOK, Index
<1>2. EverySleepCounted'
  <2>1. n = negative_num + overrun_num + Lost + SumFunction(latency)
    BY <1>i, Zenon DEF EverySleepCounted
  <2>2. n' = negative_num' + overrun_num' + Lost' + SumFunction(latency')
    <3> DEFINE x  == negative_num + overrun_num + Lost
               x1 == negative_num' + overrun_num' + Lost'
               s  == SumFunction(latency)
               s1 == SumFunction(latency')
    <3>1. x \in Int /\ x1 \in Int /\ s \in Int
      BY <1>0, <1>b, <1>c
    <3>2. /\ u \in Index    => x1 = x + 0 /\ s1 = s + 1
          /\ u \notin Index => x1 = x + 1 /\ s1 = s + 0
      BY <1>b, <1>c, Zenon
    <3>3. n = x + s
      BY <2>1, Zenon
    <3> HIDE DEF x, x1, s, s1
    <3>4. n + 1 = x1 + s1
      BY ONLY <3>1, <3>2, <3>3
    <3>5. QED
      BY <3>4, Zenon DEF x1, s1
  <2>3. QED
    BY <2>2, Zenon DEF EverySleepCounted
<1>3. ExtremesInv'
  <2>1. LONG_MAX \in Int
    BY LatencyAssumption DEF LatencyAssumption
  <2>2. seen' \union {0} = seen \union {u, 0}
    BY Zenon
  <2>3. /\ min_latency' \in seen' \union {LONG_MAX}
        /\ min_latency' <= LONG_MAX /\ \A v \in seen' : min_latency' <= v
    BY <1>i, <1>0, <2>1 DEF ExtremesInv, Track
  <2>4. QED
    BY <1>t, <2>2, <2>3, Zenon DEF ExtremesInv
<1>4. HistogramInv'
  <2>2. ASSUME NEW k \in Index, k > max_latency' PROVE latency'[k] = 0
    <3>1. k \in Int /\ k # u /\ k > max_latency
      BY <1>0, <1>t, <2>2 DEF Index
    <3>2. QED
      BY <1>i, <1>c, <3>1, Zenon DEF HistogramInv
  <2>3. ASSUME max_latency' >= array_size PROVE \E v \in seen' : v >= array_size
    <3>1. u >= array_size \/ max_latency >= array_size
      BY <1>0, <1>t, <2>3
    <3>2. QED
      BY <1>i, <3>1, Zenon DEF HistogramInv
  <2>4. QED
    BY <2>2, <2>3, Zenon DEF HistogramInv, Index
<1>5. ReportInv'
  <2>1. line' = 0 /\ report' = << >>
    <3>1. report \in Seq(Nat) /\ line = 0 /\ Len(report) = 0
      BY <1>i, <1>0 DEF ReportInv, LatencyTypeOK
    <3>2. report = << >>
      BY <3>1
    <3>3. QED
      BY <3>1, <3>2, Zenon
  <2>2. SumFunction(report') = 0 /\ SumFunctionOnSet(latency', 0 .. Len(report') - 1) = 0
    <3>1. DOMAIN report' = {} /\ 0 .. Len(report') - 1 = {}
      BY <2>1
    <3>2. QED
      BY <3>1, SumEmpty, SumWhole, Zenon
  <2>3. (times >= 0 => n' <= times) /\ Len(report') = 0 /\ 0 <= array_size
    BY <1>0, <2>1
  <2>4. QED
    BY <2>1, <2>2, <2>3, Zenon DEF ReportInv
<1>6. ReportFitsUnlessOverrun'
  BY <1>i, Zenon DEF ReportFitsUnlessOverrun
<1>7. QED
  BY <1>1, <1>2, <1>3, <1>4, <1>5, <1>6, Zenon DEF LatencyInv

(* The loop that writes the report.                                        *)
LEMMA LatencyReport ==
  ASSUME LatencyInv, report_line, fault = "none"
  PROVE  LatencyInv'
<1>i. /\ LatencyTypeOK /\ EverySleepCounted /\ ExtremesInv /\ HistogramInv
      /\ ReportInv /\ ReportFitsUnlessOverrun
  BY Zenon DEF LatencyInv
<1>0. /\ UNCHANGED <<times, output, behind, n, latency, negative_num, overrun_num>>
      /\ UNCHANGED <<min_latency, max_latency, seen, stray>>
      /\ stage = "report" /\ max_latency \in Nat /\ array_size \in Nat
      /\ line \in Nat /\ report \in Seq(Nat)
  BY <1>i, IndexFinite, Zenon DEF report_line, optVars, histVars, LatencyTypeOK
<1>1. EverySleepCounted' /\ ExtremesInv' /\ HistogramInv'
  BY <1>i, <1>0, Zenon DEF EverySleepCounted, ExtremesInv, HistogramInv, Index, Lost, Excess
<1>2. CASE line > max_latency /\ CloseReport
  <2>1. stage' = "done" /\ UNCHANGED <<line, report, fault>>
    BY <1>2, Zenon DEF CloseReport, reportVars
  <2>2. LatencyTypeOK'
    BY <1>i, <1>0, <2>1, Zenon DEF LatencyTypeOK, Index
  <2>3. ReportInv'
    BY <1>i, <1>0, <1>2, <2>1, Zenon DEF ReportInv
  <2>4. ReportFitsUnlessOverrun'
    BY <1>i, <1>0, <2>1, Zenon DEF ReportFitsUnlessOverrun
  <2>5. QED
    BY <1>1, <2>2, <2>3, <2>4, Zenon DEF LatencyInv
<1>3. CASE /\ line <= max_latency /\ line \notin Index
           /\ fault' = "segv" /\ UNCHANGED <<stage, line, report>>
  <2>1. max_latency >= array_size
    BY <1>0, <1>3 DEF Index
  <2>2. LatencyTypeOK'
    BY <1>i, <1>0, <1>3, Zenon DEF LatencyTypeOK, Index
  <2>3. ReportInv'
    BY <1>i, <1>0, <1>3, Zenon DEF ReportInv
  <2>4. ReportFitsUnlessOverrun'
    BY <1>i, <1>0, <2>1, Zenon DEF ReportFitsUnlessOverrun, HistogramInv
  <2>5. QED
    BY <1>1, <2>2, <2>3, <2>4, Zenon DEF LatencyInv
<1>4. CASE /\ line <= max_latency /\ line \notin Index /\ line' = line + 1
           /\ UNCHANGED <<stage, report, fault>>
  <2>1. max_latency >= array_size /\ line' \in Nat /\ line' > array_size /\ line >= array_size
    BY <1>0, <1>4 DEF Index
  <2>2. LatencyTypeOK'
    BY <1>i, <1>0, <1>4, <2>1, Zenon DEF LatencyTypeOK, Index
  <2>3. Len(report) = array_size /\ ~(line' <= array_size)
    <3>1. Len(report) = IF line <= array_size THEN line ELSE array_size
      BY <1>i, Zenon DEF ReportInv
    <3>2. QED
      BY <1>0, <2>1, <3>1
  <2>4. ReportInv'
    BY <1>i, <1>0, <1>4, <2>3, Zenon DEF ReportInv
  <2>5. ReportFitsUnlessOverrun'
    BY <1>i, <1>0, <2>1, Zenon DEF ReportFitsUnlessOverrun, HistogramInv
  <2>6. QED
    BY <1>1, <2>2, <2>4, <2>5, Zenon DEF LatencyInv
<1>5. CASE /\ line <= max_latency /\ line \in Index /\ line' = line + 1
           /\ report' = Append(report, latency[line]) /\ UNCHANGED <<stage, fault>>
  <2>0. Len(report) = line /\ line' \in Nat /\ line' <= array_size /\ ~(line' > array_size)
    <3>1. Len(report) = IF line <= array_size THEN line ELSE array_size
      BY <1>i, Zenon DEF ReportInv
    <3>2. line < array_size
      BY <1>0, <1>5 DEF Index
    <3>3. QED
      BY <1>0, <1>5, <3>1, <3>2
  <2>1. /\ report \in Seq(Nat) /\ latency[line] \in Nat
        /\ latency \in [0 .. array_size - 1 -> Nat] /\ Len(report) \in 0 .. array_size - 1
    BY <1>i, <1>5, <2>0, Zenon DEF LatencyTypeOK, Index
  <2>2. report' \in Seq(Nat) /\ Len(report') = line'
    BY <1>5, <2>0, <2>1
  <2>3. LatencyTypeOK'
    BY <1>i, <1>0, <1>5, <2>0, <2>2, Zenon DEF LatencyTypeOK, Index
  <2>4. SumFunction(report') = SumFunctionOnSet(latency, 0 .. Len(report') - 1)
    <3> DEFINE r == Append(report, latency[Len(report)])
    <3>1. SumFunction(report) = SumFunctionOnSet(latency, 0 .. Len(report) - 1)
      BY <1>i, Zenon DEF ReportInv
    <3>2. SumFunction(r) = SumFunctionOnSet(latency, 0 .. Len(r) - 1)
      BY <1>0, <2>1, <3>1, SumAppend, Zenon
    <3>3. QED
      BY <1>5, <2>0, <3>2, Zenon
  <2>5. ReportInv'
    BY <1>i, <1>0, <1>5, <2>0, <2>2, <2>4, Zenon DEF ReportInv
  <2>6. ReportFitsUnlessOverrun'
    BY <1>0, <1>5, <2>0, Zenon DEF ReportFitsUnlessOverrun
  <2>7. QED
    BY <1>1, <2>3, <2>5, <2>6, Zenon DEF LatencyInv
<1>6. QED
  BY <1>2, <1>3, <1>4, <1>5, Zenon DEF report_line, PrintLine, reportVars

(* Every step of latency_test keeps the inductive invariant.               *)
LEMMA LatencyKept ==
  ASSUME LatencyInv, [LatencyNext]_latencyVars
  PROVE  LatencyInv'
<1>1. CASE LatencyNext /\ measure
  <2>1. PICK x \in Sample : /\ Count(Micro(x)) /\ Track(Micro(x))
                            /\ seen' = seen \union {Micro(x)}
    BY <1>1, Zenon DEF measure
  <2>2. /\ stage = "loop" /\ n < times /\ n' = n + 1
        /\ UNCHANGED <<times, output, behind, stage, line, report, fault>>
    BY <1>1, Zenon DEF LatencyNext, measure, optVars, reportVars
  <2>3. QED
    BY <2>1, <2>2, LatencyCount, MicroType, Zenon
<1>2. CASE LatencyNext /\ open_report
  <2>1. /\ UNCHANGED <<times, output, behind, line, report>> /\ UNCHANGED histVars
        /\ stage = "loop" /\ n >= times /\ fault' \in {fault, "nofile"}
        /\ \/ stage' = "done" /\ ~output
           \/ stage' \in {"report", "loop"}
        /\ fault = "none"
    BY <1>2, Zenon DEF LatencyNext, open_report, optVars, reportVars
  <2>2. EverySleepCounted' /\ ExtremesInv' /\ HistogramInv'
    BY <2>1, Zenon DEF LatencyInv, EverySleepCounted, ExtremesInv, HistogramInv, histVars,
                       Index, Lost, Excess
  <2>3. LatencyTypeOK'
    BY <2>1, Zenon DEF LatencyInv, LatencyTypeOK, histVars, Index
  <2>4. ReportInv' /\ ReportFitsUnlessOverrun'
    BY <2>1, Zenon DEF LatencyInv, ReportInv, ReportFitsUnlessOverrun, histVars
  <2>5. QED
    BY <2>2, <2>3, <2>4, Zenon DEF LatencyInv
<1>3. CASE LatencyNext /\ report_line
  BY <1>3, LatencyReport, Zenon DEF LatencyNext
<1>4. CASE UNCHANGED latencyVars
  <2>1. /\ UNCHANGED <<times, output, behind, line, report, stage, fault>>
        /\ UNCHANGED <<n, latency, negative_num, overrun_num, min_latency, max_latency>>
        /\ UNCHANGED <<seen, stray>>
    BY <1>4, Zenon DEF latencyVars, optVars, histVars, reportVars
  <2>2. EverySleepCounted' /\ ExtremesInv' /\ HistogramInv'
    BY <2>1, Zenon DEF LatencyInv, EverySleepCounted, ExtremesInv, HistogramInv, Index, Lost, Excess
  <2>3. LatencyTypeOK'
    BY <2>1, Zenon DEF LatencyInv, LatencyTypeOK, Index
  <2>4. ReportInv' /\ ReportFitsUnlessOverrun'
    BY <2>1, Zenon DEF LatencyInv, ReportInv, ReportFitsUnlessOverrun
  <2>5. QED
    BY <2>2, <2>3, <2>4, Zenon DEF LatencyInv
<1>5. QED
  BY <1>1, <1>2, <1>3, <1>4, Zenon DEF LatencyNext

(* What the inductive invariant says of a finished run.                    *)
LEMMA LatencyImplies ==
  ASSUME LatencyInv
  PROVE  EverySleepCounted /\ ExtremesAreRight /\ ReportIsComplete /\ ReportFitsUnlessOverrun
<1>i. /\ LatencyTypeOK /\ EverySleepCounted /\ ExtremesInv /\ HistogramInv
      /\ ReportInv /\ ReportFitsUnlessOverrun
  BY Zenon DEF LatencyInv
<1>1. ExtremesAreRight
  <2>1. seen \subseteq Int /\ min_latency \in Int /\ LONG_MAX \in Nat
    BY <1>i, LatencyAssumption, Zenon DEF LatencyTypeOK, LatencyAssumption
  <2>2. PICK m \in seen \union {0} : /\ \A u \in seen \union {0} : u <= m
                                    /\ max_latency - m \in 0 .. Excess
    BY <1>i, Zenon DEF ExtremesInv
  <2>3. \A x \in seen \union {0} : (\A y \in seen \union {0} : x >= y) <=> x = m
    BY <2>1, <2>2
  <2>4. m = Max(seen \union {0})
    BY <2>2, <2>3, Zenon DEF Max
  <2>5. \A x \in seen \union {LONG_MAX} : (\A y \in seen \union {LONG_MAX} : x <= y) <=> x = min_latency
    BY <1>i, <2>1 DEF ExtremesInv
  <2>6. min_latency \in seen \union {LONG_MAX}
    BY <1>i, Zenon DEF ExtremesInv
  <2>7. min_latency = Min(seen \union {LONG_MAX})
    BY <2>5, <2>6, Zenon DEF Min
  <2>8. QED
    BY <2>2, <2>4, <2>7, Zenon DEF ExtremesAreRight
<1>2. ASSUME stage = "done", output, times >= 0
      PROVE  SumFunction(report) + overrun_num + negative_num + Lost = times
  <2> DEFINE m == Len(report)
  <2>1. /\ n = times /\ line > max_latency /\ line \in Nat
        /\ m = IF line <= array_size THEN line ELSE array_size
        /\ array_size \in Nat /\ max_latency \in Nat
    <3>1. n \in Nat /\ times \in Int /\ n <= times /\ n >= times
      BY <1>i, <1>2, Zenon DEF ReportInv, LatencyTypeOK
    <3>2. n = times
      BY <3>1
    <3>3. QED
      BY <1>i, <1>2, <3>2, IndexFinite, Zenon DEF ReportInv, LatencyTypeOK
  <2>2. 0 .. m - 1 \in SUBSET Index /\ \A k \in Index \ (0 .. m - 1) : latency[k] = 0
    <3> HIDE DEF m
    <3>1. 0 .. m - 1 \in SUBSET Index /\ \A k \in Index \ (0 .. m - 1) : k > max_latency
      BY <2>1 DEF Index
    <3>2. QED
      BY <1>i, <3>1, Zenon DEF HistogramInv
  <2>3. SumFunctionOnSet(latency, 0 .. m - 1) = SumFunctionOnSet(latency, Index)
    BY <1>i, <2>2, IndexFinite, SumZero, Zenon
  <2>4. SumFunction(report) = SumFunction(latency) /\ SumFunction(latency) \in Int
    BY <1>i, <2>3, IndexFinite, Zenon DEF ReportInv
  <2>5. negative_num \in Nat /\ overrun_num \in Nat /\ Lost \in Nat
    <3>1. 0 \in Nat
      OBVIOUS
    <3>2. QED
      BY <1>i, <3>1, Zenon DEF LatencyTypeOK, Lost
  <2>6. n = negative_num + overrun_num + Lost + SumFunction(latency)
    BY <1>i, Zenon DEF EverySleepCounted
  <2>7. QED
    BY <2>1, <2>4, <2>5, <2>6
<1>3. QED
  BY <1>i, <1>1, <1>2, Zenon DEF ReportIsComplete

(* The inductive invariant holds throughout a run of latency_test.         *)
LEMMA LatencyAlways ==
  LatencySpec => []LatencyInv
<1>1. LatencyInit => LatencyInv
  BY LatencyStarts
<1>2. LatencyInv /\ [LatencyNext]_latencyVars => LatencyInv'
  BY LatencyKept
<1>3. QED
  BY <1>1, <1>2, PTL DEF LatencySpec

(* Every sleep latency_test timed is in exactly one of the histogram, the  *)
(* overruns, the negatives and the writes past the histogram, however many *)
(* samples of whatever value, wherever those writes go.                    *)
THEOREM SleepsAreCounted ==
  LatencySpec => []EverySleepCounted
<1>1. LatencyInv => EverySleepCounted
  BY Zenon DEF LatencyInv
<1>2. QED
  BY <1>1, LatencyAlways, PTL

(* The extremes latency_test prints are those of the samples, as long as   *)
(* their starting values 0 and LONG_MAX count as samples, up to the writes *)
(* past the histogram that hit max_latency.                                *)
THEOREM PrintedExtremesAreRight ==
  LatencySpec => []ExtremesAreRight
<1>1. LatencyInv => ExtremesAreRight
  BY LatencyImplies, Zenon
<1>2. QED
  BY <1>1, LatencyAlways, PTL

(* The file latency_test writes accounts for every sleep it was asked for: *)
(* its lines, the overruns and the negatives add up to their number, but   *)
(* for those of exactly array_size microseconds.                           *)
THEOREM ReportAddsUp ==
  LatencySpec => []ReportIsComplete
<1>1. LatencyInv => ReportIsComplete
  BY LatencyImplies, Zenon
<1>2. QED
  BY <1>1, LatencyAlways, PTL

(* The loop that writes the report runs past the histogram only after a    *)
(* latency of array_size or more, although a write past it may have raised *)
(* the bound max_latency.                                                  *)
THEOREM ReportOverrunsOnlyWithSamples ==
  LatencySpec => []ReportFitsUnlessOverrun
<1>1. LatencyInv => ReportFitsUnlessOverrun
  BY Zenon DEF LatencyInv
<1>2. QED
  BY <1>1, LatencyAlways, PTL

=============================================================================
