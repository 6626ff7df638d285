--------------------------- MODULE PwmTimingProofs ---------------------------
(***************************************************************************)
(* What HIGH_TIME and LOW_TIME compute, for every period, range and duty   *)
(* cycle whose products fit an int.                                        *)
(***************************************************************************)
EXTENDS PwmTiming, TLAPS

(* Integer division, from its characteristic property.                     *)
LEMMA DivBound ==
  ASSUME NEW a \in Nat, NEW b \in Nat, 0 < b
  PROVE  a \div b \in Nat /\ b * (a \div b) <= a /\ a < b * (a \div b) + b
  OBVIOUS

LEMMA MulMono ==
  ASSUME NEW a \in Nat, NEW b \in Nat, NEW c \in Nat, a <= b
  PROVE  c * a <= c * b /\ c * a \in Nat
  OBVIOUS

LEMMA MulCancel ==
  ASSUME NEW a \in Int, NEW b \in Int, NEW c \in Nat, 0 < c, c * a < c * b
  PROVE  a < b
  OBVIOUS

(* An int keeps a result that fits.                                        *)
LEMMA WrapFits ==
  ASSUME NEW x \in Int, -IntHalf <= x, x < IntHalf
  PROVE  Wrap(x) = x
  BY TimingAssumption DEF Wrap, TimingAssumption

LEMMA CDivNat ==
  ASSUME NEW a \in Nat, NEW b \in Nat, 0 < b
  PROVE  CDiv(a, b) = a \div b
  BY DEF CDiv

LEMMA RangeFits ==
  ASSUME NEW P, NEW s \in SlotOf(P), InRange(s)
  PROVE  /\ s.max - s.min \in Nat \ {0}
         /\ PWM_RANGE(s) = s.max - s.min
<1> DEFINE R == s.max - s.min
<1>1. R \in Nat \ {0}
  BY DEF InRange, SlotOf
<1>2. R <= PERIOD * R
  BY <1>1, TimingAssumption, MulMono DEF TimingAssumption
<1>3. R < IntHalf
  BY <1>1, <1>2, TimingAssumption DEF InRange, TimingAssumption
<1>4. QED
  BY <1>1, <1>3, WrapFits, TimingAssumption DEF PWM_RANGE, TimingAssumption

(* For a duty cycle in range, softPWM's HIGH_TIME is the requested share of *)
(* the period rounded down, and one turn of pwm_task's loop lasts a period  *)
(* or one microsecond less: the two roundings never add up to more.         *)
THEOREM SoftTimes ==
  ASSUME NEW P, NEW s \in SlotOf(P), InRange(s)
  PROVE  LET R == s.max - s.min IN
         /\ soft_HIGH_TIME(s) \in 0 .. PERIOD
         /\ soft_LOW_TIME(s) \in 0 .. PERIOD
         /\ soft_HIGH_TIME(s) + soft_LOW_TIME(s) \in {PERIOD - 1, PERIOD}
         /\ R * soft_HIGH_TIME(s) <= PERIOD * s.duty_cycle
         /\ PERIOD * s.duty_cycle < R * soft_HIGH_TIME(s) + R
<1> DEFINE R == s.max - s.min
           d == s.duty_cycle
           e == R - d
           h == (PERIOD * d) \div R
           l == (PERIOD * e) \div R
<1>1. R \in Nat /\ 0 < R /\ PWM_RANGE(s) = R /\ d \in Nat /\ e \in Nat /\ d <= R /\ e <= R
  BY RangeFits DEF InRange, SlotOf
<1>2. PERIOD \in Nat /\ IntHalf \in Nat /\ PERIOD * R < IntHalf
  BY TimingAssumption DEF TimingAssumption, InRange
<1>3. /\ PERIOD * d \in Nat /\ PERIOD * d <= PERIOD * R
      /\ PERIOD * e \in Nat /\ PERIOD * e <= PERIOD * R
      /\ PERIOD * R \in Nat
  BY <1>1, <1>2, MulMono
<1>4. soft_HIGH_TIME(s) = h
  <2>1. Wrap(PERIOD * d) = PERIOD * d
    BY <1>2, <1>3, WrapFits
  <2>2. QED
    BY <1>1, <1>3, <2>1, CDivNat DEF soft_HIGH_TIME
<1>5. soft_LOW_TIME(s) = l
  <2>1. e < IntHalf
    BY <1>1, <1>2, RangeFits, MulMono, TimingAssumption DEF TimingAssumption
  <2>2. Wrap(e) = e
    BY <1>1, <1>2, <2>1, WrapFits
  <2>3. Wrap(PERIOD * e) = PERIOD * e
    BY <1>2, <1>3, WrapFits
  <2>4. QED
    BY <1>1, <1>3, <2>2, <2>3, CDivNat DEF soft_LOW_TIME
<1>6. PERIOD * d + PERIOD * e = PERIOD * R
  BY <1>1, <1>2
<1>7. /\ h \in Nat /\ R * h <= PERIOD * d /\ PERIOD * d < R * h + R
      /\ l \in Nat /\ R * l <= PERIOD * e /\ PERIOD * e < R * l + R
  BY <1>1, <1>3, DivBound, Zenon
<1> HIDE DEF h, l, R, d, e
<1>8. h + l <= PERIOD
  <2>1. R * (h + l) = R * h + R * l /\ R * (PERIOD + 1) = PERIOD * R + R
    BY <1>1, <1>2, <1>7
  <2>2. R * (h + l) < R * (PERIOD + 1)
    BY <1>1, <1>2, <1>3, <1>6, <1>7, <2>1
  <2>3. QED
    BY <1>1, <1>2, <1>7, <2>2, MulCancel
<1>9. PERIOD < h + l + 2
  <2>1. R * (h + l + 2) = R * h + R * l + 2 * R /\ R * PERIOD = PERIOD * R
    BY <1>1, <1>2, <1>7
  <2>2. R * PERIOD < R * (h + l + 2)
    BY <1>1, <1>2, <1>3, <1>6, <1>7, <2>1
  <2>3. QED
    BY <1>1, <1>2, <1>7, <2>2, MulCancel
<1>10. QED
  BY <1>1, <1>2, <1>4, <1>5, <1>7, <1>8, <1>9 DEF R, d

(* xenoPWM divides first: no product overflows for any range an int holds, *)
(* but a turn of its loop is short of the period by less than the range,   *)
(* and its two shares are exact in units of PERIOD_NS / PWM_RANGE.         *)
THEOREM XenoTimes ==
  ASSUME NEW P, NEW s \in SlotOf(P),
         0 < s.max - s.min, s.max - s.min < IntHalf,
         s.duty_cycle \in 0 .. s.max - s.min
  PROVE  LET R == s.max - s.min IN
         /\ xeno_HIGH_TIME(s) = (PERIOD \div R) * s.duty_cycle
         /\ xeno_LOW_TIME(s) = (PERIOD \div R) * (R - s.duty_cycle)
         /\ xeno_HIGH_TIME(s) \in 0 .. PERIOD
         /\ xeno_LOW_TIME(s) \in 0 .. PERIOD
         /\ xeno_HIGH_TIME(s) + xeno_LOW_TIME(s) \in PERIOD - R + 1 .. PERIOD
<1> DEFINE R == s.max - s.min
           d == s.duty_cycle
           e == R - d
           q == PERIOD \div R
<1>1. R \in Nat /\ 0 < R /\ d \in Nat /\ e \in Nat /\ d <= R /\ e <= R
  BY DEF SlotOf
<1>2. PERIOD \in Nat /\ IntHalf \in Nat /\ PERIOD < IntHalf /\ R < IntHalf
  BY TimingAssumption DEF TimingAssumption
<1>3. PWM_RANGE(s) = R /\ Wrap(e) = e
  BY <1>1, <1>2, WrapFits DEF PWM_RANGE
<1>4. q \in Nat /\ R * q <= PERIOD /\ PERIOD < R * q + R /\ CDiv(PERIOD, R) = q
  BY <1>1, <1>2, DivBound, CDivNat, Zenon
<1>5. xeno_HIGH_TIME(s) = Wrap(q * d) /\ xeno_LOW_TIME(s) = Wrap(q * e)
  BY <1>3, <1>4 DEF xeno_HIGH_TIME, xeno_LOW_TIME
<1>6. q * R = q * d + q * e /\ q * R = R * q
  BY <1>1, <1>4
<1> HIDE DEF q, R, d, e
<1>7. q * d \in Nat /\ q * e \in Nat
  BY <1>1, <1>4, MulMono
<1>8. Wrap(q * d) = q * d /\ Wrap(q * e) = q * e
  BY <1>1, <1>2, <1>4, <1>6, <1>7, WrapFits
<1>9. QED
  BY <1>1, <1>2, <1>4, <1>5, <1>6, <1>7, <1>8 DEF R, d, e, q

=============================================================================
