------------------------- MODULE LoadControlProofs -------------------------
(***************************************************************************)
(* What load control promises, for every measurement.  All of it is        *)
(* rounding: once RoundDivBound is there, each promise is linear in a few  *)
(* products, which the proofs name and hide before they use them.          *)
(***************************************************************************)
EXTENDS LoadControl, TLAPS

LEMMA DivBound ==
    ASSUME NEW c \in Int, NEW d \in Nat, d > 0
    PROVE  /\ c \div d \in Int
           /\ d * (c \div d) <= c
           /\ c < d * (c \div d) + d
  OBVIOUS

(* Rounding misses a fraction by at most a half, and keeps its sign.       *)
LEMMA RoundDivBound ==
    ASSUME NEW a \in Int, NEW b \in Nat, b > 0
    PROVE  /\ RoundDiv(a, b) \in Int
           /\ 2 * (RoundDiv(a, b) * b) <= 2 * a + b
           /\ 2 * (RoundDiv(a, b) * b) >= 2 * a - b
<1>1. CASE a >= 0
  <2> DEFINE q == (2 * a + b) \div (2 * b)
  <2>1. /\ q \in Int
        /\ (2 * b) * q <= 2 * a + b
        /\ 2 * a + b < (2 * b) * q + 2 * b
    BY DivBound
  <2>2. RoundDiv(a, b) = q
    BY <1>1 DEF RoundDiv
  <2> HIDE DEF q
  <2>3. (2 * b) * q = 2 * (q * b) /\ q * b \in Int
    BY <2>1
  <2> QED
    BY <2>1, <2>2, <2>3
<1>2. CASE a < 0
  <2> DEFINE q == (b - 2 * a) \div (2 * b)
  <2>1. /\ q \in Int
        /\ (2 * b) * q <= b - 2 * a
        /\ b - 2 * a < (2 * b) * q + 2 * b
    BY DivBound
  <2>2. RoundDiv(a, b) = -q
    BY <1>2 DEF RoundDiv
  <2> HIDE DEF q
  <2>3. (2 * b) * q = 2 * (q * b) /\ (-q) * b = -(q * b) /\ q * b \in Int
    BY <2>1
  <2> QED
    BY <2>1, <2>2, <2>3
<1> QED
  BY <1>1, <1>2

(* A fraction rounds to zero exactly when it is less than a half, and a    *)
(* negative result comes from a negative fraction.                         *)
LEMMA RoundDivSign ==
    ASSUME NEW a \in Int, NEW b \in Nat, b > 0
    PROVE  /\ a >= 0 => RoundDiv(a, b) >= 0
           /\ a >= 0 => (RoundDiv(a, b) = 0 <=> 2 * a < b)
<1> SUFFICES ASSUME a >= 0
             PROVE  RoundDiv(a, b) >= 0 /\ (RoundDiv(a, b) = 0 <=> 2 * a < b)
  OBVIOUS
<1> DEFINE q == (2 * a + b) \div (2 * b)
<1>1. /\ q \in Int
      /\ (2 * b) * q <= 2 * a + b
      /\ 2 * a + b < (2 * b) * q + 2 * b
  BY DivBound
<1>2. RoundDiv(a, b) = q
  BY DEF RoundDiv
<1> HIDE DEF q
<1>3. q >= 0
  <2>1. SUFFICES ASSUME q <= -1 PROVE FALSE
    BY <1>1
  <2>2. (2 * b) * q <= -(2 * b)
    BY <1>1, <2>1
  <2> QED
    BY <1>1, <2>2
<1>4. q >= 1 => (2 * b) * q >= 2 * b
  BY <1>1
<1>5. q = 0 => (2 * b) * q = 0
  OBVIOUS
<1> QED
  BY <1>1, <1>2, <1>3, <1>4, <1>5

(* A measurement that is a number, and an aim in reach of the CPU, leave   *)
(* positive divisors.                                                      *)
LEMMA RegularParts ==
    ASSUME NEW a \in Nat, NEW w \in Nat, NEW r \in Nat, NEW i \in Nat,
           NEW m \in Nat, NEW p \in Nat, NEW f \in Nat,
           Regular(a, w, r, i, m, p)
    PROVE  /\ w > 0
           /\ a * m \in Nat
           /\ a * m > 0
           /\ a * p * m \in Int
           /\ a * p * m >= 0
<1>1. /\ ~ WantsAll(a, w, r)
      /\ ~ NotANumber(a, w, r, i, m, p)
  BY DEF Regular
<1>2. a > 0 /\ a * r < w
  BY <1>1 DEF WantsAll
<1>3. m > 0
  BY <1>1 DEF NotANumber
<1>4. w > 0
  BY <1>2
<1>5. a * m \in Nat /\ a * m > 0
  BY <1>2, <1>3
<1>6. a * p * m \in Int /\ a * p * m >= 0
  OBVIOUS
<1> QED
  BY <1>4, <1>5, <1>6

(* So a batch never has a negative number of rounds.                       *)
LEMMA RoundsAreNatural ==
    ASSUME NEW a \in Nat, NEW w \in Nat, NEW r \in Nat, NEW i \in Nat,
           NEW m \in Nat, NEW p \in Nat, NEW f \in Nat,
           Regular(a, w, r, i, m, p)
    PROVE  ToTime(a, w, r, i, m, p, f).rounds \in Nat
<1> DEFINE c == a * p * m
<1>1. w > 0 /\ c \in Int /\ c >= 0
  BY RegularParts
<1> HIDE DEF c
<1>2. RoundDiv(c, w) \in Int /\ RoundDiv(c, w) >= 0
  BY <1>1, RoundDivBound, RoundDivSign
<1>3. RoundDiv(c, w) \in Nat
  BY <1>2
<1>4. ToTime(a, w, r, i, m, p, f).rounds = RoundsFor(a, w, m, p)
  BY DEF Regular, ToTime
<1> QED
  BY <1>3, <1>4 DEF c, RoundsFor

(* The three functions of load control keep the load asked for, for every  *)
(* measurement (strength_to_time, membw_to_time, network_pps_to_time).     *)
THEOREM BatchKeepsShare ==
    ASSUME NEW a \in Nat, NEW w \in Nat, NEW r \in Nat, NEW i \in Nat,
           NEW m \in Nat, NEW p \in Nat, NEW f \in Nat,
           Regular(a, w, r, i, m, p)
    PROVE  ShareKept(a, w, r, i, m, ToTime(a, w, r, i, m, p, f))
<1> DEFINE b == ToTime(a, w, r, i, m, p, f)
           x == b.rounds
           y == b.sleep
           d == a * m
           c == x * (w - a * (r + i))
<1>1. d \in Nat /\ d > 0
  BY RegularParts
<1>2. x \in Nat
  BY RoundsAreNatural
<1>3. y = RoundDiv(c, d)
  <2>1. y = SleepFor(x, a, w, r + i, m)
    BY DEF Regular, ToTime
  <2> HIDE DEF b
  <2> QED
    BY <2>1 DEF SleepFor
<1> HIDE DEF b
<1> HIDE DEF x
<1>4. c \in Int
  BY <1>2
<1> HIDE DEF c, d
<1>5. /\ y \in Int
      /\ 2 * (y * d) <= 2 * c + d
      /\ 2 * (y * d) >= 2 * c - d
  BY <1>1, <1>3, <1>4, RoundDivBound
<1> HIDE DEF y
<1> DEFINE t == a * (x * (r + i) + m * y)
           s == x * w
           u == y * d
           v == a * (x * (r + i))
<1>6. t = u + v
  BY <1>2, <1>5 DEF d
<1>7. c = s - v
  BY <1>2 DEF c
<1>8. t \in Int /\ s \in Int /\ u \in Int /\ v \in Int
  BY <1>1, <1>2, <1>5
<1> SUFFICES 2 * (t - s) <= d /\ 2 * (s - t) <= d
  BY DEF ShareKept, x, y, b, d
<1> HIDE DEF t, s, v
<1>9. u \in Int /\ 2 * u <= 2 * c + d /\ 2 * u >= 2 * c - d
  BY <1>5, <1>8
<1> HIDE DEF u
<1> QED
  BY <1>1, <1>6, <1>7, <1>8, <1>9

(* They fill the period up to half a kernel round, for every measurement.  *)
THEOREM BatchKeepsPeriod ==
    ASSUME NEW a \in Nat, NEW w \in Nat, NEW r \in Nat, NEW i \in Nat,
           NEW m \in Nat, NEW p \in Nat, NEW f \in Nat,
           Regular(a, w, r, i, m, p)
    PROVE  PeriodKept(a, w, m, p, ToTime(a, w, r, i, m, p, f))
<1> DEFINE b == ToTime(a, w, r, i, m, p, f)
           c == a * p * m
           x == b.rounds
           s == x * w
<1>1. w > 0 /\ c \in Int /\ c >= 0
  BY RegularParts
<1>2. x = RoundDiv(c, w)
  <2>1. x = RoundsFor(a, w, m, p)
    BY DEF Regular, ToTime
  <2> QED
    BY <2>1 DEF RoundsFor
<1> HIDE DEF b
<1> HIDE DEF c
<1>3. /\ x \in Int
      /\ 2 * s <= 2 * c + w
      /\ 2 * s >= 2 * c - w
  BY <1>1, <1>2, RoundDivBound
<1> HIDE DEF x
<1>4. s \in Int
  BY <1>3
<1> SUFFICES 2 * (s - c) <= w /\ 2 * (c - s) <= w
  BY DEF PeriodKept, x, b, c
<1> HIDE DEF s
<1> QED
  BY <1>1, <1>3, <1>4

(* A batch is empty exactly when one kernel round is more than twice what  *)
(* the period may hold: -s, --period and the kernel decide it, no noise.   *)
THEOREM BatchEmptyIff ==
    ASSUME NEW a \in Nat, NEW w \in Nat, NEW r \in Nat, NEW i \in Nat,
           NEW m \in Nat, NEW p \in Nat, NEW f \in Nat,
           Regular(a, w, r, i, m, p)
    PROVE  EmptyIff(a, w, m, p, ToTime(a, w, r, i, m, p, f))
<1> DEFINE b == ToTime(a, w, r, i, m, p, f)
           c == a * p * m
           x == b.rounds
<1>1. w > 0 /\ c \in Int /\ c >= 0
  BY RegularParts
<1>2. x = RoundDiv(c, w)
  <2>1. x = RoundsFor(a, w, m, p)
    BY DEF Regular, ToTime
  <2> QED
    BY <2>1 DEF RoundsFor
<1>3. 2 * a * p * m = 2 * c
  OBVIOUS
<1> HIDE DEF b
<1> HIDE DEF c
<1>4. x = 0 <=> 2 * c < w
  BY <1>1, <1>2, RoundDivSign
<1> HIDE DEF x
<1>5. x = 0 <=> 2 * a * p * m < w
  BY <1>3, <1>4
<1> QED
  BY <1>5 DEF EmptyIff, x, b

(* The sleep of a batch is left out only if the aim is out of reach.       *)
THEOREM BatchSleepsIfAhead ==
    ASSUME NEW a \in Nat, NEW w \in Nat, NEW r \in Nat, NEW i \in Nat,
           NEW m \in Nat, NEW p \in Nat, NEW f \in Nat,
           Regular(a, w, r, i, m, p)
    PROVE  NoSleepMeansBehind(a, w, r, i, ToTime(a, w, r, i, m, p, f))
<1> DEFINE b == ToTime(a, w, r, i, m, p, f)
           d == a * m
           v == a * (r + i)
           k == w - v
           x == b.rounds
           c == x * k
<1>1. d \in Nat /\ d > 0
  BY RegularParts
<1>2. x \in Nat
  BY RoundsAreNatural
<1>3. b.sleep = RoundDiv(c, d)
  <2>1. b.sleep = SleepFor(x, a, w, r + i, m)
    BY DEF Regular, ToTime
  <2> HIDE DEF b
  <2> QED
    BY <2>1 DEF SleepFor
<1>4. v \in Int
  OBVIOUS
<1> HIDE DEF b
<1> HIDE DEF x, d
<1>5. ASSUME v <= w PROVE b.sleep >= 0
  <2> HIDE DEF v
  <2>1. k \in Nat
    BY <1>4, <1>5
  <2> HIDE DEF k
  <2>2. c \in Int /\ c >= 0
    BY <1>2, <2>1
  <2> HIDE DEF c
  <2>3. RoundDiv(c, d) >= 0
    BY <1>1, <2>2, RoundDivSign
  <2> QED
    BY <1>3, <2>3
<1>6. b.sleep \in Int
  <2>1. c \in Int
    BY <1>2, <1>4
  <2> HIDE DEF c
  <2> QED
    BY <1>1, <1>3, <2>1, RoundDivBound
<1> HIDE DEF v
<1>7. b.sleep < 0 => v > w
  BY <1>4, <1>5, <1>6
<1> QED
  BY <1>7 DEF NoSleepMeansBehind, b, v
=============================================================================
