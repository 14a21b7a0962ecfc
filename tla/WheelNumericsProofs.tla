------------------------- MODULE WheelNumericsProofs -------------------------
(* What the drivers' rounding and slew limit guarantee, for every integer   *)
(* command, slew and quantum.                                               *)
EXTENDS WheelNumerics, TLAPS

(* Division with remainder, the fact the rounding rests on. *)
LEMMA DivMod ==
  ASSUME NEW x \in Int, NEW q \in Nat \ {0}
  PROVE  /\ x \div q \in Int
         /\ x % q \in Int
         /\ 0 <= x % q
         /\ x % q < q
         /\ x = q * (x \div q) + (x % q)
  OBVIOUS

(* Rounding to the quantum moves a value by at most half a quantum.         *)
LEMMA QuantizeNear ==
  ASSUME NEW x \in Int, NEW q \in Nat \ {0}
  PROVE  /\ Quantize(x, q) \in Int
         /\ 2 * Abs(Quantize(x, q) - x) <= q
<1> DEFINE f == x \div q
           r == x % q
<1>1. f \in Int /\ r \in Int /\ 0 <= r /\ r < q /\ x = q * f + r
  BY DivMod
<1>2. RoundDiv(x, q) = f \/ RoundDiv(x, q) = f + 1
  BY DEF RoundDiv
<1>3. CASE 2 * r < q \/ (2 * r = q /\ f % 2 = 0)
  <2>1. Quantize(x, q) = f * q
    BY <1>3 DEF Quantize, RoundDiv
  <2>2. f * q = q * f /\ q * f \in Int
    BY <1>1
  <2>3. Quantize(x, q) - x = -r
    BY <2>1, <2>2, <1>1
  <2> HIDE DEF f, r
  <2> QED
    BY <2>1, <2>2, <2>3, <1>1, <1>3 DEF Abs
<1>4. CASE ~(2 * r < q \/ (2 * r = q /\ f % 2 = 0))
  <2>1. Quantize(x, q) = (f + 1) * q
    BY <1>4 DEF Quantize, RoundDiv
  <2>2. (f + 1) * q = q * f + q /\ q * f \in Int
    BY <1>1
  <2>3. Quantize(x, q) - x = q - r
    BY <2>1, <2>2, <1>1
  <2>4. 2 * r >= q
    BY <1>1, <1>4
  <2> HIDE DEF f, r
  <2> QED
    BY <2>1, <2>2, <2>3, <2>4, <1>1 DEF Abs
<1> QED
  BY <1>3, <1>4

(* One step of slew_apply moves a wheel by at most the slew limit plus half *)
(* a quantum, whatever the target.                                          *)
LEMMA SlewStepNear ==
  ASSUME NEW from \in Int, NEW to \in Int, NEW s \in Nat, NEW q \in Nat \ {0}
  PROVE  /\ SlewStep(from, to, s, q) \in Int
         /\ 2 * Abs(SlewStep(from, to, s, q) - from) <= 2 * s + q
<1> DEFINE c == Clamp(to - from, s)
<1>1. c \in Int /\ -s <= c /\ c <= s
  BY DEF Clamp
<1>2. /\ Quantize(from + c, q) \in Int
      /\ 2 * Abs(Quantize(from + c, q) - (from + c)) <= q
  BY <1>1, QuantizeNear
<1>3. SlewStep(from, to, s, q) = Quantize(from + c, q)
  BY DEF SlewStep
<1> HIDE DEF c
<1> QED
  BY <1>1, <1>2, <1>3 DEF Abs

-----------------------------------------------------------------------------
(* Where the ramp of slew_apply leads: it runs along the multiples of the   *)
(* quantum, never past its goal, the demand rounded to the quantum.         *)
OnGrid(x, q) == \E k \in Int : x = k * q

(* x lies between a and b, whichever is the larger. *)
Between(a, x, b) == (a <= x /\ x <= b) \/ (b <= x /\ x <= a)

LEMMA TimesMonotone ==
  ASSUME NEW a \in Int, NEW b \in Int, NEW q \in Nat, a <= b
  PROVE  a * q <= b * q /\ a * q \in Int /\ b * q \in Int
<1> DEFINE d == b - a
<1>1. d \in Nat /\ b = a + d
  OBVIOUS
<1>2. (a + d) * q = a * q + d * q /\ d * q \in Nat /\ a * q \in Int
  BY <1>1
<1> HIDE DEF d
<1> QED
  BY <1>1, <1>2

(* Two different multiples of the quantum are at least a quantum apart.     *)
LEMMA GridGap ==
  ASSUME NEW a \in Int, NEW b \in Int, NEW q \in Nat \ {0}, a * q < b * q
  PROVE  a * q + q <= b * q
<1>1. a < b
  BY TimesMonotone
<1>2. (a + 1) * q <= b * q
  BY <1>1, TimesMonotone
<1>3. (a + 1) * q = a * q + q
  OBVIOUS
<1> QED
  BY <1>2, <1>3

LEMMA QuantizeOnGrid ==
  ASSUME NEW x \in Int, NEW q \in Nat \ {0}
  PROVE  OnGrid(Quantize(x, q), q)
<1>1. x \div q \in Int
  BY DivMod
<1>2. RoundDiv(x, q) \in Int
  BY <1>1 DEF RoundDiv
<1> QED
  BY <1>2 DEF Quantize, OnGrid

(* A multiple of the quantum is left as it is. *)
LEMMA QuantizeGrid ==
  ASSUME NEW x \in Int, NEW q \in Nat \ {0}, OnGrid(x, q)
  PROVE  Quantize(x, q) = x
<1> DEFINE f == x \div q
           r == x % q
<1>1. f \in Int /\ r \in Int /\ 0 <= r /\ r < q /\ x = q * f + r
  BY DivMod
<1>2. PICK k \in Int : x = k * q
  BY DEF OnGrid
<1>3. RoundDiv(x, q) = IF 2 * r < q \/ (2 * r = q /\ f % 2 = 0) THEN f ELSE f + 1
  BY DEF RoundDiv
<1> HIDE DEF f, r
<1>4. f * q = q * f /\ f * q \in Int /\ k * q \in Int
  BY <1>1
<1>5. ~(f * q < k * q)
  BY <1>1, <1>2, <1>4, GridGap
<1>6. r = 0 /\ f * q = x
  BY <1>1, <1>2, <1>4, <1>5
<1> QED
  BY <1>3, <1>6 DEF Quantize

LEMMA QuotientMonotone ==
  ASSUME NEW x \in Int, NEW y \in Int, NEW q \in Nat \ {0}, x <= y
  PROVE  x \div q <= y \div q
<1> DEFINE f == x \div q
           g == y \div q
<1>1. /\ f \in Int /\ x % q \in Int /\ 0 <= x % q /\ x = q * f + (x % q)
      /\ g \in Int /\ y % q \in Int /\ y % q < q /\ y = q * g + (y % q)
  BY DivMod
<1> HIDE DEF f, g
<1>2. f * q = q * f /\ g * q = q * g /\ f * q \in Int /\ g * q \in Int
  BY <1>1
<1>3. CASE g < f
  <2>1. g + 1 \in Int /\ (g + 1) * q = g * q + q
    BY <1>1
  <2>2. (g + 1) * q <= f * q
    BY <1>1, <1>3, <2>1, TimesMonotone
  <2> QED
    BY <1>1, <1>2, <2>1, <2>2
<1> QED
  BY <1>1, <1>3 DEF f, g

(* Rounding keeps the order. *)
LEMMA QuantizeMonotone ==
  ASSUME NEW x \in Int, NEW y \in Int, NEW q \in Nat \ {0}, x <= y
  PROVE  Quantize(x, q) <= Quantize(y, q)
<1> DEFINE f == x \div q
           r == x % q
           g == y \div q
           t == y % q
<1>1. /\ f \in Int /\ r \in Int /\ x = q * f + r
      /\ g \in Int /\ t \in Int /\ y = q * g + t
  BY DivMod
<1>2. f <= g
  BY QuotientMonotone
<1>3. RoundDiv(x, q) = IF 2 * r < q \/ (2 * r = q /\ f % 2 = 0) THEN f ELSE f + 1
  BY DEF RoundDiv
<1>4. RoundDiv(y, q) = IF 2 * t < q \/ (2 * t = q /\ g % 2 = 0) THEN g ELSE g + 1
  BY DEF RoundDiv
<1> HIDE DEF f, r, g, t
<1>5. RoundDiv(x, q) \in Int /\ RoundDiv(y, q) \in Int
  BY <1>1, <1>3, <1>4
<1>6. RoundDiv(x, q) <= RoundDiv(y, q)
  <2>1. CASE f = g
    <3>1. q * f = q * g /\ q * f \in Int
      BY <1>1, <2>1
    <3>2. r <= t
      BY <1>1, <3>1
    <3> QED
      BY <1>1, <1>3, <1>4, <2>1, <3>2
  <2>2. CASE f # g
    BY <1>1, <1>2, <1>3, <1>4, <2>2
  <2> QED
    BY <2>1, <2>2
<1> QED
  BY <1>5, <1>6, TimesMonotone DEF Quantize

(* One step of the ramp stays on the grid and does not pass the goal.       *)
LEMMA SlewStepBetween ==
  ASSUME NEW from \in Int, NEW to \in Int, NEW s \in Nat, NEW q \in Nat \ {0},
         OnGrid(from, q)
  PROVE  /\ OnGrid(SlewStep(from, to, s, q), q)
         /\ Between(from, SlewStep(from, to, s, q), Quantize(to, q))
<1> DEFINE y == from + Clamp(to - from, s)
<1>1. y \in Int /\ (from <= to => from <= y /\ y <= to) /\ (to <= from => to <= y /\ y <= from)
  BY DEF Clamp
<1>2. SlewStep(from, to, s, q) = Quantize(y, q)
  BY DEF SlewStep
<1> HIDE DEF y
<1>3. Quantize(from, q) = from
  BY QuantizeGrid
<1>4. from <= to => from <= Quantize(y, q) /\ Quantize(y, q) <= Quantize(to, q)
  BY <1>1, <1>3, QuantizeMonotone
<1>5. to <= from => Quantize(to, q) <= Quantize(y, q) /\ Quantize(y, q) <= from
  BY <1>1, <1>3, QuantizeMonotone
<1>6. OnGrid(Quantize(y, q), q)
  BY <1>1, QuantizeOnGrid
<1> QED
  BY <1>2, <1>4, <1>5, <1>6 DEF Between

(* A slew limit of more than half a quantum (1500 and 300 by default) does  *)
(* not let rounding swallow a step: each one either reaches the goal or     *)
(* comes at least a quantum nearer.                                         *)
LEMMA RampGetsNearer ==
  ASSUME NEW from \in Int, NEW to \in Int, NEW s \in Nat, NEW q \in Nat \ {0},
         OnGrid(from, q), q < 2 * s
  PROVE  LET step == SlewStep(from, to, s, q)
             goal == Quantize(to, q)
         IN  step = goal \/ Abs(goal - step) + q <= Abs(goal - from)
<1> DEFINE c == Clamp(to - from, s)
           y == from + c
           step == Quantize(y, q)
           goal == Quantize(to, q)
<1>1. SlewStep(from, to, s, q) = step
  BY DEF SlewStep
<1>2. c \in Int /\ y \in Int
  BY DEF Clamp
<1>3. step \in Int /\ goal \in Int /\ 2 * Abs(step - y) <= q
  BY <1>2, QuantizeNear
<1>4. Between(from, step, goal) /\ OnGrid(step, q)
  BY <1>1, SlewStepBetween
<1>5. c = to - from \/ c = s \/ c = -s
  BY DEF Clamp
<1>6. CASE c = to - from
  BY <1>1, <1>6
<1>7. CASE c = s \/ c = -s
  <2>1. step # from
    <3> HIDE DEF step
    <3>1. y = from + s \/ y = from - s
      BY <1>7
    <3> QED
      BY <1>2, <1>3, <3>1 DEF Abs
  <2>2. PICK a \in Int : from = a * q
    BY DEF OnGrid
  <2>3. PICK b \in Int : step = b * q
    BY <1>4 DEF OnGrid
  <2>4. from + q <= step \/ step + q <= from
    <3>1. a * q < b * q \/ b * q < a * q
      <4> HIDE DEF step
      <4> QED
        BY <1>3, <2>1, <2>2, <2>3
    <3>2. a * q + q <= b * q \/ b * q + q <= a * q
      BY <3>1, GridGap
    <3> QED
      BY <2>2, <2>3, <3>2
  <2> HIDE DEF step, goal
  <2>5. Abs(goal - step) + q <= Abs(goal - from)
    BY <1>3, <1>4, <2>4 DEF Abs, Between
  <2> QED
    BY <1>1, <2>5 DEF step, goal
<1> QED
  BY <1>5, <1>6, <1>7
=============================================================================
