---------------------------- MODULE UnitsProofs -----------------------------
(***************************************************************************)
(* What the conversions of Units and TimeDisplay compute: which            *)
(* intermediate sums, differences and products wrap, and up to which value *)
(* the rounding of the f64 does not show.                                  *)
(***************************************************************************)
EXTENDS TimeDisplay, DataLemmas

(* A value that fits is left alone.                                        *)
LEMMA WrapFits ==
  ASSUME NEW x \in Nat, x < Word
  PROVE  Wrap(x) = x
BY SMT, WordAssumption DEF Wrap

LEMMA WrapInRange ==
  ASSUME NEW x \in Int
  PROVE  Wrap(x) \in U64
BY SMT, WordAssumption DEF Wrap, U64

(* Hours, minutes and seconds of a u64 are what is left of the seconds.    *)
LEMMA Decomposition ==
  ASSUME NEW u \in Nat
  PROVE  /\ to_hours(u) \in Nat
         /\ to_minutes(u) \in Nat
         /\ to_seconds(u) \in Nat
         /\ to_hours(u) * 60 <= to_minutes(u)
         /\ to_minutes(u) - to_hours(u) * 60 < 60
         /\ to_minutes(u) * 60 <= to_seconds(u)
         /\ to_seconds(u) - to_minutes(u) * 60 < 60
         /\ to_seconds(u) * 1000000 <= u
         /\ u - to_seconds(u) * 1000000 = u % 1000000
BY SMT DEF to_hours, to_minutes, to_seconds

(***************************************************************************)
(* Display for Time, for every value of the counter: none of the four      *)
(* differences falls below zero, minutes and seconds are below 60, and     *)
(* hours, minutes and seconds add up to the whole seconds of the time.     *)
(* (DisplayExact is about the milliseconds.)                               *)
(***************************************************************************)
THEOREM TimeShown ==
  ASSUME NEW u \in U64
  PROVE  LET s == Shown(u)
         IN  /\ s.minutes \in 0 .. 59
             /\ s.secs \in 0 .. 59
             /\ (s.hrs * 60 + s.minutes) * 60 + s.secs = to_seconds(u)
<1> DEFINE h == to_hours(u)
           m == to_minutes(u)
           s == to_seconds(u)
<1>1. u \in Nat /\ u < Word /\ Word \in Nat
  BY SMT, WordAssumption DEF U64
<1>2. /\ h \in Nat /\ m \in Nat /\ s \in Nat
      /\ h * 60 <= m /\ m - h * 60 < 60
      /\ m * 60 <= s /\ s - m * 60 < 60
      /\ s * 1000000 <= u /\ u - s * 1000000 = u % 1000000
  BY SMT, <1>1, Decomposition
<1> HIDE DEF h, m, s
<1>3. h * 60 < Word /\ m < Word /\ s < Word
  BY SMT, <1>1, <1>2
<1>4. Wrap(h * 60) = h * 60
  BY SMT, <1>1, <1>2, <1>3, WrapFits
<1>5. Sub(m, Wrap(h * 60)) = m - h * 60
  <2>1. m - h * 60 \in Nat /\ m - h * 60 < Word
    BY SMT, <1>1, <1>2, <1>3
  <2> QED BY SMT, <2>1, <1>4, WrapFits DEF Sub
<1>6. Wrap((m - h * 60) * 60) = (m - h * 60) * 60
  <2>1. (m - h * 60) * 60 \in Nat /\ (m - h * 60) * 60 <= s
    BY SMT, <1>2
  <2> QED BY SMT, <2>1, <1>1, <1>2, <1>3, WrapFits
<1>7. Sub(s, (m - h * 60) * 60) = s - (m - h * 60) * 60
  <2>1. /\ s - (m - h * 60) * 60 \in Nat
        /\ s - (m - h * 60) * 60 < Word
    BY SMT, <1>1, <1>2, <1>3
  <2> QED BY SMT, <2>1, WrapFits DEF Sub
<1>8. Wrap(Wrap(h * 60) * 60) = h * 3600
  <2>1. h * 60 * 60 \in Nat /\ h * 60 * 60 <= s /\ h * 60 * 60 = h * 3600
    BY SMT, <1>2
  <2> QED BY SMT, <2>1, <1>1, <1>2, <1>3, <1>4, WrapFits
<1>9. Sub(s - (m - h * 60) * 60, h * 3600) = s - m * 60
  <2>1. (s - (m - h * 60) * 60) - h * 3600 = s - m * 60
    BY SMT, <1>2
  <2>2. s - m * 60 \in Nat /\ s - m * 60 < Word
    BY SMT, <1>1, <1>2, <1>3
  <2> QED BY SMT, <2>1, <2>2, WrapFits DEF Sub
<1>10. /\ Shown(u).hrs = h
       /\ Shown(u).minutes = m - h * 60
       /\ Shown(u).secs = s - m * 60
  BY SMT, <1>5, <1>6, <1>7, <1>8, <1>9 DEF Shown, h, m, s
<1>11. (h * 60 + (m - h * 60)) * 60 + (s - m * 60) = s
  BY SMT, <1>2
<1> QED BY SMT, <1>2, <1>10, <1>11 DEF s

-----------------------------------------------------------------------------
(* The milliseconds.                                                       *)

(* Rounding is off by at most a half, and exact when there is nothing to   *)
(* round.                                                                  *)
LEMMA NearestIsClose ==
  ASSUME NEW a \in Nat, NEW b \in Nat \ {0}
  PROVE  /\ Nearest(a, b) \in Nat
         /\ 2 * (Nearest(a, b) * b - a) <= b
         /\ 2 * (a - Nearest(a, b) * b) <= b
<1> DEFINE k == a \div b
           r == a % b
<1>1. k \in Nat /\ r \in Nat /\ r < b /\ a = b * k + r
  BY SMT
<1>2. Nearest(a, b) = IF 2 * r < b \/ (2 * r = b /\ k % 2 = 0) THEN k ELSE k + 1
  BY DEF Nearest
<1> HIDE DEF k, r
<1>3. CASE Nearest(a, b) = k /\ 2 * r <= b
  BY SMT, <1>1, <1>3
<1>4. CASE Nearest(a, b) = k + 1 /\ 2 * r >= b
  <2>1. (k + 1) * b = b * k + b
    BY SMT, <1>1
  <2> QED BY SMT, <1>1, <1>4, <2>1
<1> QED BY SMT, <1>1, <1>2, <1>3, <1>4

LEMMA NearestIsUnique ==
  ASSUME NEW a \in Nat, NEW b \in Nat \ {0}, NEW n \in Nat,
         2 * (n * b - a) < b, 2 * (a - n * b) < b
  PROVE  Nearest(a, b) = n
<1> DEFINE m == Nearest(a, b)
<1>1. m \in Nat /\ 2 * (m * b - a) <= b /\ 2 * (a - m * b) <= b
  BY NearestIsClose
<1> HIDE DEF m
<1>2. m * b - n * b < b /\ n * b - m * b < b
  BY SMT, <1>1
<1>3. m * b - n * b = (m - n) * b
  BY SMT, <1>1
<1>4. ~(m - n >= 1)
  BY SMT, <1>1, <1>2, <1>3
<1>5. ~(m - n <= -1)
  BY SMT, <1>1, <1>2, <1>3
<1> QED BY SMT, <1>1, <1>4, <1>5 DEF m

(* All that is needed to know of the format: the finest fraction is a      *)
(* power of two that is a multiple of 2^10.                                *)
LEMMA Format ==
  /\ Fraction \in Nat \ {0}
  /\ Fraction % 1024 = 0
  /\ Significands \in Nat \ {0}
BY SMT DEF Fraction, Significands

LEMMA PowersOfTwoType ==
  /\ PowersOfTwo \subseteq Nat \ {0}
  /\ \A h \in Nat \ {0} :
       h <= Fraction => (h \in PowersOfTwo <=> Fraction % h = 0)
BY SMT, Format DEF PowersOfTwo

(* The distance of the doubles around a / b is at most a power of two that *)
(* is large enough for 53 digits.                                          *)
LEMMA UlpIsLeast ==
  ASSUME NEW a \in Nat, NEW b \in Nat \ {0},
         NEW h \in PowersOfTwo, a < b * h * Significands
  PROVE  Ulp(a, b) \in PowersOfTwo /\ Ulp(a, b) <= h
<1> DEFINE coarse == {g \in PowersOfTwo : a < b * g * Significands}
<1>1. coarse \subseteq Nat /\ coarse \subseteq PowersOfTwo /\ h \in coarse
  BY PowersOfTwoType
<1>2. Ulp(a, b) = CHOOSE g \in coarse : \A other \in coarse : g <= other
  BY DEF Ulp
<1> HIDE DEF coarse
<1>3. PICK m \in coarse : \A n \in coarse : m <= n
  BY <1>1, NatSetMin
<1>4. Ulp(a, b) \in coarse /\ \A other \in coarse : Ulp(a, b) <= other
  BY <1>2, <1>3, Zenon
<1> QED BY <1>1, <1>4

(* An integer below 2^53 is an f64.                                        *)
LEMMA FloatOfInteger ==
  ASSUME NEW u \in Nat, u < Significands
  PROVE  Float(u, 1) = u
<1>1. 1 \in PowersOfTwo
  BY SMT, Format, PowersOfTwoType
<1>2. u < 1 * 1 * Significands
  BY SMT, Format
<1>3. Ulp(u, 1) \in PowersOfTwo /\ Ulp(u, 1) <= 1
  BY <1>1, <1>2, UlpIsLeast
<1>4. Ulp(u, 1) = 1
  <2>1. Ulp(u, 1) \in Nat \ {0}
    BY <1>3, PowersOfTwoType
  <2> QED BY SMT, <1>3, <2>1
<1>5. Nearest(u, 1) = u
  BY SMT, NearestIsUnique
<1> QED BY SMT, <1>4, <1>5 DEF Float

(* Below 2^43 milliseconds their f64 is less than half a microsecond off,  *)
(* and exact when they are a whole number.                                 *)
LEMMA MillisAreClose ==
  ASSUME NEW u \in Nat, 1024 * u < 1000 * Significands
  PROVE  /\ as_millis_f64(u) \in Nat
         /\ 2 * (as_millis_f64(u) * 1000 - u * Fraction) < Fraction
         /\ 2 * (u * Fraction - as_millis_f64(u) * 1000) < Fraction
         /\ \A n \in Nat : u = 1000 * n => as_millis_f64(u) = n * Fraction
<1> DEFINE a == u * Fraction
           g == Ulp(a, 1000)
           c == 1000 * g
           N == Nearest(a, c)
<1> USE Format
<1>1. PICK h \in Nat \ {0} : Fraction = 1024 * h
  <2>1. Fraction = 1024 * (Fraction \div 1024) /\ Fraction \div 1024 \in Nat \ {0}
    BY SMT
  <2> QED BY <2>1
<1>2. h \in PowersOfTwo
  <2>1. h <= Fraction /\ Fraction % h = 0
    BY SMT, <1>1
  <2> QED BY <2>1, PowersOfTwoType
<1>3. a \in Nat /\ a < 1000 * h * Significands
  <2>1. u * Fraction = h * (1024 * u)
    BY SMT, <1>1
  <2>2. h * (1024 * u) < h * (1000 * Significands)
    BY SMT, <1>1
  <2>3. h * (1000 * Significands) = 1000 * h * Significands
    BY SMT, <1>1
  <2> QED BY SMT, <2>1, <2>2, <2>3
<1>4. g \in PowersOfTwo /\ g <= h
  <2> HIDE DEF a
  <2> QED BY <1>2, <1>3, UlpIsLeast
<1>5. g \in Nat \ {0} /\ Fraction % g = 0
  <2> HIDE DEF g
  <2>1. g \in Nat \ {0}
    BY <1>4, PowersOfTwoType
  <2>2. g <= Fraction
    BY SMT, <1>1, <1>4, <2>1
  <2> QED BY <1>4, <2>1, <2>2, PowersOfTwoType
<1>6. PICK j \in Nat : Fraction = g * j
  <2> HIDE DEF g
  <2>1. Fraction = g * (Fraction \div g) /\ Fraction \div g \in Nat
    BY SMT, <1>5
  <2> QED BY <2>1
<1>7. as_millis_f64(u) = g * N
  <2>1. Float(u, 1) = u
    <3>1. u < Significands
      BY SMT
    <3> QED BY <3>1, FloatOfInteger
  <2> QED BY <2>1 DEF as_millis_f64, Float
<1>8. c \in Nat \ {0} /\ c < Fraction
  <2> HIDE DEF g
  <2> QED BY SMT, <1>1, <1>4, <1>5
<1>9. N \in Nat /\ 2 * (N * c - a) <= c /\ 2 * (a - N * c) <= c
  <2> HIDE DEF a, c
  <2> QED BY <1>3, <1>8, NearestIsClose
<1>10. (g * N) * 1000 = N * c /\ g * N \in Nat
  <2> HIDE DEF g, N
  <2> QED BY SMT, <1>5, <1>9
<1>11. ASSUME NEW n \in Nat, u = 1000 * n
       PROVE  g * N = n * Fraction
  <2>1. n * j \in Nat
    BY SMT
  <2>2. (n * j) * c = a
    <3> HIDE DEF g
    <3>1. (n * j) * (1000 * g) = (1000 * n) * (g * j)
      BY SMT, <1>5
    <3> QED BY <1>6, <1>11, <3>1
  <2>3. N = n * j
    <3> HIDE DEF a, c
    <3>1. (n * j) * c - a = 0 /\ a - (n * j) * c = 0
      BY SMT, <1>3, <2>2
    <3>2. 2 * ((n * j) * c - a) < c /\ 2 * (a - (n * j) * c) < c
      BY SMT, <1>8, <3>1
    <3> QED BY <1>3, <1>8, <2>1, <3>2, NearestIsUnique
  <2>4. g * (n * j) = n * (g * j)
    <3> HIDE DEF g
    <3> QED BY SMT, <1>5
  <2> HIDE DEF g, N
  <2> QED BY <1>6, <2>3, <2>4
<1>12. 2 * (N * c - a) < Fraction /\ 2 * (a - N * c) < Fraction
  <2> HIDE DEF N, a, c
  <2> QED BY SMT, <1>3, <1>8, <1>9
<1> QED
  <2> HIDE DEF N, c, g
  <2> QED BY <1>7, <1>10, <1>11, <1>12

LEMMA RemainderIsUnique ==
  ASSUME NEW b \in Nat \ {0}, NEW k \in Nat, NEW r \in Nat, r < b
  PROVE  (b * k + r) % b = r
<1> DEFINE a == b * k + r
           i == a \div b
           s == a % b
<1>1. a \in Nat
  BY SMT
<1>2. i \in Nat /\ s \in Nat /\ s < b /\ a = b * i + s
  <2> HIDE DEF a
  <2> QED BY SMT, <1>1
<1>3. b * (i - k) = r - s
  <2> HIDE DEF i, s
  <2>1. b * (i - k) = b * i - b * k
    BY SMT, <1>2
  <2> QED BY SMT, <1>2, <2>1
<1> HIDE DEF i, s
<1>4. ~(i - k >= 1) /\ ~(i - k <= -1)
  BY SMT, <1>2, <1>3
<1>5. i = k
  BY SMT, <1>2, <1>4
<1> QED BY SMT, <1>2, <1>3, <1>5 DEF s

LEMMA Microseconds ==
  ASSUME NEW u \in Nat
  PROVE  /\ u \div 1000000 \in Nat
         /\ u % 1000000 \in Nat /\ u % 1000000 < 1000000
         /\ u = 1000000 * (u \div 1000000) + (u % 1000000)
BY SMT

(* q milliseconds, in units of 1 / F, are less than half a microsecond off *)
(* t microseconds, and exact if t is a whole number of milliseconds.       *)
Close(q, t, F) ==
  /\ 2 * (q * 1000 - t * F) < F
  /\ 2 * (t * F - q * 1000) < F
  /\ \A n \in Nat : t = 1000 * n => q = n * F

(* The milliseconds within the second are as close as those of the time,   *)
(* so that printing rounds them to the microseconds within the second.     *)
LEMMA MillisOfSecond ==
  ASSUME NEW F \in Nat \ {0}, NEW q \in Nat, NEW t \in Nat, Close(q, t, F)
  PROVE  Nearest((q % (1000 * F)) * 1000, F) = t % 1000000
<1> DEFINE w == t \div 1000000
           v == t % 1000000
<1>1. w \in Nat /\ v \in Nat /\ v < 1000000 /\ t = 1000000 * w + v
  BY SMT, Microseconds
<1> HIDE DEF w, v
<1>2. PICK p \in Nat : p = F * w
  BY SMT, <1>1
<1>3. PICK x \in Nat : x = v * F
  BY SMT, <1>1
<1>4. t * F = 1000000 * p + x
  <2>1. (1000000 * w + v) * F = 1000000 * (F * w) + v * F
    BY SMT, <1>1
  <2> QED BY SMT, <1>1, <1>2, <1>3, <2>1
<1>5. x <= 999999 * F /\ (v >= 1 => x >= F) /\ (v = 0 => x = 0)
  BY SMT, <1>1, <1>3
<1>6. v = 0 => q = 1000 * p
  <2>1. 1000 * w \in Nat /\ (v = 0 => t = 1000 * (1000 * w))
    BY SMT, <1>1
  <2>2. (1000 * w) * F = 1000 * p
    BY SMT, <1>1, <1>2
  <2> QED BY SMT, <2>1, <2>2 DEF Close
<1>7. 2 * (q * 1000 - t * F) < F /\ 2 * (t * F - q * 1000) < F
  BY SMT DEF Close
<1>8. 1000 * p <= q /\ q - 1000 * p < 1000 * F
  BY SMT, <1>1, <1>4, <1>5, <1>6, <1>7
<1> DEFINE c == 1000 * F
           d == q - 1000 * p
           e == d * 1000
<1>9. q % c = d
  <2>1. q = c * w + d
    BY SMT, <1>1, <1>2
  <2>2. c \in Nat \ {0} /\ d \in Nat /\ d < c
    BY SMT, <1>8
  <2>3. w \in Nat
    BY SMT, <1>1
  <2> HIDE DEF c, d
  <2> QED BY <2>1, <2>2, <2>3, RemainderIsUnique
<1>10. Nearest(e, F) = v
  <2>1. e \in Nat /\ 2 * (e - v * F) < F /\ 2 * (v * F - e) < F
    BY SMT, <1>3, <1>4, <1>7, <1>8
  <2>2. v \in Nat
    BY SMT, <1>1
  <2> HIDE DEF e
  <2> QED BY <2>1, <2>2, NearestIsUnique
<1> QED BY SMT, <1>9, <1>10 DEF v

(***************************************************************************)
(* Below 1000 * 2^43 microseconds, 278 years, the milliseconds are printed *)
(* exactly although they are rounded three times, and all fields add up to *)
(* the time.  From there on the doubles are 2^-9 ms apart or more, and the *)
(* microseconds cannot all be told apart.                                  *)
(***************************************************************************)
THEOREM DisplayExact ==
  ASSUME NEW u \in U64, 1024 * u < 1000 * Significands
  PROVE  LET s == Shown(u)
         IN  /\ s.millis \in Nat /\ s.millis < 1000000
             /\ u = 1000000 * ((s.hrs * 60 + s.minutes) * 60 + s.secs) + s.millis
<1>1. u \in Nat
  BY SMT, WordAssumption DEF U64
<1>2. /\ u % 1000000 \in Nat /\ u % 1000000 < 1000000
      /\ u = 1000000 * to_seconds(u) + (u % 1000000)
  BY SMT, <1>1, Microseconds DEF to_seconds
<1>3. as_millis_f64(u) \in Nat /\ Close(as_millis_f64(u), u, Fraction)
  BY SMT, <1>1, MillisAreClose DEF Close
<1>4. Shown(u).millis = u % 1000000
  BY SMT, <1>1, <1>3, Format, MillisOfSecond DEF Shown
<1>5. (Shown(u).hrs * 60 + Shown(u).minutes) * 60 + Shown(u).secs = to_seconds(u)
  BY SMT, TimeShown
<1> QED BY SMT, <1>2, <1>4, <1>5

-----------------------------------------------------------------------------
(* A duration given in hours is that many hours, as long as it fits into   *)
(* the u64; so are the smaller units it is made of.                        *)
THEOREM HoursRoundTrip ==
  ASSUME NEW h \in Nat, h * 3600000000 < Word
  PROVE  from_hours(h) = h * 3600000000 /\ to_hours(from_hours(h)) = h
<1>1. /\ Wrap(60 * h) = h * 60
      /\ Wrap(h * 60 * 60) = h * 3600
      /\ Wrap(h * 3600 * 1000) = h * 3600000
      /\ Wrap(h * 3600000 * 1000) = h * 3600000000
  <2>1. /\ 60 * h \in Nat /\ 60 * h < Word /\ 60 * h = h * 60
        /\ h * 60 * 60 \in Nat /\ h * 60 * 60 < Word /\ h * 60 * 60 = h * 3600
    BY SMT, WordAssumption
  <2>2. /\ h * 3600 * 1000 \in Nat /\ h * 3600 * 1000 < Word
        /\ h * 3600 * 1000 = h * 3600000
        /\ h * 3600000 * 1000 \in Nat /\ h * 3600000 * 1000 < Word
        /\ h * 3600000 * 1000 = h * 3600000000
    BY SMT, WordAssumption
  <2> QED BY SMT, <2>1, <2>2, WrapFits
<1>2. from_hours(h) = h * 3600000000
  BY SMT, <1>1 DEF from_hours, from_minutes, from_seconds, from_millis
<1>3. (h * 3600000000) \div 1000000 = h * 3600
  BY SMT
<1>4. (h * 3600) \div (60 * 60) = h
  BY SMT
<1> QED BY SMT, <1>2, <1>3, <1>4 DEF to_hours, to_seconds

(* The time between an instant and a later one computed from it is the     *)
(* duration that was added, even if the sum wrapped.                       *)
THEOREM DifferenceOfSum ==
  ASSUME NEW t \in U64, NEW d \in U64
  PROVE  Sub(Add(t, d), t) = d
<1>1. t \in Nat /\ d \in Nat /\ t < Word /\ d < Word
  BY SMT, WordAssumption DEF U64
<1>2. CASE t + d < Word
  <2>1. Add(t, d) = t + d
    BY SMT, <1>1, <1>2, WrapFits DEF Add
  <2> QED BY SMT, <1>1, <2>1, WrapFits DEF Sub
<1>3. CASE t + d >= Word
  <2>1. Add(t, d) = t + d - Word
    BY SMT, <1>1, <1>3, WordAssumption DEF Add, Wrap
  <2>2. Add(t, d) - t = d - Word
    BY SMT, <1>1, <2>1, WordAssumption
  <2>3. (d - Word) % Word = d
    BY SMT, <1>1, WordAssumption
  <2> QED BY SMT, <2>2, <2>3 DEF Sub, Wrap
<1> QED BY SMT, <1>1, <1>2, <1>3, WordAssumption

(* The transfer time of a message is exact as long as its size times eight *)
(* million fits into a u64, which is up to 2.3 terabytes.                  *)
THEOREM DelayExact ==
  ASSUME NEW size \in Nat, NEW bandwidth \in Nat \ {0},
         size * 8000000 < Word
  PROVE  get_size_delay(size, bandwidth) = (size * 8000000) \div bandwidth
<1>1. /\ Wrap(size * 8) = size * 8
      /\ Wrap(size * 8 * 1000) = size * 8000
      /\ Wrap(size * 8000 * 1000) = size * 8000000
  <2>1. /\ size * 8 \in Nat /\ size * 8 < Word
        /\ size * 8 * 1000 \in Nat /\ size * 8 * 1000 < Word
        /\ size * 8 * 1000 = size * 8000
        /\ size * 8000 * 1000 \in Nat /\ size * 8000 * 1000 < Word
        /\ size * 8000 * 1000 = size * 8000000
    BY SMT, WordAssumption
  <2> QED BY SMT, <2>1, WrapFits
<1> QED BY SMT, <1>1 DEF get_size_delay

(* Beyond that it wraps, in a release build: a message of 2^58 bytes takes *)
(* no time at all, whatever the bandwidth.                                 *)
THEOREM HugeMessageIsFree ==
  ASSUME Word = 18446744073709551616, NEW bandwidth \in Nat \ {0}
  PROVE  get_size_delay(288230376151711744, bandwidth) = 0
<1>1. Wrap(Wrap(Wrap(288230376151711744 * 8) * 1000) * 1000) = 0
  BY SMT DEF Wrap
<1>2. 0 \div bandwidth = 0
  BY SMT
<1> QED BY SMT, <1>1, <1>2 DEF get_size_delay
=============================================================================
