---------------------------- MODULE TimeDisplay -----------------------------
(***************************************************************************)
(* What Display for Time prints (src/src/time/primitives.rs).  Hours,      *)
(* minutes and seconds are u64; the milliseconds are an f64, obtained by   *)
(* two roundings and printed with three digits, which is a third one.      *)
(*                                                                         *)
(* Its numbers exceed the integers of TLC: this module is proved about     *)
(* (module UnitsProofs) and not model-checked.                             *)
(***************************************************************************)
EXTENDS Units

(* a / b rounded to an integer, a half to the even one.                    *)
Nearest(a, b) ==
  LET below == a \div b
      twice == 2 * (a % b)
  IN  IF twice < b \/ (twice = b /\ below % 2 = 0) THEN below ELSE below + 1

(* 2^62: the f64 of this module are multiples of 1 / Fraction.             *)
Fraction == 4611686018427387904

(* The powers of two up to 2^64.                                           *)
PowersOfTwo ==
  {g \in 1 .. Fraction : Fraction % g = 0} \cup {2 * Fraction, 4 * Fraction}

(* 2^53: an f64 has 53 binary digits.                                      *)
Significands == 9007199254740992

(* The distance of the doubles around a / b.                               *)
Ulp(a, b) ==
  LET coarse == {g \in PowersOfTwo : a < b * g * Significands}
  IN  CHOOSE g \in coarse : \A other \in coarse : g <= other

(* a / b rounded to the nearest f64.                                       *)
Float(a, b) == Ulp(a, b) * Nearest(a, b * Ulp(a, b))

(* as_millis_f64, a multiple of 1 / Fraction: (micros as f64) / 1000.0.    *)
as_millis_f64(micros) == Float(Float(micros, 1) * Fraction, 1000)

(* The fields that are printed; millis counts thousandths of a millisecond.*)
Shown(micros) ==
  LET hrs == to_hours(micros)
      minutes == Sub(to_minutes(micros), Wrap(hrs * 60))
  IN  [hrs |-> hrs,
       minutes |-> minutes,
       secs |-> Sub(Sub(to_seconds(micros), Wrap(minutes * 60)),
                    Wrap(Wrap(hrs * 60) * 60)),
       millis |-> Nearest((as_millis_f64(micros) % (1000 * Fraction)) * 1000,
                          Fraction)]
=============================================================================
