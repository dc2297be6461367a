------------------------------- MODULE Units --------------------------------
(***************************************************************************)
(* The arithmetic of simulated time and of bandwidths                      *)
(* (src/src/time/primitives.rs, src/src/network/mod.rs).  A Time and a     *)
(* Duration are a u64 of microseconds.  Sums and products wrap, as in a    *)
(* release build; a debug build panics there.                              *)
(***************************************************************************)
EXTENDS Integers

CONSTANT
  Word    \* 2^64, the number of values of a u64

ASSUME WordAssumption == Word \in Nat \ {0}

U64 == 0 .. Word - 1

Wrap(x) == x % Word

from_millis(millis) == Wrap(millis * 1000)
from_seconds(seconds) == from_millis(Wrap(seconds * 1000))
from_minutes(minutes) == from_seconds(Wrap(minutes * 60))
from_hours(hours) == from_minutes(Wrap(60 * hours))
from_days(days) == from_hours(Wrap(24 * days))

to_millis(micros) == micros \div 1000
to_seconds(micros) == micros \div 1000000
to_minutes(micros) == to_seconds(micros) \div 60
to_hours(micros) == to_seconds(micros) \div (60 * 60)

(* Time + Duration, and the difference of two times.                       *)
Add(time, duration) == Wrap(time + duration)
Sub(time, other) == Wrap(time - other)

(* Bandwidth::from_megabits_per_second, in bits per second.                *)
from_megabits_per_second(mbps) == Wrap(Wrap(mbps * 1024) * 1024)
from_megabytes_per_second(mbps) == from_megabits_per_second(Wrap(8 * mbps))

(* The transfer time of a message of size bytes, in microseconds.          *)
get_size_delay(size, bandwidth) ==
  Wrap(Wrap(Wrap(size * 8) * 1000) * 1000) \div bandwidth
=============================================================================
