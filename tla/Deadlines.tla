------------------------------- MODULE Deadlines -------------------------------
(***************************************************************************)
(* Points in time, durations and deadlines (time.h, time.cpp), and what    *)
(* the timed wait of the condition of Windows makes of a deadline          *)
(* (win32/w32_thread.cpp).                                                 *)
(*                                                                         *)
(* Points are unsigned and durations signed integers of the same width;    *)
(* DWORD, what a Windows wait takes, is narrower.                          *)
(***************************************************************************)
EXTENDS Integers

CONSTANTS Modulus,          \* 2^64: of time_uint and time_int
          Resolution,       \* 1000: units in a second
          DwordModulus      \* 2^32

\* A wait that fits into a DWORD can be multiplied by 1000.
TimeAssumption ==
    /\ Modulus \in Nat \ {0} /\ Modulus % 2 = 0
    /\ Resolution \in Nat \ {0}
    /\ DwordModulus \in Nat \ {0} /\ DwordModulus * Resolution <= Modulus \div 2

Stamps == 0 .. Modulus - 1
Durations == -(Modulus \div 2) .. Modulus \div 2 - 1
Unsigned(n) == n % Modulus
Signed(n) == IF n % Modulus < Modulus \div 2 THEN n % Modulus ELSE (n % Modulus) - Modulus

\* Division of C++ rounds to zero.
Divide(n, d) == IF n >= 0 THEN n \div d ELSE -((-n) \div d)
Remainder(n, d) == n - d * Divide(n, d)

----------------------------------------------------------------------------
\* time_stamp - time_stamp, time_stamp + time_duration, time_stamp - time_duration
Difference(a, b) == Signed(IF a > b THEN Unsigned(a - b) ELSE Unsigned(-Unsigned(b - a)))
Later(t, d) == Unsigned(t + d)
Earlier(t, d) == Unsigned(t - d)

Seconds(n) == Divide(n, Resolution)
FromSeconds(s) == Signed(s * Resolution)
Scaled(d, k) == Signed(d * k)

\* to_milliseconds multiplies before it divides, although a unit is a millisecond: the integer
\* wraps in the last thousandth of the range.
Milliseconds(product) == Divide(product, Resolution)

\* operator<<: whole seconds and the positive fraction. A duration between -1 s and 0 loses its
\* sign, as the whole seconds of it are 0.
PrintedStamp(t) == [seconds |-> Seconds(t), fraction |-> Milliseconds(Unsigned(t * Resolution)) % Resolution]
PrintedDuration(d) ==
    LET fraction == Remainder(Milliseconds(Signed(d * Resolution)), Resolution)
    IN  [seconds |-> Seconds(d), fraction |-> IF fraction < 0 THEN -fraction ELSE fraction]

----------------------------------------------------------------------------
(* deadline                                                                *)

Infinity == Modulus - 1
Absolute(t) == t
Relative(d, now) == Later(now, d)
IsInfinite(dl) == dl = Infinity
TimeLeft(dl, now) == Difference(dl, now)
MillisecondsLeft(dl, now) == Milliseconds(Signed(TimeLeft(dl, now) * Resolution))

\* Fault: the infinite deadline is not told apart.
WaitTimeAlways(dl, now) == MillisecondsLeft(dl, now) % DwordModulus
\* condition::timed_wait of Windows: what WaitForSingleObject is given; INFINITE is the
\* largest DWORD.
WaitInfinite == DwordModulus - 1
WaitTime(dl, now) == IF IsInfinite(dl) THEN WaitInfinite ELSE MillisecondsLeft(dl, now) % DwordModulus

----------------------------------------------------------------------------
\* The arithmetic of points and durations is consistent across the wrap of its integers: what
\* is added can be measured and taken away again, the difference has the sign of the order
\* unless it is too large for a duration, and seconds convert both ways.
TimeIsConsistent(t, u, d) ==
    /\ Difference(Later(t, d), t) = d
    /\ Earlier(Later(t, d), d) = t
    /\ Later(u, Difference(t, u)) = t
    /\ (t - u \in Durations) => Difference(t, u) = t - u
    /\ Difference(Later(Later(t, d), d), t) = Scaled(d, 2)
    /\ FromSeconds(Seconds(d)) + Remainder(d, Resolution) = d
    /\ t * Resolution < Modulus => PrintedStamp(t).seconds * Resolution + PrintedStamp(t).fraction = t
    /\ d * Resolution \in Durations =>
       LET p == PrintedDuration(d)
           magnitude == (IF p.seconds < 0 THEN -p.seconds ELSE p.seconds) * Resolution + p.fraction
       IN  /\ magnitude = (IF d < 0 THEN -d ELSE d)
           /\ p.seconds < 0 => d < 0
           /\ d <= -Resolution => p.seconds < 0

\* A wait on Windows is given exactly the time that is left, when the deadline has not passed and
\* the duration fits into a DWORD, and the wait until the infinite deadline is unlimited. Of a
\* deadline that has passed nothing is said, nor of the waits of POSIX: the code gets them wrong.
WaitIsWhatIsLeft(now, d, later) ==
    LET dl == Relative(d, now)
        left == d - later
    IN  (d \in 0 .. DwordModulus - 2 /\ later \in 0 .. d /\ now + d < Infinity) =>
            /\ WaitTime(dl, Later(now, later)) = left
            /\ WaitTime(Infinity, now) = WaitInfinite
================================================================================
