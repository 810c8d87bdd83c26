------------------------------ MODULE MediaTicks ------------------------------
(***************************************************************************)
(* The clock that times every tick (core/MediaClock): the instant of a     *)
(* tick, the tick of an instant and the length of a frame, in whole        *)
(* nanoseconds, C++ division truncating towards zero.                      *)
(***************************************************************************)
EXTENDS Integers

CONSTANTS Second,   \* kNsPerSec: any number well above the frame rates does
          Rates,    \* frame rates <<fpsN, fpsD>>
          Origin,   \* originNs_
          Ticks     \* bound: ticks looked at, before and after the origin

ClockAssumption ==
  /\ Second \in Nat \ {0} /\ Origin \in Int /\ Ticks \in Nat
  /\ \A r \in Rates : r[2] \in Nat \ {0} /\ r[1] \in 1 .. Second * r[2]

Magnitude(a) == IF a < 0 THEN -a ELSE a

\* a / b and a % b of C++, b positive.
Quotient(a, b) == IF a < 0 THEN -(Magnitude(a) \div b) ELSE a \div b
Remainder(a, b) == a - b * Quotient(a, b)

NsForTick(r, n) ==
  Origin + Quotient(n, r[1]) * r[2] * Second
         + Quotient(Remainder(n, r[1]) * r[2] * Second, r[1])

\* The floor of the exact quotient, before the origin too.
FloorTick(r, ns) == ((ns - Origin) * r[1]) \div (r[2] * Second)

\* Settled against NsForTick, which has truncated: up while the next tick is due,
\* then down while this one is not.
Settled(r, ns) ==
  LET t == FloorTick(r, ns)
      up == CHOOSE k \in 0 .. 2 : ~(NsForTick(r, t + k + 1) <= ns)
                                  /\ \A j \in 0 .. k - 1 : NsForTick(r, t + j + 1) <= ns
      down == CHOOSE k \in 0 .. 2 : ~(NsForTick(r, t + up - k) > ns)
                                    /\ \A j \in 0 .. k - 1 : NsForTick(r, t + up - j) > ns
  IN t + up - down

TickForNs(r, ns) == Settled(r, ns)

FrameDurationNs(r) == (r[2] * Second + r[1] \div 2) \div r[1]

---------------------------------------------------------------------------
\* The clock agrees with itself: a tick is the tick of the instant it is due at, the
\* instants of the ticks grow by the length of a frame to within one nanosecond, and
\* an instant belongs to the tick that was due last, before the origin as after it.
\* Otherwise a tick would be rendered twice or passed over (MediaClock::nsForTick,
\* tickForNs, frameDurationNs).
TicksTileTime ==
  \A r \in Rates : \A n \in -Ticks .. Ticks :
    LET at == NsForTick(r, n)  next == NsForTick(r, n + 1)
    IN /\ TickForNs(r, at) = n
       /\ TickForNs(r, next - 1) = n
       /\ Magnitude((next - at) - FrameDurationNs(r)) <= 1
=============================================================================
