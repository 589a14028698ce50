----------------------------- MODULE LightScales -----------------------------
(***************************************************************************)
(* The conversions between Home Assistant's scales and a light's: plain    *)
(* functions of numbers, shared by every path a value takes.  C's integer  *)
(* division is \div here, as none of the quotients is negative.            *)
(***************************************************************************)
EXTENDS Integers

CONSTANTS
  FullScale,   \* the largest uint16_t, 65535
  Percent      \* the largest cover position, 100

ASSUME ScaleAssumption ==
  /\ FullScale \in Nat /\ FullScale % 2 = 1
  /\ Percent \in 1 .. FullScale

LeastOf(a, b) == IF a <= b THEN a ELSE b
GreatestOf(a, b) == IF a >= b THEN a ELSE b

\* A node can report a degenerate range.
map(x, inMin, inMax, outMin, outMax) ==
  IF inMax = inMin THEN outMin
  ELSE ((x - inMin) * (outMax - outMin)) \div (inMax - inMin) + outMin

\* Brightness to the HSL lightness that is sent: the pure colour is at half of the scale.
HslLightness(l, max) == IF max > 0 THEN (l * (max \div 2)) \div max ELSE l

\* hsl_lightness_to_brightness: and back.
Brightness(h, max) ==
  LET half == max \div 2
  IN IF half = 0 THEN h ELSE LeastOf((h * max + half \div 2) \div half, max)

\* The range of a Generic Level, and cover positions on it.
LevelMax == FullScale \div 2
LevelMin == -LevelMax - 1
PositionToLevel(p) == map(LeastOf(GreatestOf(p, 0), Percent), 0, Percent, LevelMin, LevelMax)

LevelToPosition(v) == map(v, LevelMin, LevelMax, 0, Percent)
=============================================================================
