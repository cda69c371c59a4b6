------------------------------ MODULE StormRisk ------------------------------
(***************************************************************************)
(* The rule-based risk engine (backend/engine/risk/engine.py with          *)
(* engine/config.py, app/core/thresholds.py and the severity buckets of    *)
(* engine/detection/detector.py): what a storm cell, as seen from one      *)
(* location, amounts to.                                                   *)
(*                                                                         *)
(* The engine computes fractions in floating point.  Here a fraction is a  *)
(* number of 1/Unit's, Unit being large enough for every product below to  *)
(* be an integer, so the arithmetic is exact.  The engine's sums may fall  *)
(* a rounding error short of a threshold they equal exactly.               *)
(***************************************************************************)
EXTENDS Integers

Unit == 2640000

Unknown == -1   \* None, for a number

\* A cell below 35 dBZ is not detected.
MinReflectivity == 35

\* A storm cell as one location sees it: km, dBZ, km/h, minutes.
Reading == [distance : Nat, dbz : {n \in Nat : n >= MinReflectivity},
            speed : Nat \cup {Unknown}, eta : Nat \cup {Unknown}]

\* RiskLevel by rank: green, yellow, orange, red.
RiskLevels == 0 .. 3
Hazards == {"rain", "wind", "hail", "lightning"}

\* classify_severity and StormRiskEngine._intensity, in percent.
Intensity(dbz) == IF dbz >= 55 THEN 100
                  ELSE IF dbz >= 50 THEN 75
                  ELSE IF dbz >= 40 THEN 50
                  ELSE 20

Least(a, b) == IF a <= b THEN a ELSE b
Proximity(x) == IF x.distance < 120 THEN 120 - x.distance ELSE 0        \* of 120 km
Imminence(x) == IF x.eta = Unknown \/ x.eta >= 60 THEN 0 ELSE 60 - x.eta \* of 60 min
WindSpeed(x) == IF x.speed = Unknown THEN 0 ELSE Least(x.speed, 80)      \* of 80 km/h

\* intensity * (0.5 + 0.5 closeness), * (0.4 + 0.6 wind), * hail base,
\* * (0.6 + 0.4 closeness).
Risk(x) == [rain |-> Intensity(x.dbz) * (13200 + 110 * Proximity(x)),
            wind |-> Intensity(x.dbz) * (10560 + 198 * WindSpeed(x)),
            hail |-> Intensity(x.dbz) * 480 * Least(x.dbz, 55),
            lightning |-> Intensity(x.dbz) * (15840 + 88 * Proximity(x))]

\* The weighted score, 0.6 hazard + 0.2 proximity + 0.2 imminence, tenfold.
Reaches(x, percent) ==
    \E h \in Hazards :
        6 * Risk(x)[h] + 44000 * Proximity(x) + 88000 * Imminence(x) >= percent * (Unit \div 10)

\* RiskScoreThresholds.classify
Level(x) == IF Reaches(x, 65) THEN 3
            ELSE IF Reaches(x, 40) THEN 2
            ELSE IF Reaches(x, 18) THEN 1
            ELSE 0

\* active_hazards: at least 0.5 once rounded to two decimals.
ActiveHazards(x) == {h \in Hazards : 200 * Risk(x)[h] > 99 * Unit}
=============================================================================
