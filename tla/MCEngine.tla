------------------------------ MODULE MCEngine ------------------------------
(***************************************************************************)
(* Engine on a contract of two packs and a clock of a few ticks.  The      *)
(* inputs are one good reading per stage and every single defect a gate or *)
(* a threshold looks for.                                                  *)
(***************************************************************************)
EXTENDS Engine

CONSTANT LastInstant

MCInstants  == 1 .. LastInstant
MCAddresses == {0, 1}
MCIds       == {"b0", "b1"}

GoodPack(a) ==
  [addr |-> a, id |-> IF a = 0 THEN "b0" ELSE "b1", fresh |-> TRUE, age |-> MaxTelemetryAge,
   confirmed |-> a = 0, settingsFresh |-> TRUE, balanceAge |-> 0,
   protectionAge |-> MaxSettingsAge, contract |-> TRUE, alarmsClear |-> TRUE,
   lo |-> 3400, hi |-> 3420]

Reading(volts, amps) ==
  [valid |-> TRUE, finite |-> TRUE, age |-> MaxInverterAge, volts |-> volts, amps |-> amps]

Good(volts) == [packs |-> <<GoodPack(0), GoodPack(1)>>, inverter |-> Reading(volts, 10)]

WithPack(in, field, value)     == [in EXCEPT !.packs[1] = [@ EXCEPT ![field] = value]]
WithInverter(in, field, value) == [in EXCEPT !.inverter = [@ EXCEPT ![field] = value]]

\* Readings on and off the band of each stage, the edges of the band included.
Voltages == {5430, 5440, 5450, 5470, 5480, 5520, 5530, 5300}

\* Valid inputs that hold a stage or reset the tail.
Holding ==
  {WithPack(Good(v), "hi", hi) : v \in {5440, 5480, 5520}, hi \in {3430, 3431, 3421}}
    \cup {WithPack(Good(5520), "lo", 3399)}
    \cup {WithInverter(Good(5520), "amps", a) : a \in {-1, 0, 11}}

\* One defect per gate.
Defective ==
  LET g == Good(5440) IN
  {WithPack(g, f, FALSE) : f \in {"fresh", "confirmed", "settingsFresh", "contract", "alarmsClear"}}
    \cup {WithPack(g, f, x) : f \in {"age", "balanceAge", "protectionAge"}, x \in {-1, 4}}
    \cup {WithPack(g, "addr", a) : a \in {1, 8}}
    \cup {WithPack(g, "id", i) : i \in {NoId, "b1"}}
    \cup {WithPack(g, "hi", 3550), WithPack(g, "lo", 999)}
    \cup {WithInverter(g, f, FALSE) : f \in {"valid", "finite"}}
    \cup {WithInverter(g, "age", 2), WithInverter(g, "age", -1), WithInverter(g, "volts", 0)}
    \cup {[g EXCEPT !.packs = <<@[1]>>]}

MCInputs == {Good(v) : v \in Voltages} \cup Holding \cup Defective
=============================================================================
