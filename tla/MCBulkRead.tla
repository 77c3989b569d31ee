----------------------------- MODULE MCBulkRead -----------------------------
(***************************************************************************)
(* BulkRead with the registers of the program.                             *)
(***************************************************************************)
EXTENDS BulkRead

Program == {ReadUnitSnapshot, ReadAllSettings, ReadUnitInfo}

\* A unit has all optional registers, or those of the first firmware.
MCModels ==
  LET polled == BatteryData \o InverterData \o Statistics \o BatterySettings
                  \o TimedChargeDischarge \o InverterSettings
  IN  {{}, {r.at : r \in {q \in ToSet(polled) : q.optional}}}
=============================================================================
