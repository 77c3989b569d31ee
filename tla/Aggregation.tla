---------------------------- MODULE Aggregation -----------------------------
(***************************************************************************)
(* From the registers of each unit to the one snapshot of the system:      *)
(* inverter/read.go reads the fields of a unit, inverter/aggregate.go      *)
(* combines the units.                                                     *)
(*                                                                         *)
(* A field is <<section, name>>; its value is the word of its register     *)
(* with its sign, in the steps of the register, since a scale is the same  *)
(* in every unit.  A mean is kept as [sum, of].  The words of the fault    *)
(* bits are sets of bit numbers.  The products of current and voltage      *)
(* (SignedPower, the energies and the grid's TotalPower, which are summed) *)
(* are left out.                                                           *)
(***************************************************************************)
EXTENDS Integers, Sequences, FiniteSets, FiniteSetsExt, Functions

CONSTANT Installations  \* sequences of units, as what their registers hold

VARIABLE registers      \* what the last poll read of each unit; none before the first

Phases == {"L1", "L2", "L3"}

\* Fields read with readSigned; the two temperatures of the packed register are bytes.
SignedFields ==
  ({"battery"} \X {"Current", "BMSCurrent", "BMSTemperature"})
  \cup ({"inverter"} \X {"HeatsinkTempA", "HeatsinkTempB", "HeatsinkTempC", "HeatsinkTempD"})
  \cup (Phases \X {"InverterCurrent"})
ByteFields == {"battery"} \X {"ControllerTemp", "BatteryTemp"}

\* Fields read with readU32.
WideFields ==
  {"stats"} \X {"AccumPVGeneration", "AccumLoadConsumption", "AccumBatteryCharge",
                "AccumBatteryDischarge", "AccumMainsCharge", "AccumEnergyImport"}

\* The rules of aggregateBattery, aggregatePV, aggregateLoad, aggregateGrid and so on.
Averaged ==
  ({"battery"} \X {"SOC", "Voltage", "BMSVoltage", "BMSChargeLimitVolt",
                   "BMSDischargeLimitVolt"})
  \cup ({"pv"} \X {"PV1Voltage", "PV2Voltage"})
  \cup ({"load"} \X {"DCVoltage"})
  \cup ({"grid"} \X {"Frequency"})
  \cup ({"inverter"} \X {"BusVoltage", "Frequency"})
  \cup (Phases \X {"GridVoltage", "InverterVoltage"})
Hottest ==
  ByteFields \cup {<<"battery", "BMSTemperature">>, <<"stats", "TotalRunningDays">>}
  \cup ({"inverter"} \X {"HeatsinkTempA", "HeatsinkTempB", "HeatsinkTempC", "HeatsinkTempD"})
Summed ==
  ({"battery"} \X {"Current", "TotalChargePower", "BMSChargeLimitCurr", "BMSCurrent"})
  \cup ({"pv"} \X {"PV1Power", "PV2Power", "PV1Current", "PV2Current"})
  \cup ({"load"} \X {"DCCurrent", "DCPower"})
  \cup ({"grid"} \X {"MainsChargeCurr"})
  \cup (Phases \X {"GridCurrent", "InverterCurrent", "Current", "Power", "ApparentPower",
                   "Ratio"})
  \cup ({"stats"} \X {"PVGenerationToday", "LoadConsumptionToday", "BatteryChargeToday",
                      "BatteryDischargeToday", "GridChargeToday", "EnergyImportToday",
                      "EnergyExportToday"})
  \cup WideFields
  \cup ({"PVGenHistory", "BattChargeHistory", "BattDischargeHistory", "MainsChargeHistory",
         "LoadHistory", "MainsLoadHistory"} \X {"day 1", "day 7"})
Ored == {<<"battery", "FaultAlarmBits">>} \cup ({"inverter"} \X {"FaultBits", "FaultBitsExt"})
Slots == 1..4            \* of FaultCodes

Fields == Averaged \cup Hottest \cup Summed

ASSUME RulesAreDisjoint ==
  Cardinality(Fields) = Cardinality(Averaged) + Cardinality(Hottest) + Cardinality(Summed)

\* What the registers of a unit hold: the two words of each field, zero if they cannot be
\* read, and the bits that are set in the two words of the fault bits.
UnitRegisters ==
  [ word : [Fields -> Nat \X Nat], bits : (SUBSET Nat) \X (SUBSET Nat),
    codes : [Slots -> Nat], charge : Nat, state : Nat ]

ASSUME InstallationsAssumption == Installations \subseteq Seq(UnitRegisters)
-----------------------------------------------------------------------------
Signed16(word) == IF word >= 32768 THEN word - 65536 ELSE word

\* int8(raw >> 8), int8(raw & 0xFF)
Signed8(byte) == IF byte >= 128 THEN byte - 256 ELSE byte

\* readScaled, readSigned and readU32.
ReadField(f, low, high) ==
  CASE f \in SignedFields -> Signed16(low)
    [] f = <<"battery", "ControllerTemp">> -> Signed8(low \div 256)
    [] f = <<"battery", "BatteryTemp">> -> Signed8(low % 256)
    [] f \in WideFields -> low + 65536 * high
    [] OTHER -> low

\* Bits 0..15 come from the first register, 16..31 from the second.
ReadBits(low, high) == low \cup {b + 16 : b \in high}

\* What read.go makes of the registers of one unit: word[f] holds the words of field f.
\* TotalPower and the like are computed from the fields of the same unit.
ReadUnit(r) ==
  LET v == [f \in Fields |-> ReadField(f, r.word[f][1], r.word[f][2])]
      total(name) == v[<<"L1", name>>] + v[<<"L2", name>>] + v[<<"L3", name>>]
  IN  [ value |-> v,
        bits |-> [f \in Ored |-> ReadBits(r.bits[1], r.bits[2])],
        pvTotal |-> v[<<"pv", "PV1Power">>] + v[<<"pv", "PV2Power">>],
        loadTotal |-> total("Power"),
        apparentTotal |-> total("ApparentPower"),
        codes |-> r.codes,
        charge |-> r.charge,
        state |-> r.state ]
-----------------------------------------------------------------------------
SumOver(amounts) == FoldFunction(+, 0, amounts)

\* PowerFactor of a total: TotalPower / TotalApparentPower, zero without apparent power.
PowerFactor(power, apparent) ==
  IF apparent > 0 THEN [sum |-> power, of |-> apparent] ELSE [sum |-> 0, of |-> 1]

\* Mutant: a later unit's code replaces an earlier one's.
FaultCodeLast(units, slot) == units[Len(units)].codes[slot]

\* The code of the first unit that has one in the slot.
FaultCode(units, slot) ==
  LET coded == {u \in DOMAIN units : units[u].codes[slot] # 0}
  IN  IF coded = {} THEN 0 ELSE units[Min(coded)].codes[slot]

\* The first unit that is charging, or the first one.
ChargeStatus(units) ==
  LET charging == {u \in DOMAIN units : units[u].charge # 0}
  IN  IF charging = {} THEN 0 ELSE units[Min(charging)].charge

\* The worst machine state is the highest.
MachineState(units) == Max({units[u].state : u \in DOMAIN units} \cup {0})

\* One field of several units.
Combine(f, units) ==
  LET readings == {units[u].value[f] : u \in DOMAIN units}
      total == SumOver([u \in DOMAIN units |-> units[u].value[f]])
  IN  IF f \in Hottest THEN [sum |-> Max(readings), of |-> 1]
      ELSE [sum |-> total, of |-> IF f \in Averaged THEN Len(units) ELSE 1]

\* aggregate: nothing of no unit, the unit itself of one, else field by field.  stateName
\* is the state whose name is shown, and -1 when none is.
Aggregate(units) ==
  IF Len(units) = 1
  THEN LET u == units[1]
       IN  [ value |-> [f \in Fields |-> [sum |-> u.value[f], of |-> 1]],
             bits |-> u.bits, pvTotal |-> u.pvTotal, loadTotal |-> u.loadTotal,
             apparentTotal |-> u.apparentTotal,
             factor |-> PowerFactor(u.loadTotal, u.apparentTotal),
             codes |-> u.codes, charge |-> u.charge, state |-> u.state,
             stateName |-> u.state ]
  ELSE LET value == [f \in Fields |-> Combine(f, units)]
           power == SumOver([u \in DOMAIN units |-> units[u].loadTotal])
           apparent == SumOver([u \in DOMAIN units |-> units[u].apparentTotal])
       IN  [ value |-> value,
             bits |-> [f \in Ored |-> UNION {units[u].bits[f] : u \in DOMAIN units}],
             pvTotal |-> value[<<"pv", "PV1Power">>].sum + value[<<"pv", "PV2Power">>].sum,
             loadTotal |-> power,
             apparentTotal |-> apparent,
             factor |-> PowerFactor(power, apparent),
             codes |-> [s \in Slots |-> FaultCode(units, s)],
             charge |-> ChargeStatus(units),
             state |-> MachineState(units),
             stateName |-> IF MachineState(units) = 0 THEN -1 ELSE MachineState(units) ]

Units == [u \in DOMAIN registers |-> ReadUnit(registers[u])]

AggregationInit == registers = <<>>

\* A poll reads every unit.
Poll ==
  /\ registers = <<>>
  /\ registers' \in Installations

AggregationSpec == AggregationInit /\ [][Poll]_registers
-----------------------------------------------------------------------------
Polled == registers # <<>>

\* No fault of any unit is hidden by the others, and none is invented (aggregateBattery and
\* aggregateInverter): every bit that some unit reports is in the aggregate and no other
\* is, and a slot of the fault codes is empty only if every unit's is.
FaultsNeverHidden ==
  Polled =>
    LET system == Aggregate(Units)
    IN  /\ \A f \in Ored, b \in 0..31 :
             b \in system.bits[f] <=> \E u \in DOMAIN Units : b \in Units[u].bits[f]
        /\ \A s \in Slots :
             /\ system.codes[s] = 0 => \A u \in DOMAIN Units : Units[u].codes[s] = 0
             /\ \E u \in DOMAIN Units : system.codes[s] = Units[u].codes[s]

\* The totals of the system are the totals of its own fields, phase by phase and string by
\* string, as they are in a unit (aggregateLoad sums the totals of the units, read.go
\* computes those from the phases), and no power factor exceeds one if no phase of a
\* unit draws more power than apparent power.
TotalsAgree ==
  Polled =>
    LET system == Aggregate(Units)
        phases(name) == FoldFunction(+, 0,
                          [p \in Phases |-> system.value[<<p, name>>].sum])
        whole(name) == \A p \in Phases : system.value[<<p, name>>].of = 1
    IN  /\ whole("Power") /\ system.loadTotal = phases("Power")
        /\ whole("ApparentPower") /\ system.apparentTotal = phases("ApparentPower")
        /\ system.pvTotal = system.value[<<"pv", "PV1Power">>].sum
                            + system.value[<<"pv", "PV2Power">>].sum
        /\ (\A u \in DOMAIN Units, p \in Phases :
              Units[u].value[<<p, "Power">>] <= Units[u].value[<<p, "ApparentPower">>])
           => system.factor.sum <= system.factor.of

\* What is measured by every unit of the same thing (the voltage of the shared bank, the
\* hottest heatsink) lies between the least and the greatest reading of the units, below
\* zero as well as above (the averages and the math.Max of aggregate.go).
WithinTheUnits ==
  Polled =>
    \A f \in Averaged \cup Hottest :
      LET readings == {Units[u].value[f] : u \in DOMAIN Units}
          shown == Aggregate(Units).value[f]
      IN  Min(readings) * shown.of <= shown.sum /\ shown.sum <= Max(readings) * shown.of

Reversed == [u \in DOMAIN Units |-> Units[Len(Units) + 1 - u]]

\* The order in which the units are listed does not matter, except to the charge status and
\* to which of two fault codes of the same slot is shown (aggregate.go goes through the
\* units in order, and keeps a running worst state).
OrderOfUnits ==
  Polled =>
    LET one == Aggregate(Units)
        other == Aggregate(Reversed)
    IN  /\ one.value = other.value
        /\ one.bits = other.bits
        /\ one.state = other.state
        /\ one.factor = other.factor
        /\ one.charge = 0 <=> other.charge = 0

\* What the one snapshot says of all units: their faults, and sums, means and extremes that
\* are theirs, whatever the order they are listed in.
SystemShowsUnits == FaultsNeverHidden /\ TotalsAgree /\ WithinTheUnits /\ OrderOfUnits
=============================================================================
