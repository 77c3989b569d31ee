----------------------------- MODULE SafetyGates -----------------------------
(***************************************************************************)
(* The gates every telemetry input passes before the conditioning engine   *)
(* acts on it (conditioning/engine.go, validateInverterTelemetry and       *)
(* validateInput), and the measurements the stage logic takes from it.     *)
(*                                                                         *)
(* An input is what Store.Snapshot and the inverter poll hand the engine,  *)
(* with every timestamp replaced by its age at the instant of the call     *)
(* (now minus the timestamp, negative when the timestamp is ahead of now). *)
(* Voltages of the bank are centivolts, cells are millivolts.              *)
(***************************************************************************)
EXTENDS Integers, Sequences, FiniteSets

CONSTANTS
  ExpectedAddresses,  \* the bus addresses of the contract, {0..7, 9} in the code
  BMSIds,             \* the identifiers a pack may report
  NoId,               \* settings absent, or an empty identifier
  MaxTelemetryAge, MaxSettingsAge, MaxInverterAge

ASSUME AddressesFinite == IsFiniteSet(ExpectedAddresses) /\ ExpectedAddresses # {}
ASSUME AddressesNat    == ExpectedAddresses \subseteq Nat
ASSUME NoIdIsNotAnId   == NoId \notin BMSIds
ASSUME AgesNat         == {MaxTelemetryAge, MaxSettingsAge, MaxInverterAge} \subseteq Nat

\* The fixed thresholds of conditioning/types.go.
StageTarget                     == <<5440, 5480, 5520>>
StageVoltageTolerance           == 10
MaxStageAdvanceSpreadMillivolts == 30
MaxCompletionSpreadMillivolts   == 20
MinCompletionCellMillivolts     == 3400
MaxCellVoltageCutoffMillivolts  == 3550
MaxCompletionChargeCurrentAmps  == 10

\* One entry of Input.Packs.  lo and hi are the lowest and the highest of the
\* sixteen cells; contract says that the six balance and protection settings
\* equal the expected ones, alarmsClear that both masks are zero and clear.
Pack == [addr : Nat, id : BMSIds \cup {NoId}, fresh : BOOLEAN, age : Int,
         confirmed : BOOLEAN, settingsFresh : BOOLEAN, balanceAge : Int,
         protectionAge : Int, contract : BOOLEAN, alarmsClear : BOOLEAN,
         lo : Nat, hi : Nat]

InverterTelemetry == [valid : BOOLEAN, finite : BOOLEAN, age : Int, volts : Int, amps : Int]

Input == [packs : Seq(Pack), inverter : InverterTelemetry]

-----------------------------------------------------------------------------
\* Gate 1.
ValidInverter(inv) ==
  /\ inv.valid
  /\ inv.age \in 0 .. MaxInverterAge
  /\ inv.finite
  /\ inv.volts > 0

\* Gates 3 to 8, for one pack.
ValidPack(p) ==
  /\ p.addr \in ExpectedAddresses
  /\ p.id # NoId
  /\ p.fresh
  /\ p.age \in 0 .. MaxTelemetryAge
  /\ p.addr = 0 => p.confirmed
  /\ p.settingsFresh
  /\ p.balanceAge \in 0 .. MaxSettingsAge
  /\ p.protectionAge \in 0 .. MaxSettingsAge
  /\ p.contract
  /\ p.alarmsClear

\* Gate 9.
CellsWithinBounds(p) ==
  /\ p.lo >= 1000
  /\ p.hi <= 5000
  /\ p.hi < MaxCellVoltageCutoffMillivolts

\* No two packs share an address (gate 3) or an identifier (gate 4).
DistinctPacks(packs) ==
  \A i, j \in DOMAIN packs :
    i # j => packs[i].addr # packs[j].addr /\ packs[i].id # packs[j].id

ValidInput(in) ==
  /\ ValidInverter(in.inverter)
  /\ Len(in.packs) = Cardinality(ExpectedAddresses)
  /\ DistinctPacks(in.packs)
  /\ \A i \in DOMAIN in.packs : ValidPack(in.packs[i]) /\ CellsWithinBounds(in.packs[i])

-----------------------------------------------------------------------------
\* metrics.maxSpread <= mv and metrics.minCell >= mv: the engine compares the
\* two aggregates with thresholds and uses them for nothing else.
SpreadWithin(in, mv)  == \A i \in DOMAIN in.packs : in.packs[i].hi - in.packs[i].lo <= mv
CellsAtLeast(in, mv)  == \A i \in DOMAIN in.packs : in.packs[i].lo >= mv

\* math.Abs(v - target) <= 0.10 in float64, for v the mean of two readings of
\* 0.1 V resolution.  Strictly inside the band the comparison is what it says;
\* on its edge the subtraction leaves more than the float64 nearest to 0.10
\* everywhere except at the readings of EdgeAccepted.
EdgeAccepted == {<<5430, 1>>, <<5470, 2>>}
Distance(v, s) == IF v >= StageTarget[s] THEN v - StageTarget[s] ELSE StageTarget[s] - v
NearTarget(in, s) ==
  \/ Distance(in.inverter.volts, s) < StageVoltageTolerance
  \/ <<in.inverter.volts, s>> \in EdgeAccepted

\* The four conditions of the stage 3 tail.
TailQualifies(in) ==
  /\ NearTarget(in, 3)
  /\ CellsAtLeast(in, MinCompletionCellMillivolts)
  /\ SpreadWithin(in, MaxCompletionSpreadMillivolts)
  /\ in.inverter.amps \in 0 .. MaxCompletionChargeCurrentAmps
=============================================================================
