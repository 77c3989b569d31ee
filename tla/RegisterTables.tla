--------------------------- MODULE RegisterTables ---------------------------
(***************************************************************************)
(* The registers (register/addr.go, register/groups.go) and their readers  *)
(* (inverter/read.go, inverter/settings.go, inverter/system.go): which     *)
(* registers are read together, which of them a model may lack, and which  *)
(* addresses are looked up once they are read.  Tables written apart, that *)
(* must agree.                                                             *)
(***************************************************************************)
EXTENDS Integers, Sequences, SequencesExt

\* Count.
CountOf(a) ==
  CASE a \in {\h001E, \h010C, \h0118, \h011A, \h0200, \h0202, \hF034, \hF036, \hF038, \hF03A,
              \hF046, \hF048} -> 2
    [] a = \h020C -> 3
    [] a = \h000C -> 8
    [] a \in {\h0021, \h0035} -> 20
    [] OTHER -> 1

\* The blocks of the protocol, without the holes.
P00 == \h000A..\h0017 \cup \h001A..\h001C \cup \h001E..\h001F \cup \h0021..\h0048
P01 == \h0100..\h011D
P02 == \h0200..\h0207 \cup \h020C..\h020E \cup \h0210..\h0224 \cup \h022A..\h0239
P05 == \hE001..\hE020 \cup \hE022..\hE025 \cup \hE037..\hE039
P05Timed == \hE026..\hE033 \cup \hE03B..\hE04C
ChargeSourceSelection == \hE04D
P07 == \hE200..\hE201 \cup \hE204..\hE216 \cup {\hE218} \cup \hE21B..\hE221
P08 == \hF000..\hF029 \cup \hF02C..\hF03D \cup \hF046..\hF04B

\* A group has the registers of a block in the order of their addresses.
Group(block, optional) ==
  LET first == Min(block)
      all   == [i \in 1..(Max(block) - first + 1) |-> first + i - 1]
      starts == SelectSeq(all, LAMBDA a : a \in block /\ \A b \in block : b < a => b + CountOf(b) <= a)
  IN  [i \in DOMAIN starts |->
         [at |-> starts[i], size |-> CountOf(starts[i]), optional |-> starts[i] \in optional]]

ProductInfo          == Group(P00, {\h001E, \h0021, \h0035})
BatteryData          == Group(P01, {\h010A} \cup \h0112..\h011D)
InverterData         == Group(P02, {\h0211, \h021D} \cup \h022A..\h0239)
BatterySettings      == Group(P05, \hE014..\hE01A \cup \hE037..\hE039)
TimedChargeDischarge == Group(P05Timed, \hE03B..\hE04C)
InverterSettings     == Group(P07, {\hE216, \hE218} \cup \hE21C..\hE221)
Statistics           == Group(P08, {\hF02C, \hF03C, \hF03D, \hF048})

\* What the readers look up.
OfUnitInfo  == \h0035..\h0048 \cup \h000C..\h0013 \cup {\h001C, \h0014}
OfBattery   == \h0100..\h0103 \cup \h010B..\h010E \cup \h0112..\h0117
OfPV        == \h0107..\h0109 \cup \h010F..\h0111
OfInverter  == \h0104..\h0106 \cup \h0200..\h0207 \cup {\h0210} \cup \h0212..\h0219
                 \cup \h021B..\h021C \cup \h021E..\h0223 \cup \h022A..\h0239
OfStats     == \hF000..\hF029 \cup \hF02C..\hF031 \cup \hF034..\hF03D \cup \hF046..\hF049
OfBatterySettings  == \hE001..\hE020 \cup \hE022..\hE025
OfTimedSettings    == P05Timed
OfInverterSettings == {\hE200, \hE201, \hE218, ChargeSourceSelection}
                        \cup \hE204..\hE206 \cup \hE208..\hE215 \cup \hE21B..\hE221

\* An operation reads a group in each of its parts.  Looked up are, whether the group
\* could be read or not, the addresses in "anyway", and those in "then" if it could.
Part(registers, then, anyway) == [registers |-> registers, then |-> then, anyway |-> anyway]

\* A part that fails is told, and the others are read all the same (readUnitSnapshot); or
\* it is told and ends the operation (readAllSettings).
ReadUnitSnapshot == [ends |-> FALSE, parts |->
  << Part(BatteryData, OfBattery, {}), Part(<<>>, {}, OfPV),
     Part(InverterData, OfInverter, {}), Part(Statistics, OfStats, {}) >>]

ReadAllSettings == [ends |-> TRUE, parts |->
  << Part(BatterySettings, OfBatterySettings, {}),
     Part(TimedChargeDischarge, OfTimedSettings, {}),
     Part(InverterSettings, OfInverterSettings, {}) >>]

\* Without the last part of readUnitInfo, whose failure is ignored.
ReadUnitInfo == [ends |-> TRUE, parts |-> << Part(ProductInfo, OfUnitInfo, {}) >>]
=============================================================================
