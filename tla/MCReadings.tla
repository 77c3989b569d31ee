------------------------------ MODULE MCReadings ------------------------------
(***************************************************************************)
(* From bytes and registers to what is shown and decided on, and back:     *)
(* StreamDecoder on every stream of few bytes, cut in every way; PackStore *)
(* on every sequence of few reports; SettingCodec for every named setting; *)
(* BulkRead for two operations, or one of a group of three registers;      *)
(* Aggregation for one to three units; TickClock with one pack, which      *)
(* stands for any one of the bank's; PackedWrites on three units with the  *)
(* two cut-offs of the register; and MainsToggle with two commands at a    *)
(* time.  They share no variable, so their steps commute and no property   *)
(* sees two of them: one of them moves, the others stay in one of their    *)
(* initial states.  A setting is written once, over any of the words at    *)
(* first: the properties of the codec are about single writes.             *)
(***************************************************************************)
EXTENDS StreamDecoder, PackStore, SettingCodec, MCBulkRead, Aggregation, TickClock,
        PackedWrites, MainsToggle

CONSTANTS p1, c1, c2

MCCommands == {c1, c2}

MCPacks == {p1}

\* Every field beside the byte of a packed register.
MCPairs == {{f, <<"cutoff_discharge_soc", 0>>} : f \in SettingFields}
             \cup {{<<"equalizing_charge_en", 0>>, <<"equalizing_charge_enable", 0>>}}

\* Words at the edges of the sign, of the bytes and of the times.
MCWords == {0, 5947, 32768, 65535}

\* Amounts inside and outside the range of every encoding, on and between its steps.
MCTexts ==
  {Number(h) : h \in {-3276900, -1000, -50, 0, 4, 5, 200, 5005, 30000, 655355, 7000000}}
    \cup {Word(TRUE), Word(FALSE), NaN, Time(23, 59), Time(24, 0), Time(5, 60)}

\* Only the 12 V based fields depend on the system voltage.
MCSystemVoltages == {24, 48}

\* Groups of three registers, at every distance around the limits; and what is read.
Threes ==
  LET At(r, gap) == [r EXCEPT !.at = gap]
      Shapes == [at : {0}, size : {1, 27}, optional : BOOLEAN]
  IN  { [ends |-> TRUE, parts |->
           << Part(<<r, At(s, End(r) + g1), At(t, End(r) + g1 + s.size + g2)>>, {}, {}) >>] :
        r \in Shapes, s \in Shapes, t \in Shapes, g1 \in {0, 4, 5}, g2 \in {0, 4, 5} }

MCOperations == Program \cup Threes

\* A unit whose registers all hold one of a few words; power and apparent power may differ.
UnitWords == {0, 1, 33000, 65535}

MCUnits ==
  { [ word |-> [f \in Fields |->
                 CASE f[2] = "ApparentPower" -> <<s, 0>>
                   [] f \in WideFields -> <<w, 2>>
                   [] OTHER -> <<w, 0>>],
      bits |-> <<IF w = 1 THEN {0} ELSE {}, IF s = 0 THEN {} ELSE {15}>>,
      codes |-> [slot \in Slots |-> IF slot = 1 THEN w % 7 ELSE 0],
      charge |-> IF s = 0 THEN 0 ELSE 4,
      state |-> IF w = 0 THEN 10 ELSE 4 ] :
    w \in UnitWords, s \in {0, 40000} }

MCInstallations == UNION {[1..n -> MCUnits] : n \in 1..3}

VARIABLE moving     \* the component that moves

readingVars == <<moving, decoderVars, storeVars, codecVars, bulkVars, registers, tickVars,
                 packedVars, toggleVars>>

ReadingsInit ==
  /\ moving \in {"stream", "packs", "codec", "groups", "units", "clock", "cutoffs", "switch"}
  /\ DecoderInit /\ StoreInit /\ CodecInit /\ BulkInit /\ AggregationInit /\ TickInit
  /\ PackedInit /\ ToggleInit
  /\ moving # "cutoffs" => reg[1] = CHOOSE p \in Packed : TRUE
  /\ moving # "switch" => limit = CHOOSE l \in Limits : TRUE
  /\ moving # "codec" => /\ pair = CHOOSE p \in MCPairs : TRUE
                         /\ voltage = 48 /\ \A r \in DOMAIN bank : bank[r] = 0
  /\ voltage # 48 => \E f \in pair : Encoder(f) = "volt12"
  /\ moving # "clock" => session = "none"
  /\ moving # "groups" => lacking = {}

ReadingsNext ==
  /\ UNCHANGED moving
  /\ \/ /\ moving = "stream" /\ DecoderNext
        /\ UNCHANGED <<storeVars, codecVars, bulkVars, registers, tickVars, packedVars, toggleVars>>
     \/ /\ moving = "packs" /\ StoreNext
        /\ UNCHANGED <<decoderVars, codecVars, bulkVars, registers, tickVars, packedVars, toggleVars>>
     \/ /\ moving = "codec" /\ asked = NothingAsked /\ CodecNext
        /\ UNCHANGED <<decoderVars, storeVars, bulkVars, registers, tickVars, packedVars, toggleVars>>
     \/ /\ moving = "groups"
        /\ \/ BulkStep
           \/ \E o \in CASE count = 0 -> Operations
                            [] operation \in Program -> Program
                            [] OTHER -> {} : BeginOperation(o)
        /\ UNCHANGED <<decoderVars, storeVars, codecVars, registers, tickVars, packedVars, toggleVars>>
     \/ /\ moving = "units" /\ Poll
        /\ UNCHANGED <<decoderVars, storeVars, codecVars, bulkVars, tickVars, packedVars, toggleVars>>
     \/ /\ moving = "clock" /\ TickNext
        /\ UNCHANGED <<decoderVars, storeVars, codecVars, bulkVars, registers, packedVars, toggleVars>>
     \/ /\ moving = "cutoffs" /\ PackedNext
        /\ UNCHANGED <<decoderVars, storeVars, codecVars, bulkVars, registers, tickVars, toggleVars>>
     \/ /\ moving = "switch" /\ ToggleNext
        /\ UNCHANGED <<decoderVars, storeVars, codecVars, bulkVars, registers, tickVars, packedVars>>

ReadingsSpec == ReadingsInit /\ [][ReadingsNext]_readingVars
===============================================================================
