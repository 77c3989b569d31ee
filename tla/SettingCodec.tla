---------------------------- MODULE SettingCodec ----------------------------
(***************************************************************************)
(* The two tables of named settings: settings_write.go says how the text   *)
(* of a field becomes the word of a register, settings.go how the words    *)
(* are shown.  Nothing in the program ties one table to the other.         *)
(*                                                                         *)
(* A field is <<name, n>>, n being the number of a timed period and 0 for  *)
(* any other field.  A text is [form, a, b]: a number is a hundredths; a   *)
(* time is a hours and b minutes; "on" is a = 1, "off" a = 0; "NaN" is a   *)
(* number to strconv.ParseFloat.  The sessions' caches are left to module  *)
(* PackedWrites: here they hold what the registers hold, except that the   *)
(* system voltage may be out of reach while a setting is written.          *)
(***************************************************************************)
EXTENDS Integers

CONSTANTS
  Pairs,             \* pairs of fields, whose registers are looked at together
  Words,             \* words the registers may hold at first
  Texts,             \* texts that clients write
  SystemVoltages

VARIABLES
  pair,              \* the two fields
  voltage,           \* register 0xE003, which no field writes
  bank,              \* the registers of the pair
  asked              \* the last WriteSetting and the word it replaced

codecVars == <<pair, voltage, bank, asked>>

Single(names) == names \X {0}
Periodic(names) == names \X (1..3)

\* settingFields: the encoder of each field.
Encoders ==
  [ tenths |-> Single({"output_voltage", "max_charge_current", "mains_charge_current_lim",
        "max_line_current", "pv_charge_current_limit"}),
    hundredths |-> Single({"output_frequency"}),
    tens |-> Periodic({"charge_max_power", "discharge_max_power"}),
    whole |-> Single({"output_priority", "charger_priority", "derate_power",
        "nominal_capacity", "stop_charge_soc", "low_soc_alarm", "soc_switch_to_mains",
        "soc_switch_to_battery", "cutoff_charge_soc", "cutoff_discharge_soc"})
      \cup Periodic({"charge_stop_soc", "discharge_stop_soc"}),
    signed |-> Single({"charge_max_temp", "charge_min_temp", "discharge_max_temp",
        "discharge_min_temp"}),
    switch |-> Single({"parallel_mode", "power_saving_mode", "overload_auto_restart",
        "over_temp_auto_restart", "overload_bypass_enable", "alarm_enable",
        "bms_error_stop_enable", "equalizing_charge_en", "equalizing_charge_enable",
        "record_fault_enable", "timed_charge_enable", "timed_discharge_enable"}),
    bms |-> Single({"bms_communication_en"}),
    time |-> Periodic({"charge_start_time", "charge_end_time", "discharge_start_time",
        "discharge_end_time"}),
    volt12 |-> Single({"over_voltage_protection", "limited_charge_voltage",
        "equalizing_charge_volt", "boost_charge_voltage", "float_charge_voltage",
        "boost_return_voltage", "over_discharge_voltage", "over_discharge_return_v",
        "limited_discharge_volt", "under_voltage_warning", "mains_switching_voltage",
        "inverter_switching_volt"}) ]

SettingFields == UNION {Encoders[e] : e \in DOMAIN Encoders}

Encoder(f) == CHOOSE e \in DOMAIN Encoders : f \in Encoders[e]

\* Addr: two pairs of names share a register.
Register(f) ==
  CASE f[1] \in {"cutoff_charge_soc", "cutoff_discharge_soc"} -> <<"cutoff_soc", 0>>
    [] f[1] = "equalizing_charge_enable" -> <<"equalizing_charge_en", 0>>
    [] OTHER -> f

\* The readers of settings.go.  A register whose field is in none of them is shown as it is.
Readers ==
  [ tenths |-> {"output_voltage", "max_charge_current", "mains_charge_current_lim",
        "max_line_current", "pv_charge_current_limit"},
    hundredths |-> {"output_frequency"},
    tens |-> {"charge_max_power", "discharge_max_power"},
    signed |-> {"charge_max_temp", "charge_min_temp", "discharge_max_temp",
        "discharge_min_temp"},
    flag |-> {"timed_charge_enable", "timed_discharge_enable"},
    high |-> {"cutoff_charge_soc"},
    low |-> {"cutoff_discharge_soc"},
    time |-> {"charge_start_time", "charge_end_time", "discharge_start_time",
        "discharge_end_time"},
    volt12 |-> {"over_voltage_protection", "limited_charge_voltage",
        "equalizing_charge_volt", "boost_charge_voltage", "float_charge_voltage",
        "boost_return_voltage", "over_discharge_voltage", "over_discharge_return_v",
        "limited_discharge_volt", "under_voltage_warning", "mains_switching_voltage",
        "inverter_switching_volt"} ]

Reader(f) ==
  IF \E r \in DOMAIN Readers : f[1] \in Readers[r]
  THEN CHOOSE r \in DOMAIN Readers : f[1] \in Readers[r]
  ELSE "whole"
-----------------------------------------------------------------------------
Number(hundredths) == [form |-> "number", a |-> hundredths, b |-> 0]
Time(h, m) == [form |-> "time", a |-> h, b |-> m]
Word(on) == [form |-> "word", a |-> IF on THEN 1 ELSE 0, b |-> 0]
NaN == [form |-> "nan", a |-> 0, b |-> 0]

Word16  == 256 * 256
Words16 == {w \in Nat : w < Word16}

\* What a client may write: a text that is no number and no time is refused as "NaN" is.
Text == [form : {"number", "time", "nan"}, a : Int, b : Int] \cup {Word(TRUE), Word(FALSE)}

\* What a voltage shows is whole hundredths when the system voltage is a multiple of 6 V.
ASSUME CodecAssumption ==
  /\ \A p \in Pairs : p \subseteq SettingFields
  /\ Words \subseteq Words16
  /\ Texts \subseteq Text
  /\ SystemVoltages \subseteq {v \in Nat \ {0} : v % 6 = 0}

\* int16(raw)
Int16(word) == IF word >= 128 * 256 THEN word - Word16 ELSE word

\* What the settings show for a word, with Voltage12V and the other scales of register.go.
Show(reader, word) ==
  CASE reader = "tenths" -> Number(word * 10)
    [] reader = "hundredths" -> Number(word)
    [] reader = "tens" -> Number(word * 1000)
    [] reader = "whole" -> Number(word * 100)
    [] reader = "signed" -> Number(Int16(word) * 100)
    [] reader = "flag" -> Word(word # 0)
    [] reader = "high" -> Number((word \div 256) * 100)
    [] reader = "low" -> Number((word % 256) * 100)
    [] reader = "time" -> Time(word \div 256, word % 256)
    [] reader = "volt12" -> Number((word * 10 * voltage) \div 12)

Shown(f) == Show(Reader(f), bank[Register(f)])
-----------------------------------------------------------------------------
\* Mutant: the conversion drops the fraction.
RoundedDown(n, d) == {n \div d}

Distance(x, y) == IF x >= y THEN x - y ELSE y - x

\* math.Round of n / d.  Half-way it may be either neighbour, since the quotient is a float64.
Rounded(n, d) ==
  LET below == n \div d
  IN  {m \in {below, below + 1} : 2 * Distance(m * d, n) <= d}

\* uint16 of a float64.  Go leaves it open what a number outside the range becomes: the
\* low sixteen bits, or the nearer end of the range.
Uint16(n) ==
  IF n \in Words16 THEN {n} ELSE {n % Word16, IF n < 0 THEN 0 ELSE Word16 - 1}

\* Mutant: the system voltage is taken for 48 V whatever it is.
Encode12VBaseAt48(text, known) == Rounded(text.a * 12, 10 * 48)

\* encode12VBase: a system voltage that is not known is taken for 48 V.
Encode12VBase(text, known) ==
  Rounded(text.a * 12, 10 * (IF known = 0 THEN 48 ELSE known))

\* encodeFloat, encodeMul10 and encode12VBase, the encoders that parse a float.
EncodeFloat(encoder, text, known) ==
  IF text.form = "nan" THEN {0}
  ELSE IF text.form # "number" THEN {}
  ELSE CASE encoder = "tenths" -> UNION {Uint16(n) : n \in Rounded(text.a, 10)}
         [] encoder = "hundredths" -> Uint16(text.a)
         [] encoder = "tens" -> UNION {Uint16(n) : n \in Rounded(text.a, 1000)}
         [] OTHER -> UNION {Uint16(n) : n \in Encode12VBase(text, known)}

\* The words a text may become: none when the encoder returns an error.
Encode(encoder, text, known) ==
  LET integer == text.form = "number" /\ text.a % 100 = 0
      n == text.a \div 100
  IN CASE encoder = "whole" -> IF integer /\ n \in Words16 THEN {n} ELSE {}
       [] encoder = "signed" -> IF integer /\ n >= -(128 * 256) /\ n < 128 * 256 THEN {n % Word16} ELSE {}
       [] encoder = "switch" ->
            IF \/ text.form = "word"
               \/ integer /\ n \in {0, 1}
            THEN {IF text.form = "word" THEN text.a ELSE n} ELSE {}
       [] encoder = "bms" ->
            IF \/ text.form = "word"
               \/ integer /\ n \in 0..2
            THEN {IF text.form = "word" THEN text.a ELSE n} ELSE {}
       [] encoder = "time" ->
            IF text.form = "time" /\ text.a \in 0..23 /\ text.b \in 0..59
            THEN {text.a * 256 + text.b} ELSE {}
       [] OTHER -> EncodeFloat(encoder, text, known)

\* Mutant: the other byte is not kept.
PackedAlone(f, word, current) ==
  CASE f[1] = "cutoff_charge_soc" -> (word % 256) * 256
    [] f[1] = "cutoff_discharge_soc" -> word % 256
    [] OTHER -> word

\* (current &^ PackedMask) | ((raw << PackedShift) & PackedMask)
PackedWord(f, word, current) ==
  CASE f[1] = "cutoff_charge_soc" -> ((word % 256) * 256) + (current % 256)
    [] f[1] = "cutoff_discharge_soc" -> ((current \div 256) * 256) + (word % 256)
    [] OTHER -> word

\* System.WriteSetting, the writes themselves succeeding; known is 0 when the system
\* voltage cannot be read.
WriteSetting(f, text, known) ==
  \E word \in Encode(Encoder(f), text, known) :
    /\ bank' = [bank EXCEPT ![Register(f)] = PackedWord(f, word, @)]
    /\ asked' = [field |-> f, text |-> text, known |-> known, replaced |-> bank[Register(f)]]
    /\ UNCHANGED <<pair, voltage>>

NothingAsked == [field |-> <<"none", 0>>, text |-> NaN, known |-> 0, replaced |-> 0]

CodecInit ==
  /\ pair \in Pairs
  /\ voltage \in SystemVoltages
  /\ bank \in [{Register(f) : f \in pair} -> Words]
  /\ asked = NothingAsked

\* A client writes a text of its own, or writes back what it is shown.
CodecNext ==
  \E f \in pair :
    \E text \in Texts \cup {Shown(f)}, known \in {voltage, 0} : WriteSetting(f, text, known)

CodecSpec == CodecInit /\ [][CodecNext]_codecVars
-----------------------------------------------------------------------------
\* Words stay words of sixteen bits, whatever text is written.
CodecTypeOK ==
  /\ pair \subseteq SettingFields
  /\ bank \in [{Register(f) : f \in pair} -> Words16]
  /\ asked.field \in pair \cup {NothingAsked.field}

\* The numbers that a field can show.
InRange(f, n) ==
  CASE Reader(f) \in {"high", "low"} -> n >= 0 /\ n <= 255 * 100
    [] Reader(f) = "signed" -> n >= -(128 * 256 * 100) /\ n <= (128 * 256 - 1) * 100
    [] OTHER -> n >= 0 /\ n <= Show(Reader(f), Word16 - 1).a

\* What a step changes of the number a field shows.
Step(f) == CASE Reader(f) \in {"high", "low"} -> 100
             [] OTHER -> Distance(Show(Reader(f), 1).a, Show(Reader(f), 0).a)

\* A number that was accepted is shown back to the nearest step of the register (the
\* encoders of settings_write.go against the scales of settings.go), for every number
\* the field can show, and for the voltages provided the system voltage was known or
\* is the 48 V that the encoder assumes.
ShownAsAsked ==
  LET f == asked.field
      n == asked.text.a
  IN  /\ asked # NothingAsked
      /\ asked.text.form = "number"
      /\ Encoder(f) # "switch"
      /\ InRange(f, n)
      /\ Encoder(f) = "volt12" => (asked.known = voltage \/ voltage = 48)
      => 2 * Distance(Shown(f).a, n) <= Step(f)

\* Writing a field back as it is shown leaves what it shows as it was (both tables agree
\* on the unit, the sign and the bytes of every field): a client that saves a whole form
\* changes only what its user edited.
WrittenBack(f) ==
  /\ asked'.text = Shown(f)
  /\ Encoder(f) = "volt12" => (asked'.known = voltage \/ voltage = 48)
  => Shown(f)' = Shown(f)

\* Writing one field leaves what every other field shows, the byte that shares its
\* register included, whatever number is written (the mask of WriteSetting).
AsItWas(g) ==
  \/ {g[1], asked'.field[1]} = {"equalizing_charge_en", "equalizing_charge_enable"}
  \/ Shown(g)' = Shown(g)

\* A write changes what it was asked to change and nothing else: not the other fields, and
\* not its own when it is written back as it was shown (settings_write.go against settings.go).
OnlyTheEdit ==
  [][ bank' # bank => \A f \in pair : IF f = asked'.field THEN WrittenBack(f) ELSE AsItWas(f) ]_codecVars

\* What is written fits its register and is shown as it was asked for.
CodecSound == CodecTypeOK /\ ShownAsAsked
=============================================================================
