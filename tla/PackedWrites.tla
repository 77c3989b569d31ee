---------------------------- MODULE PackedWrites ----------------------------
(***************************************************************************)
(* Settings that share a register (inverter/settings_write.go).  The       *)
(* charge and the discharge cut-off are the two bytes of register 0xE00F,  *)
(* so that writing one is a read-modify-write: the register is looked up   *)
(* in the session of the first unit (modbus/client.go), which answers from *)
(* its cache if it can, and the merged value is written to unit after      *)
(* unit, up to the first failure.  The hub's run loop performs one command *)
(* at a time and reads the settings again after each that succeeds.  A     *)
(* unit's register may also be changed elsewhere, at its panel or by       *)
(* another service of its dongle.                                          *)
(***************************************************************************)
EXTENDS Integers

CONSTANTS
  NumUnits,                \* units, the first of which is the parallel master
  PackedFields,           \* the fields of the register
  FieldValues,
  NoValue

ASSUME PackedAssumption == NumUnits \in Nat \ {0}

Packed == [PackedFields -> FieldValues]

ASSUME NoValueAssumption == NoValue \notin Packed

VARIABLES
  reg,              \* the register of each unit
  cache,            \* what the session of the first unit remembers of it
  op,               \* the command the run loop is performing
  unheard           \* history: the master has been changed by a write the session holds for
                    \* failed, or elsewhere, since the session last read or forgot it

packedVars == <<reg, cache, op, unheard>>

Idle == [on |-> "none"]

\* A command: the field it writes, the value it merged, the unit that is next; and, as
\* history, whether it began with nothing unheard and the master was not changed elsewhere
\* since, and whether no unit was.
Command == [on : {"write"}, field : PackedFields, raw : Packed, unit : 1..NumUnits,
            sure : BOOLEAN, alone : BOOLEAN]

PackedTypeOK ==
  /\ reg \in [1..NumUnits -> Packed]
  /\ cache \in Packed \cup {NoValue}
  /\ op \in {Idle, [on |-> "refresh"]} \cup Command
  /\ unheard \in BOOLEAN

PackedInit ==
  /\ \E p \in Packed : reg = [u \in 1..NumUnits |-> p]
  /\ cache = NoValue
  /\ op = Idle
  /\ unheard = FALSE

-----------------------------------------------------------------------------
\* Mutant: the neighbouring field is cleared.
MergedOver(current, f, v) ==
  [g \in PackedFields |-> IF g = f THEN v ELSE CHOOSE w \in FieldValues : TRUE]

\* (current &^ sf.PackedMask) | ((raw << sf.PackedShift) & sf.PackedMask)
Merged(current, f, v) == [current EXCEPT ![f] = v]

\* Session.Lookup, then the merge.  A read that fails ends the command.
BeginPacked(f, v) ==
  /\ op = Idle
  /\ LET current == IF cache # NoValue THEN cache ELSE reg[1]
     IN  /\ cache' = current
         /\ op' = [on |-> "write", field |-> f, raw |-> Merged(current, f, v), unit |-> 1,
                   sure |-> ~unheard, alone |-> TRUE]
  /\ UNCHANGED <<reg, unheard>>

\* Mutant: the cache survives a write.
InvalidatedNever(u) == cache

\* Session.invalidate of unit u's session, which only a successful write calls.
Invalidated(u) == IF u = 1 THEN NoValue ELSE cache

\* Mutant: only the master is written.
AfterMaster(u) == [on |-> "refresh"]

AfterUnit(u) == IF u = NumUnits THEN [on |-> "refresh"] ELSE [op EXCEPT !.unit = u + 1]

WriteUnit ==
  /\ op.on = "write"
  /\ reg' = [reg EXCEPT ![op.unit] = op.raw]
  /\ cache' = Invalidated(op.unit)
  /\ unheard' = (unheard /\ op.unit # 1)
  /\ op' = AfterUnit(op.unit)

\* The first failure ends the command: the units before it keep the new value, and
\* so does its own when it is only the reply that was lost.
UnitWriteFails ==
  /\ op.on = "write"
  /\ op' = Idle
  /\ \/ UNCHANGED <<reg, unheard>>
     \/ /\ reg' = [reg EXCEPT ![op.unit] = op.raw]
        /\ unheard' = (unheard \/ op.unit = 1)
  /\ UNCHANGED cache

\* refreshSettings reads the settings of the master into its session, after a
\* command or when its ticker fires; a read that fails leaves the cache alone.
RefreshCache ==
  /\ op.on \in {"none", "refresh"}
  /\ op' = Idle
  /\ \/ cache' = reg[1] /\ unheard' = FALSE
     \/ UNCHANGED <<cache, unheard>>
  /\ UNCHANGED reg

\* Any other setting written to the master forgets what the session knows.
OtherWrite ==
  /\ op = Idle
  /\ cache' = NoValue /\ unheard' = FALSE
  /\ op' = [on |-> "refresh"]
  /\ UNCHANGED reg

\* Somebody else writes the register of unit u, which no session hears of.
ChangedElsewhere(u, p) ==
  /\ reg' = [reg EXCEPT ![u] = p]
  /\ unheard' = (unheard \/ (u = 1 /\ cache # NoValue))
  /\ \/ op.on = "write" /\ op' = [op EXCEPT !.sure = @ /\ u # 1, !.alone = FALSE]
     \/ op.on # "write" /\ UNCHANGED op
  /\ UNCHANGED cache

Elsewhere == \E u \in 1..NumUnits, p \in Packed : ChangedElsewhere(u, p)

PackedNext ==
  \/ \E f \in PackedFields, v \in FieldValues : BeginPacked(f, v)
  \/ WriteUnit \/ UnitWriteFails \/ RefreshCache \/ OtherWrite
  \/ Elsewhere

PackedSpec == PackedInit /\ [][PackedNext]_packedVars

-----------------------------------------------------------------------------
(***************************************************************************)
(* Properties.                                                             *)
(***************************************************************************)

\* What the session remembers of the master's register is what it holds, unless the
\* register has been changed since by a write reported as failed or elsewhere; the next
\* read or write that succeeds ends that (modbus/client.go:72-128).
CacheCoherent == cache # NoValue /\ ~unheard => cache = reg[1]

\* "Only the bits selected by PackedMask are written; the rest are preserved"
\* (settings_write.go:17-18): a write of the program to the master changes no other field,
\* unless its command merged from a value that was no longer the master's.
OthersPreserved ==
  [][\A f \in PackedFields :
       reg'[1][f] # reg[1][f] /\ ~Elsewhere
         => op.on = "write" /\ (op.field = f \/ ~op.sure)]_packedVars

\* "In parallel systems, settings should be synchronized across units"
\* (system.go:180): a command that succeeds leaves all units with the same
\* register, whatever earlier failures and other writers had left on them, unless
\* somebody else writes one meanwhile.
SuccessSynchronizes ==
  [][op.on = "write" /\ op.alone /\ op'.on = "refresh"
       => \A u \in 1..NumUnits : reg'[u] = reg'[1]]_packedVars
=============================================================================
