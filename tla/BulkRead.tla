------------------------------ MODULE BulkRead ------------------------------
(***************************************************************************)
(* Reading a unit (inverter/read.go, inverter/settings.go) through the     *)
(* cache of its session (modbus/client.go).  bulkRead gathers the          *)
(* registers of a group into spans, each read with one request, and puts   *)
(* what it reads into the cache; the readers then look addresses up, and   *)
(* what is not in the cache is read by itself and stays there.  A register *)
(* that a model may lack is optional and has a span of its own, whose      *)
(* failure is ignored.  Only a write clears the cache.                     *)
(*                                                                         *)
(* A word is the operation it was read by: operations are counted.         *)
(***************************************************************************)
EXTENDS RegisterTables, FiniteSets

CONSTANTS
  Operations,        \* what is read, like ReadAllSettings
  Models,            \* sets of optional registers that a unit may lack
  MaxGap,            \* registers read for nothing between two of one span: 4
  MaxPerRead,        \* registers of one request: 32
  MaxOperations,     \* bound
  MaxFailures        \* bound: requests that fail although the unit has the registers

End(register) == register.at + register.size
Occupies(register) == register.at..(End(register) - 1)

GroupRegister == [at : Nat, size : Nat \ {0}, optional : BOOLEAN]
Parts == [registers : Seq(GroupRegister), then : SUBSET Nat, anyway : SUBSET Nat]

Ascending(group) == \A i, j \in DOMAIN group : i < j => End(group[i]) <= group[j].at

\* What a part looks up, it or a part before it reads; but for the charge source selection.
TablesAgree(parts) ==
  \A i \in DOMAIN parts : \A a \in (parts[i].then \cup parts[i].anyway) \ {ChargeSourceSelection} :
    \E j \in 1..i : \E r \in ToSet(parts[j].registers) : a \in Occupies(r)

ASSUME OperationsAssumption ==
  /\ {MaxGap, MaxPerRead, MaxOperations, MaxFailures} \subseteq Nat
  /\ Operations \subseteq [ends : BOOLEAN, parts : Seq(Parts) \ {<<>>}]
  /\ \A o \in Operations :
       TablesAgree(o.parts) /\ \A i \in DOMAIN o.parts : Ascending(o.parts[i].registers)

VARIABLES
  lacking,           \* the registers that the unit lacks
  operation,         \* the one in progress or the last
  part,              \* the part it is at
  spans,             \* the spans of the part that are still to be read
  failed,            \* a span of the part that was not optional could not be read
  errors,            \* the operation reports an error
  refused,           \* addresses of the optional spans that could not be read
  count,             \* operations begun
  cached,             \* Session.cache
  shown,             \* what the readers have been given; without an entry it is 0
  outcome,           \* "none", "reading" or "done"
  failures

bulkVars == <<lacking, operation, part, spans, failed, errors, refused, count, cached, shown,
              outcome, failures>>

SpanOf(register) ==
  [from |-> register.at, to |-> End(register), optional |-> register.optional]

\* Mutant: an optional register extends the last span like any other.
ExtendsAny(last, register) ==
  /\ register.at - last.to \in 0..MaxGap
  /\ End(register) - last.from <= MaxPerRead

\* The register is read together with the last span.
Extends(last, register) ==
  /\ ~register.optional
  /\ ~last.optional
  /\ register.at - last.to \in 0..MaxGap
  /\ End(register) - last.from <= MaxPerRead

AddRegister(sofar, register) ==
  IF sofar # <<>> /\ Extends(Last(sofar), register)
  THEN Append(Front(sofar), [Last(sofar) EXCEPT !.to = End(register)])
  ELSE Append(sofar, SpanOf(register))

Spans(registers) == FoldLeft(AddRegister, <<>>, registers)

Asked(span) == span.from..(span.to - 1)

BulkInit ==
  /\ lacking \in Models
  /\ operation = [ends |-> TRUE, parts |-> <<>>] /\ part = 0
  /\ spans = <<>> /\ failed = FALSE /\ errors = FALSE /\ refused = {}
  /\ count = 0 /\ cached = <<>> /\ shown = <<>>
  /\ outcome = "none" /\ failures = 0

BeginPart(o, i) ==
  /\ part' = i /\ failed' = FALSE
  /\ spans' = Spans(o.parts[i].registers)

BeginOperation(o) ==
  /\ outcome # "reading" /\ count < MaxOperations
  /\ count' = count + 1
  /\ operation' = o /\ BeginPart(o, 1)
  /\ errors' = FALSE /\ refused' = {} /\ shown' = <<>>
  /\ outcome' = "reading"
  /\ UNCHANGED <<lacking, cached, failures>>

Over(new, old) ==
  [a \in DOMAIN new \cup DOMAIN old |-> IF a \in DOMAIN new THEN new[a] ELSE old[a]]

Fetched(addresses) == Over([a \in addresses |-> count], cached)

\* Session.ReadRegisters and Session.Store.
ReadSpan ==
  /\ outcome = "reading" /\ spans # <<>>
  /\ Asked(Head(spans)) \cap lacking = {}
  /\ cached' = Fetched(Asked(Head(spans)))
  /\ spans' = Tail(spans)
  /\ UNCHANGED <<lacking, operation, part, failed, errors, refused, count, shown, outcome, failures>>

\* Because the unit lacks a register of the span or for another reason.
Failure(addresses) ==
  \/ addresses \cap lacking # {} /\ UNCHANGED failures
  \/ addresses \cap lacking = {} /\ failures < MaxFailures /\ failures' = failures + 1

\* ReadRegisters returns an error.
SpanFails ==
  /\ outcome = "reading" /\ spans # <<>>
  /\ LET span == Head(spans) IN
       /\ Failure(Asked(span))
       /\ failed' = ~span.optional
       /\ errors' = (errors \/ ~span.optional)
       /\ refused' = IF span.optional THEN refused \cup Asked(span) ELSE refused
       /\ spans' = IF span.optional THEN Tail(spans) ELSE <<>>
  /\ UNCHANGED <<lacking, operation, part, count, cached, shown, outcome>>

\* The readers: Session.Lookup of one address after the other.  What is not in the cache
\* is read by itself, if it can be.
LookUp ==
  /\ outcome = "reading" /\ spans = <<>>
  /\ LET p == operation.parts[part]
         looked == p.anyway \cup IF failed THEN {} ELSE p.then
         absent == looked \ DOMAIN cached
     IN  \E lost \in {{}} \cup {{a} : a \in absent \ lacking} :
           /\ IF lost = {} THEN UNCHANGED failures ELSE Failure(lost)
           /\ cached' = Fetched(absent \ (lost \cup lacking))
           /\ shown' = Over([a \in looked \cap DOMAIN cached' |-> cached'[a]], shown)
  /\ IF part = Len(operation.parts) \/ (failed /\ operation.ends)
     THEN outcome' = "done" /\ UNCHANGED <<part, spans, failed>>
     ELSE BeginPart(operation, part + 1) /\ UNCHANGED outcome
  /\ UNCHANGED <<lacking, operation, errors, refused, count>>

\* A write of a register that succeeds: Session.invalidate.
Invalidate ==
  /\ outcome # "reading" /\ cached # <<>>
  /\ cached' = <<>> /\ outcome' = "none"
  /\ UNCHANGED <<lacking, operation, part, spans, failed, errors, refused, count, shown, failures>>

BulkStep == ReadSpan \/ SpanFails \/ LookUp \/ Invalidate

BulkNext == BulkStep \/ \E o \in Operations : BeginOperation(o)

BulkSpec == BulkInit /\ [][BulkNext]_bulkVars
-----------------------------------------------------------------------------
\* A read that reports no error has read every mandatory register (the loop over spans of
\* bulkRead): none is lost between two spans, none is passed over as if it were optional.
MandatoryFetched ==
  outcome = "done" /\ ~errors =>
    \A i \in DOMAIN operation.parts : \A r \in ToSet(operation.parts[i].registers) :
      ~r.optional => \A a \in Occupies(r) : a \in DOMAIN cached /\ cached[a] = count

\* A register a model may not have is never asked for in the request of another register
\* (its refusal would cost the others, bulkRead's first branch), and no request that
\* gathers several registers is longer than the limit of the protocol.
RequestsAreSafe ==
  outcome = "reading" =>
    \A s \in ToSet(spans) :
      LET asked == {r \in ToSet(operation.parts[part].registers) : Occupies(r) \cap Asked(s) # {}}
      IN  Cardinality(asked) > 1 =>
            /\ \A r \in asked : ~r.optional
            /\ s.to - s.from <= MaxPerRead

\* Every address of the tables of the readers is shown as it was read by the same
\* operation, if that reports no error, unless it belongs to an optional register that could
\* not be read: "ReadSettings reads all settings" (settings.go:137).
ReadNow(exempt) ==
  outcome = "done" /\ ~errors =>
    \A a \in DOMAIN shown \ exempt : shown[a] = count \/ a \in refused

AllSettingsRead == ReadNow({})

\* What a reader relies on: all of it, by requests that cannot spoil one another, and no
\* older word; but for the charge source selection, which is in no group.
ReadInWhole == MandatoryFetched /\ RequestsAreSafe /\ ReadNow({ChargeSourceSelection})
=============================================================================
