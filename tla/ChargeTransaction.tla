------------------------- MODULE ChargeTransaction -------------------------
(***************************************************************************)
(* The reversible inverter transaction around the conditioning engine:     *)
(* serve/conditioning.go, the parts of serve/hub.go it runs on (write      *)
(* reservation and run loop), serve/conditioning_journal.go, and the       *)
(* start-up and tick loop of cmd/serve.go; its end is in ServeProcess.     *)
(*                                                                         *)
(* Actors.  Clients (web and MQTT handlers) call Start and Stop; the tick  *)
(* loop reads Status and later calls Tick or Recover; the hub's run loop   *)
(* executes, one at a time, polls, the owner's settings writes and the     *)
(* callbacks of WithConditioning; the process crashes and boots.  opMu     *)
(* admits one Start, Tick, Stop or Recover at a time, so the operation in  *)
(* progress is a program counter: job says what it does, pc how far it is. *)
(*                                                                         *)
(* One inverter's charge registers are three fields.  cap is E20A in       *)
(* tenths of an ampere.  can is E215.  prof stands for the four charge     *)
(* voltages and the equalization switch, which every sequence writes       *)
(* together: the stage they all belong to, or Mixed part of the way.       *)
(***************************************************************************)
EXTENDS Integers, Sequences, FiniteSets

CONSTANTS
  N,              \* number of parallel units, 2 in the code
  OwnerCaps,      \* charge current limits the owner may set
  NoJournal,      \* the journal file does not exist
  LossyDisk,      \* whether a disk failure may lose the journal, feign one or hide one
  MaxFaults       \* bound on failed calls and crashes

Units == 0 .. N - 1

OwnerProfile == 0
Mixed        == 4
TenAmps      == 100

Setting  == [cap : OwnerCaps \cup {0, TenAmps}, prof : 0 .. 4, can : {"on", "off"}]
Settings == [Units -> Setting]

ASSUME UnitsAssumption   == N \in Nat \ {0}
ASSUME CapsAssumption    == OwnerCaps \subseteq Nat
ASSUME JournalAssumption == NoJournal \notin Settings
ASSUME FaultsAssumption  == LossyDisk \in BOOLEAN /\ MaxFaults \in Nat

VARIABLES
  reg,        \* the inverters' registers
  own,        \* history: what the registers' owner last set them to
  journal,    \* the journal file: NoJournal or the saved registers
  overlooked, \* history: the process has left a journal behind that it does not know of
  up,         \* the process runs
  active, recovery, applied,   \* ConditioningService, appliedTarget as a stage
  fresh,      \* hub.latest was taken after appliedAt
  reserved,   \* Hub.conditioningReserved
  loop,       \* what the hub's run loop executes
  job, pc,    \* the operation that holds opMu and where it stands
  unit,       \* loop variable of the register sequence in progress
  refused,    \* suppressCharge has seen a failure
  previous,   \* Tick's previousTarget
  ticker,     \* what the tick loop has decided to call, busy while it calls it
  wcap,       \* the value of the owner's write in progress
  state, stage, target,        \* the engine
  faults      \* bound

device  == <<reg, own>>
record  == <<journal, overlooked>>
service == <<active, recovery, applied, fresh>>
engine  == <<state, stage, target>>
seq     == <<unit, refused, previous>>
vars    == <<device, record, up, service, reserved, loop, job, pc, seq, ticker, wcap, engine,
             faults>>

Engine == INSTANCE ChargeSchedule

Jobs   == {"none", "start", "undo", "restore", "recover", "suppress", "check", "stage"}
Points == {"none", "load", "await", "capture", "read", "zero", "can", "prof", "cap", "clear",
           "release"}

TypeOK ==
  /\ reg \in Settings /\ own \in Settings
  /\ journal \in Settings \cup {NoJournal}
  /\ overlooked \in BOOLEAN
  /\ up \in BOOLEAN
  /\ active \in BOOLEAN /\ recovery \in BOOLEAN
  /\ applied \in 0 .. 3 /\ fresh \in BOOLEAN
  /\ reserved \in BOOLEAN
  /\ loop \in {"idle", "write", "callback"}
  /\ job \in Jobs /\ pc \in Points
  /\ unit \in Units
  /\ refused \in BOOLEAN
  /\ previous \in 0 .. 3
  /\ ticker \in {"idle", "tick", "recover", "busy"}
  /\ wcap \in OwnerCaps \cup {0}
  /\ Engine!TypeOK
  /\ faults \in 0 .. MaxFaults

Init ==
  /\ \E c \in OwnerCaps :
       reg = [u \in Units |-> [cap |-> c, prof |-> OwnerProfile, can |-> "on"]]
  /\ own = reg
  /\ journal = NoJournal /\ overlooked = FALSE
  /\ up = FALSE
  /\ active = FALSE /\ recovery = FALSE /\ applied = 0 /\ fresh = FALSE
  /\ reserved = FALSE /\ loop = "idle"
  /\ job = "none" /\ pc = "none"
  /\ unit = 0 /\ refused = FALSE /\ previous = 0
  /\ ticker = "idle" /\ wcap = 0
  /\ Engine!Init
  /\ faults = 0

-----------------------------------------------------------------------------
\* Register sequences.

WithCap(s, c)  == [cap |-> c, prof |-> s.prof, can |-> s.can]
WithProf(s, p) == [cap |-> s.cap, prof |-> p, can |-> s.can]

\* Mutant: a restoration writes the session's limit instead of the owner's.
WrittenForgetful(p, u) ==
  [cap  |-> IF p = "zero" THEN 0
            ELSE IF p = "cap" THEN TenAmps
            ELSE reg[u].cap,
   prof |-> IF p # "prof" THEN reg[u].prof
            ELSE IF job = "start" THEN 1 ELSE IF job = "stage" THEN target ELSE journal[u].prof,
   can  |-> IF p # "can" THEN reg[u].can
            ELSE IF job = "start" THEN "off" ELSE journal[u].can]

\* What the job in progress leaves in unit u after its write at point p.
Written(p, u) ==
  [cap  |-> IF p = "zero" THEN 0
            ELSE IF p = "cap" THEN IF job \in {"start", "stage"} THEN TenAmps ELSE journal[u].cap
            ELSE reg[u].cap,
   prof |-> IF p # "prof" THEN reg[u].prof
            ELSE IF job = "start" THEN 1 ELSE IF job = "stage" THEN target ELSE journal[u].prof,
   can  |-> IF p # "can" THEN reg[u].can
            ELSE IF job = "start" THEN "off" ELSE journal[u].can]

\* Mutant: a restoration restores the current limit before CAN control.
FollowsSwapped(j, p, q) ==
  \/ /\ j = "start"
     /\ <<p, q>> \in {<<"zero", "can">>, <<"can", "prof">>, <<"prof", "cap">>}
  \/ /\ j = "stage"
     /\ <<p, q>> \in {<<"zero", "prof">>, <<"prof", "cap">>}
  \/ /\ j \in {"undo", "restore", "recover"}
     /\ <<p, q>> \in {<<"zero", "read">>, <<"prof", "cap">>, <<"cap", "can">>}

\* The order of applyStart, applyStage and restoreUnits: q is the point that
\* follows p.  restoreUnits reads between its first two registers.
Follows(j, p, q) ==
  \/ /\ j = "start"
     /\ <<p, q>> \in {<<"zero", "can">>, <<"can", "prof">>, <<"prof", "cap">>}
  \/ /\ j = "stage"
     /\ <<p, q>> \in {<<"zero", "prof">>, <<"prof", "cap">>}
  \/ /\ j \in {"undo", "restore", "recover"}
     /\ <<p, q>> \in {<<"zero", "read">>, <<"prof", "can">>, <<"can", "cap">>}

\* suppressCharge attempts every unit; every other sequence stops at the first
\* register that refuses.
Suppressing == pc = "zero" /\ job \notin {"start", "stage"}

Writing == loop = "callback" /\ pc \in {"zero", "can", "prof", "cap"}

Put(s) == reg' = [reg EXCEPT ![unit] = s]

\* A verified write that fails has changed the register or has not; of the
\* five registers of a profile it may have changed some.
Partly ==
  \/ Put(reg[unit]) \/ Put(Written(pc, unit))
  \/ pc = "prof" /\ Put(WithProf(reg[unit], Mixed))

\* Mutant: the loop over the units runs one too far.
LastUnitOff == unit = N

LastUnit == unit = N - 1

-----------------------------------------------------------------------------
\* Ways on and out.

Fail == faults < MaxFaults /\ faults' = faults + 1

\* The operation returns and unlocks opMu.
Finish ==
  /\ job' = "none" /\ pc' = "none"
  /\ ticker' = IF ticker = "busy" THEN "idle" ELSE ticker

\* restore: the session is over, its restoration pending.
BeginRestore ==
  /\ active' = FALSE /\ recovery' = TRUE
  /\ job' = "restore" /\ pc' = "load"

\* The engine is running whenever it is stopped or aborted here: a session is
\* active, or Start's callback is past its capture.
StopOnFault == Engine!Abort /\ BeginRestore

\* WithConditioning, called by the job in progress, returned an error.
Abandoned ==
  \/ /\ job = "start"
     /\ pc' = "release"
     /\ UNCHANGED <<active, recovery, job, ticker, engine>>
  \/ /\ job \in {"check", "stage"}
     /\ StopOnFault
     /\ UNCHANGED ticker
  \/ /\ job \in {"undo", "restore", "recover", "suppress"}
     /\ Finish
     /\ UNCHANGED <<active, recovery, engine>>

\* The callback of WithConditioning failed.  Start's puts the captured
\* registers back before it returns; the others return their error.
CallbackFailed ==
  \/ /\ job = "start"
     /\ Engine!Abort
     /\ recovery' = TRUE
     /\ job' = "undo" /\ pc' = "zero" /\ unit' = 0 /\ refused' = FALSE
     /\ UNCHANGED <<active, loop, ticker>>
  \/ /\ job # "start"
     /\ loop' = "idle"
     /\ Abandoned
     /\ UNCHANGED <<unit, refused>>

-----------------------------------------------------------------------------
\* The process.

\* Mutant: start-up expects a recovery but does not reserve the write path.
BootUnreserved ==
  /\ ~up
  /\ up' = TRUE
  /\ recovery' = (journal # NoJournal)
  /\ ticker' = "recover"
  /\ UNCHANGED <<device, record, active, applied, fresh, reserved, loop, job, pc, seq, wcap, engine,
                 faults>>

\* cmd/serve.go: a journal found by os.Stat reserves the write path before
\* anything else runs, and main's first call is Recover.  A stat that fails
\* counts as a journal.
Boot ==
  /\ ~up
  /\ up' = TRUE
  /\ \/ recovery' = (journal # NoJournal) /\ UNCHANGED faults
     \/ LossyDisk /\ journal = NoJournal /\ recovery' = TRUE /\ Fail
  /\ reserved' = recovery'
  /\ ticker' = "recover"
  /\ UNCHANGED <<device, record, active, applied, fresh, loop, job, pc, seq, wcap, engine>>

\* The process dies between any two steps, or between two of the registers of
\* a profile; the registers and the journal survive it.
Crash ==
  /\ up
  /\ Fail
  /\ \/ UNCHANGED reg
     \/ Writing /\ pc = "prof" /\ Put(WithProf(reg[unit], Mixed))
  /\ up' = FALSE
  /\ active' = FALSE /\ recovery' = FALSE /\ applied' = 0 /\ fresh' = FALSE
  /\ reserved' = FALSE /\ loop' = "idle"
  /\ job' = "none" /\ pc' = "none"
  /\ unit' = 0 /\ refused' = FALSE /\ previous' = 0
  /\ ticker' = "idle" /\ wcap' = 0
  /\ state' = "idle" /\ stage' = 0 /\ target' = 0
  /\ UNCHANGED <<own, journal>> /\ overlooked' = FALSE

\* Mutant: a tick does nothing unless a session is active.
TickerDecidesActive ==
  /\ up /\ ticker = "idle"
  /\ active
  /\ ticker' = "tick"
  /\ UNCHANGED <<device, record, up, service, reserved, loop, job, pc, seq, wcap, engine, faults>>

\* runConditioningTicks reads Status, which takes mu but not opMu, and acts on
\* what it read once opMu is free.
TickerDecides ==
  /\ up /\ ticker = "idle"
  /\ active \/ recovery
  /\ ticker' = IF active THEN "tick" ELSE "recover"
  /\ UNCHANGED <<device, record, up, service, reserved, loop, job, pc, seq, wcap, engine, faults>>

-----------------------------------------------------------------------------
\* Start, Tick, Stop and Recover, each to its first call that can wait.

Idle == up /\ job = "none"

BeginStart ==
  /\ Idle
  /\ ~active /\ ~recovery /\ ~reserved
  /\ reserved' = TRUE
  /\ job' = "start" /\ pc' = "await"
  /\ UNCHANGED <<device, record, up, service, loop, seq, ticker, wcap, engine, faults>>

BeginStop ==
  /\ Idle
  /\ \/ active /\ Engine!Stop /\ BeginRestore
     \/ /\ ~active /\ recovery
        /\ job' = "recover" /\ pc' = "load"
        /\ UNCHANGED <<active, recovery, engine>>
  /\ UNCHANGED <<device, record, up, applied, fresh, reserved, loop, seq, ticker, wcap, faults>>

BeginRecover ==
  /\ Idle /\ ticker = "recover"
  /\ ticker' = "busy"
  /\ job' = "recover" /\ pc' = "load"
  /\ UNCHANGED <<device, record, up, service, reserved, loop, seq, wcap, engine, faults>>

TickMoot ==
  /\ Idle /\ ticker = "tick"
  /\ ~active \/ ~fresh
  /\ ticker' = "idle"
  /\ UNCHANGED <<device, record, up, service, reserved, loop, job, pc, seq, wcap, engine, faults>>

\* No snapshot newer than the last write for DefaultMaxInverterAge.
TickBlind ==
  /\ Idle /\ ticker = "tick"
  /\ active /\ ~fresh
  /\ ticker' = "busy"
  /\ StopOnFault
  /\ UNCHANGED <<device, record, up, applied, fresh, reserved, loop, seq, wcap, faults>>

\* Mutant: the previous target is read after the engine's update.
TickHoldsLate ==
  /\ Idle /\ ticker = "tick"
  /\ active /\ fresh
  /\ ticker' = "busy"
  /\ \/ Engine!Advance
     \/ state = "running" /\ UNCHANGED engine
  /\ previous' = target'
  /\ job' = "check" /\ pc' = "await"
  /\ UNCHANGED <<device, record, up, service, reserved, loop, unit, refused, wcap, faults>>

\* The engine goes on, in its stage or the next.
TickHolds ==
  /\ Idle /\ ticker = "tick"
  /\ active /\ fresh
  /\ ticker' = "busy"
  /\ \/ Engine!Advance
     \/ state = "running" /\ UNCHANGED engine
  /\ previous' = target
  /\ job' = "check" /\ pc' = "await"
  /\ UNCHANGED <<device, record, up, service, reserved, loop, unit, refused, wcap, faults>>

\* The engine ends the session.
TickEnds ==
  /\ Idle /\ ticker = "tick"
  /\ active /\ fresh
  /\ ticker' = "busy"
  /\ Engine!Complete \/ Engine!Fault \/ Engine!TimeOut
  /\ BeginRestore
  /\ UNCHANGED <<device, record, up, applied, fresh, reserved, loop, seq, wcap, faults>>

-----------------------------------------------------------------------------
\* LoadConditioningJournal, in restore and in recoverLocked.
LoadFound ==
  /\ pc = "load"
  /\ journal # NoJournal
  /\ recovery' = TRUE /\ overlooked' = FALSE
  /\ reserved' = (reserved \/ job = "recover")
  /\ pc' = "await"
  /\ \/ UNCHANGED <<job, faults>>
     \/ job' = "suppress" /\ Fail
  /\ UNCHANGED <<device, journal, up, active, applied, fresh, loop, seq, ticker, wcap, engine>>

LoadMissing ==
  /\ pc = "load"
  /\ journal = NoJournal
  /\ \/ recovery /\ job' = "suppress" /\ pc' = "await" /\ UNCHANGED ticker
     \/ ~recovery /\ Finish
  /\ UNCHANGED <<device, record, up, service, reserved, loop, seq, wcap, engine, faults>>

\* The run loop takes the request and finds the write path reserved.
HubClaims ==
  /\ pc = "await" /\ loop = "idle"
  /\ reserved
  /\ loop' = "callback"
  /\ unit' = 0 /\ refused' = FALSE
  /\ \/ job = "start" /\ pc' = "capture"
     \/ job = "check" /\ pc' = "read"
     \/ job \notin {"start", "check"} /\ pc' = "zero"
  /\ UNCHANGED <<device, record, up, service, reserved, job, previous, ticker, wcap, engine,
                 faults>>

\* The run loop finds the write path free, or the caller's context expires
\* before the run loop has taken the request.
HubRefuses ==
  /\ pc = "await"
  /\ \/ loop = "idle" /\ ~reserved /\ UNCHANGED faults
     \/ Fail
  /\ Abandoned
  /\ UNCHANGED <<device, record, up, applied, fresh, reserved, loop, seq, wcap>>

-----------------------------------------------------------------------------
\* Start's callback up to its first register.  The checks of the snapshot, of the
\* registers and of the engine, or a save that leaves no journal.
CaptureRefused ==
  /\ pc = "capture"
  /\ \/ UNCHANGED <<engine, faults>>
     \/ Engine!Refuse /\ UNCHANGED faults
     \/ journal = NoJournal /\ Engine!Begin /\ Fail
  /\ loop' = "idle" /\ pc' = "release"
  /\ UNCHANGED <<device, record, up, service, reserved, job, seq, ticker, wcap>>

\* All checks are passed, and SaveConditioningJournal is called.
Capturing == pc = "capture" /\ \A u \in Units : reg[u].can = "on"

CaptureSaved ==
  /\ Capturing /\ journal = NoJournal
  /\ Engine!Begin
  /\ journal' = reg
  /\ pc' = "zero"
  /\ UNCHANGED <<device, overlooked, up, service, reserved, loop, job, seq, ticker, wcap, faults>>

\* The save fails and os.Stat finds a journal, one that is linked but whose directory
\* cannot be synced or one that has been overlooked: Begin and Abort.
CaptureUnsynced ==
  /\ \/ journal = NoJournal /\ journal' = reg /\ Fail
     \/ journal # NoJournal /\ UNCHANGED <<journal, faults>>
  /\ Engine!Refuse
  /\ recovery' = TRUE /\ overlooked' = FALSE
  /\ loop' = "idle" /\ Finish
  /\ UNCHANGED <<device, up, active, applied, fresh, reserved, seq, wcap>>

\* The disk fails the save and the os.Stat behind it: Start takes the journal on disk,
\* linked just now or overlooked before, for none.
CaptureOverlooked ==
  /\ LossyDisk /\ Fail
  /\ Engine!Begin
  /\ journal' = IF journal = NoJournal THEN reg ELSE journal
  /\ overlooked' = TRUE
  /\ loop' = "idle" /\ pc' = "release"
  /\ UNCHANGED <<device, up, service, reserved, job, seq, ticker, wcap>>

\* SaveConditioningJournal fails, and os.Stat asks whether there is one all the same.
CaptureUnsaved == Capturing /\ (CaptureUnsynced \/ CaptureOverlooked)

\* One unit written, or refused while charging is suppressed, and on to the next.
WriteUnit ==
  /\ Writing /\ ~LastUnit
  /\ \/ Put(Written(pc, unit)) /\ UNCHANGED <<refused, faults>>
     \/ Suppressing /\ Partly /\ refused' = TRUE /\ Fail
  /\ unit' = unit + 1
  /\ UNCHANGED <<own, record, up, service, reserved, loop, job, pc, previous, ticker, wcap, engine>>

\* The last unit of a register, and on to the next register.
WriteRegister ==
  /\ Writing /\ LastUnit /\ ~refused
  /\ \E q \in Points : Follows(job, pc, q) /\ pc' = q
  /\ Put(Written(pc, unit))
  /\ unit' = 0
  /\ UNCHANGED <<own, record, up, service, reserved, loop, job, refused, previous, ticker, wcap,
                 engine, faults>>

\* The last register of the sequence.
WriteLast ==
  /\ Writing /\ LastUnit /\ ~refused
  /\ \A q \in Points : ~Follows(job, pc, q)
  /\ Put(Written(pc, unit))
  /\ \/ /\ job = "start"
        /\ active' = TRUE /\ applied' = 1 /\ fresh' = FALSE
        /\ loop' = "idle" /\ Finish
     \/ /\ job = "stage"
        /\ applied' = target /\ fresh' = FALSE
        /\ loop' = "idle" /\ Finish /\ UNCHANGED active
     \/ /\ job = "suppress"
        /\ loop' = "idle" /\ Finish /\ UNCHANGED <<active, applied, fresh>>
     \/ /\ job = "undo"
        /\ pc' = "clear" /\ UNCHANGED <<active, applied, fresh, loop, job, ticker>>
     \/ /\ job \in {"restore", "recover"}
        /\ loop' = "idle"
        /\ pc' = "clear" /\ UNCHANGED <<active, applied, fresh, job, ticker>>
  /\ UNCHANGED <<own, record, up, recovery, reserved, seq, wcap, engine, faults>>

WriteFails ==
  /\ Writing
  /\ \/ /\ ~Suppressing \/ LastUnit
        /\ Partly /\ Fail
     \/ Suppressing /\ LastUnit /\ refused
        /\ Put(Written(pc, unit)) /\ UNCHANGED faults
  /\ CallbackFailed
  /\ UNCHANGED <<own, record, up, applied, fresh, reserved, previous, wcap>>

\* Tick's check of the registers against the stage applied last.
NoDrift ==
  \A u \in Units : reg[u] = [cap |-> TenAmps, prof |-> applied, can |-> "off"]

ReadSettings ==
  /\ pc = "read"
  /\ \/ /\ job = "check" /\ NoDrift
        /\ loop' = "idle"
        /\ \/ target = previous /\ Finish
           \/ target # previous /\ job' = "stage" /\ pc' = "await" /\ UNCHANGED ticker
     \/ /\ job # "check"
        /\ pc' = "prof"
        /\ UNCHANGED <<loop, job, ticker>>
  /\ UNCHANGED <<device, record, up, service, reserved, seq, wcap, engine, faults>>

ReadFails ==
  /\ pc = "read"
  /\ \/ Fail
     \/ job = "check" /\ ~NoDrift /\ UNCHANGED faults
  /\ CallbackFailed
  /\ UNCHANGED <<device, record, up, applied, fresh, reserved, previous, wcap>>

-----------------------------------------------------------------------------
\* ClearConditioningJournal: within Start's callback for undo, after the
\* callback for restore and recover.
Clear ==
  /\ pc = "clear"
  /\ journal' = NoJournal
  /\ pc' = "release" /\ loop' = "idle"
  /\ recovery' = (recovery /\ job # "undo")
  /\ UNCHANGED <<device, overlooked, up, active, applied, fresh, reserved, job, seq, ticker, wcap,
                 engine, faults>>

\* Mutant: a restoration is over although its record could not be cleared.
ClearFailsSilently ==
  /\ pc = "clear"
  /\ Fail
  /\ recovery' = FALSE
  /\ loop' = "idle" /\ Finish
  /\ UNCHANGED <<device, record, up, active, applied, fresh, reserved, seq, wcap, engine>>

\* A clear that fails puts the record back, if the disk lets it.
ClearFails ==
  /\ pc = "clear"
  /\ Fail
  /\ \/ UNCHANGED journal
     \/ LossyDisk /\ journal' = NoJournal
  /\ loop' = "idle" /\ Finish
  /\ UNCHANGED <<device, overlooked, up, service, reserved, seq, wcap, engine>>

\* ReleaseConditioning.  Start's deferred call also resets the engine; restore
\* clears active, which recoverLocked leaves alone.
Release ==
  /\ pc = "release"
  /\ reserved' = FALSE
  /\ \/ /\ job \in {"start", "undo"}
        /\ Engine!Reset /\ UNCHANGED <<active, recovery>>
     \/ /\ job \in {"restore", "recover"}
        /\ recovery' = FALSE /\ active' = (active /\ job = "recover")
        /\ UNCHANGED engine
  /\ Finish
  /\ UNCHANGED <<device, record, up, applied, fresh, loop, seq, wcap, faults>>

-----------------------------------------------------------------------------
\* The rest of the run loop.

\* A poll publishes a snapshot newer than the last write.  Only Tick, while a
\* session is active, looks at whether it is.
Poll ==
  /\ up /\ loop = "idle"
  /\ active /\ ~fresh
  /\ fresh' = TRUE
  /\ UNCHANGED <<device, record, up, active, recovery, applied, reserved, loop, job, pc, seq,
                 ticker, wcap, engine, faults>>

\* Mutant: handleWrite does not look at the reservation.
OwnerWriteUnchecked(c) ==
  /\ up /\ loop = "idle"
  /\ loop' = "write" /\ wcap' = c /\ unit' = 0
  /\ UNCHANGED <<device, record, up, service, reserved, job, pc, refused, previous, ticker, engine,
                 faults>>

\* handleWrite checks the reservation once, then writes unit after unit up to
\* the first that fails.
OwnerWrite(c) ==
  /\ up /\ loop = "idle"
  /\ ~reserved
  /\ loop' = "write" /\ wcap' = c /\ unit' = 0
  /\ UNCHANGED <<device, record, up, service, reserved, job, pc, refused, previous, ticker, engine,
                 faults>>

OwnerPut ==
  /\ reg' = [reg EXCEPT ![unit] = WithCap(@, wcap)]
  /\ own' = [own EXCEPT ![unit] = WithCap(@, wcap)]

OwnerWriteUnit ==
  /\ loop = "write"
  /\ \/ /\ OwnerPut /\ UNCHANGED faults
        /\ IF LastUnit THEN loop' = "idle" /\ UNCHANGED unit
           ELSE unit' = unit + 1 /\ UNCHANGED loop
     \/ /\ Fail
        /\ OwnerPut \/ UNCHANGED device
        /\ loop' = "idle" /\ UNCHANGED unit
  /\ UNCHANGED <<record, up, service, reserved, job, pc, refused, previous, ticker, wcap, engine>>

Step ==
  \/ LoadFound \/ LoadMissing \/ HubClaims \/ HubRefuses
  \/ CaptureRefused \/ CaptureSaved \/ CaptureUnsaved
  \/ WriteUnit \/ WriteRegister \/ WriteLast \/ WriteFails
  \/ ReadSettings \/ ReadFails
  \/ Clear \/ ClearFails \/ Release

Begin ==
  \/ BeginStart \/ BeginStop \/ BeginRecover
  \/ TickMoot \/ TickBlind \/ TickHolds \/ TickEnds

Next ==
  \/ Boot \/ Crash \/ TickerDecides
  \/ Begin \/ Step
  \/ Poll \/ OwnerWriteUnit \/ \E c \in OwnerCaps : OwnerWrite(c)

Spec == Init /\ [][Next]_vars

\* The scheduling the process is given: it is started again after a crash, the
\* run loop turns and takes each kind of request in turn (select chooses among
\* ready channels at random), the tick loop ticks, opMu starves no caller
\* (sync.Mutex hands over after 1 ms), and a session that goes on long enough
\* meets a tick that ends it (DefaultOverallTimeout).
Fairness ==
  /\ WF_vars(Boot) /\ WF_vars(TickerDecides)
  /\ WF_vars(Step) /\ WF_vars(Poll) /\ WF_vars(OwnerWriteUnit)
  /\ SF_vars(HubClaims \/ HubRefuses)
  /\ SF_vars(BeginRecover) /\ SF_vars(TickMoot) /\ SF_vars(TickEnds)

LiveSpec == Spec /\ Fairness

-----------------------------------------------------------------------------
(***************************************************************************)
(* Properties.                                                             *)
(***************************************************************************)

\* A journal that the process has not overlooked keeps the owner's writes out from the
\* moment it is up, whatever failed and whoever raced whom: no path releases the write
\* path before the journal is cleared (cmd/serve.go:77-85, hub.go:341-348,
\* conditioning.go:112-123, 332-335).  It takes a failed os.Stat behind a failed
\* save to overlook one, until it is next met.
JournalReserved == up /\ journal # NoJournal /\ ~overlooked => reserved

\* At every instant, across crashes and half-finished sequences, the owner's
\* values are either in the registers or in the journal, never in neither
\* (conditioning.go:144-153, 332-335).
RecordCoversDeviation == reg # own => journal = own

Uniform(p, c) == \A u \in Units : reg[u].prof = p /\ reg[u].can = c

\* "A voltage transition cannot create an uncontrolled charge surge"
\* (conditioning.go:249-251): whenever any unit may draw current, all units
\* hold one complete profile, the owner's or a single stage's, and a stage's
\* only with CAN control off.
NoSurge ==
  (\E u \in Units : reg[u].cap # 0) =>
    \/ Uniform(OwnerProfile, "on")
    \/ \E s \in 1 .. 3 : Uniform(s, "off")

\* Between two operations of an undisturbed session the engine, the service
\* and the registers of every unit agree on the stage (conditioning.go:176-183,
\* 252-262).
SessionAgrees ==
  active /\ ~recovery /\ job = "none" /\ journal # NoJournal =>
    state = "running" /\ applied = target /\ NoDrift

\* A restoration stops being pending only when every register carries its
\* owner's value again (conditioning.go:161-165, 335-338, 364-368).
RestoredMeansRestored ==
  [][up /\ recovery /\ up' /\ ~recovery' => reg = own /\ journal' = NoJournal]_vars

\* The transaction borrows the registers and gives them back.
Loan == INSTANCE SettingsLoan WITH lent <- journal # NoJournal

ImplementsLoan == Loan!Spec

\* "An unfinished restoration remains in the journal for retry": with failures
\* and crashes that come to an end, every journal is eventually cleared, after
\* a restoration that succeeded (README.md:67, cmd/serve.go:210-211).
JournalCleared == journal # NoJournal ~> journal = NoJournal

\* "The reservation is retained for the whole session" (conditioning.go:90-91).
ReservationRetained == active => reserved
=============================================================================
