---------------------- MODULE ChargeTransactionProofs -----------------------
(***************************************************************************)
(* ChargeTransaction, for any number of units, any owner's values, any     *)
(* number of faults, and a disk that may lose the journal or hide it.      *)
(*                                                                         *)
(* First its control: where each operation can be, who is reserved against *)
(* whom, and what the engine and the flags know of each other.  Then what  *)
(* the registers hold at every step of the transaction: from it, NoSurge   *)
(* and SessionAgrees on any disk, and, on a disk that keeps and shows what *)
(* it is given, that the owner's values are recorded and given back and    *)
(* that the transaction implements SettingsLoan.                           *)
(***************************************************************************)
EXTENDS ChargeTransaction, TLAPS

\* Where each operation can be, and what holds opMu, the run loop and the
\* process together.
AtItsPoint ==
  /\ job = "none"     => pc = "none"
  /\ job = "start"    => pc \in {"await", "capture", "zero", "can", "prof", "cap", "release"}
  /\ job = "undo"     => pc \in {"zero", "read", "prof", "can", "cap", "clear", "release"}
  /\ job = "suppress" => pc \in {"await", "zero"}
  /\ job = "check"    => pc \in {"await", "read"}
  /\ job = "stage"    => pc \in {"await", "zero", "prof", "cap"}
  /\ job \in {"restore", "recover"} =>
       pc \in {"load", "await", "zero", "read", "prof", "can", "cap", "clear", "release"}

InCallback ==
  \/ pc \in {"capture", "zero", "read", "prof", "can", "cap"}
  \/ pc = "clear" /\ job = "undo"

Located ==
  /\ AtItsPoint
  /\ loop = "callback" <=> InCallback
  /\ ~up => job = "none" /\ loop = "idle"

\* What the reservation and the journal say about the operation in progress.
Guarded ==
  /\ up /\ journal # NoJournal /\ ~overlooked => reserved
  /\ overlooked => /\ up /\ LossyDisk /\ journal # NoJournal /\ ~active /\ ~recovery
                   /\ job = "start" => pc \in {"await", "capture", "release"}
                   /\ job # "start" => pc \in {"none", "load"}
  /\ loop = "callback" => reserved
  /\ job \in {"start", "undo"} => reserved
  /\ job = "start" => (journal = NoJournal \/ overlooked <=> pc \in {"await", "capture", "release"})
  /\ job = "undo" /\ pc # "release" => journal # NoJournal
  /\ job \in {"restore", "recover"} /\ pc \notin {"load", "release"} => journal # NoJournal
  /\ pc = "release" => journal = NoJournal \/ (overlooked /\ job = "start")
  /\ job = "stage" => reserved /\ loop # "write"
  /\ loop = "write" /\ journal # NoJournal => LossyDisk /\ (overlooked \/ recovery)
  /\ pc = "clear" => loop # "write"

\* What the engine, the service's flags and the operation know of each other.
Session ==
  /\ state = "running" => target = stage /\ stage \in 1 .. 3
  /\ active => state = "running"
  /\ job \in {"check", "stage"} => active
  /\ job \in {"start", "undo"} => ~active
  /\ job = "start" => ~recovery
  /\ job = "start" /\ pc \notin {"await", "capture", "release"} => state = "running" /\ target = 1
  /\ job \in {"restore", "suppress"} => recovery
  /\ job = "recover" /\ pc # "load" => recovery
  /\ job = "undo" /\ pc # "release" => recovery

\* The inductive invariant.
Control == TypeOK /\ Located /\ Guarded /\ Session

-----------------------------------------------------------------------------
\* The engine is driven by nothing but its own operations.
LEMMA EngineStep ==
  ASSUME [Next]_vars
  PROVE  [Engine!Next]_engine
BY DEF Next, Begin, Step, Boot, Crash, TickerDecides, BeginStart, BeginStop, BeginRecover,
       TickMoot, TickBlind, TickHolds, TickEnds, LoadFound, LoadMissing, HubClaims, HubRefuses,
       CaptureRefused, CaptureSaved, CaptureUnsaved, CaptureUnsynced, CaptureOverlooked, Capturing,
       WriteUnit, WriteRegister, WriteLast,
       WriteFails, ReadSettings, ReadFails, Clear, ClearFails, Release, Poll, OwnerWriteUnit,
       OwnerWrite,
       CallbackFailed, Abandoned, Finish, StopOnFault, BeginRestore,
       Engine!Next, Engine!Reset, vars, device, record, service, engine, seq

\* Those operations keep its variables in their types.
LEMMA EngineTypes ==
  ASSUME Engine!TypeOK, [Engine!Next]_engine
  PROVE  Engine!TypeOK'
BY DEF Engine!TypeOK, Engine!States, Engine!Terminal, Engine!Next, engine, Engine!Begin,
     Engine!Refuse, Engine!Advance, Engine!Complete,
       Engine!Fault, Engine!TimeOut, Engine!Stop, Engine!Abort, Engine!End, Engine!Reset

\* Failures are counted up to their bound.
LEMMA FaultsStep ==
  ASSUME TypeOK, [Next]_vars
  PROVE  faults' \in 0 .. MaxFaults
<1>1. UNCHANGED faults \/ Fail
  BY DEF Next, Begin, Step, Boot, Crash, TickerDecides, BeginStart, BeginStop, BeginRecover,
       TickMoot, TickBlind, TickHolds, TickEnds, LoadFound, LoadMissing, HubClaims, HubRefuses,
       CaptureRefused, CaptureSaved, CaptureUnsaved, CaptureUnsynced, CaptureOverlooked, Capturing,
       WriteUnit, WriteRegister, WriteLast,
       WriteFails, ReadSettings, ReadFails, Clear, ClearFails, Release, Poll, OwnerWriteUnit,
       OwnerWrite, vars, device, record, service, engine, seq
<1> QED
  BY <1>1, FaultsAssumption DEF Fail, TypeOK

\* Flags, small values and the control of every actor keep their types.
LEMMA ControlTypes ==
  ASSUME TypeOK, [Next]_vars
  PROVE  /\ up' \in BOOLEAN /\ active' \in BOOLEAN /\ recovery' \in BOOLEAN
         /\ overlooked' \in BOOLEAN
         /\ fresh' \in BOOLEAN /\ reserved' \in BOOLEAN /\ refused' \in BOOLEAN
         /\ applied' \in 0 .. 3 /\ previous' \in 0 .. 3 /\ wcap' \in OwnerCaps \cup {0}
         /\ loop' \in {"idle", "write", "callback"}
         /\ job' \in Jobs /\ pc' \in Points
         /\ ticker' \in {"idle", "tick", "recover", "busy"}
         /\ unit' \in Units
<1> USE DEF TypeOK, Next, Begin, Step, Boot, Crash, TickerDecides, BeginStart, BeginStop,
     BeginRecover, TickMoot, TickBlind, TickHolds, TickEnds, LoadFound, LoadMissing, HubClaims,
     HubRefuses, CaptureRefused, CaptureSaved, CaptureUnsaved, CaptureUnsynced,
     CaptureOverlooked, Capturing, WriteUnit, WriteRegister, WriteLast, WriteFails, ReadSettings,
     ReadFails, Clear, ClearFails, Release, Poll, OwnerWriteUnit, OwnerWrite,
     CallbackFailed, Abandoned, Finish, StopOnFault, BeginRestore, vars, device, record,
     service, engine, seq
<1>1. /\ up' \in BOOLEAN /\ active' \in BOOLEAN /\ recovery' \in BOOLEAN /\ overlooked' \in BOOLEAN
      /\ fresh' \in BOOLEAN /\ reserved' \in BOOLEAN /\ refused' \in BOOLEAN
  <2>1. up' \in BOOLEAN /\ active' \in BOOLEAN /\ overlooked' \in BOOLEAN
    OBVIOUS
  <2>2. recovery' \in BOOLEAN /\ fresh' \in BOOLEAN
    OBVIOUS
  <2>3. reserved' \in BOOLEAN /\ refused' \in BOOLEAN
    OBVIOUS
  <2> QED  BY <2>1, <2>2, <2>3
<1>2. applied' \in 0 .. 3 /\ previous' \in 0 .. 3 /\ wcap' \in OwnerCaps \cup {0}
  BY DEF Engine!TypeOK
<1>3. /\ loop' \in {"idle", "write", "callback"}
      /\ job' \in Jobs /\ pc' \in Points
      /\ ticker' \in {"idle", "tick", "recover", "busy"}
  BY DEF Jobs, Points
<1>4. unit' \in Units
  BY UnitsAssumption DEF Units, LastUnit
<1> QED
  BY <1>1, <1>2, <1>3, <1>4

\* What a sequence writes into a unit is a setting: the restoring ones have a
\* journal to take it from.
LEMMA WrittenType ==
  ASSUME TypeOK, Located, Guarded, Writing
  PROVE  Written(pc, unit) \in Setting
<1>1. reg[unit] \in Setting
  BY DEF TypeOK, Settings
<1>2. job \in {"undo", "restore", "recover"} => journal[unit] \in Setting
  BY DEF TypeOK, Settings, Guarded, Writing
<1>3. target \in 0 .. 3
  BY DEF TypeOK, Engine!TypeOK
<1> QED
  BY <1>1, <1>2, <1>3 DEF Written, Writing, Located, AtItsPoint, Jobs, TypeOK, Setting, TenAmps

\* So is what a failed write or a crash leaves behind.
LEMMA PartlyType ==
  ASSUME TypeOK, Located, Guarded, Writing, Partly
  PROVE  reg' \in Settings
<1>1. reg[unit] \in Setting /\ WithProf(reg[unit], Mixed) \in Setting
  BY DEF TypeOK, Settings, Setting, WithProf, Mixed
<1> QED
  BY <1>1, WrittenType DEF Partly, Put, TypeOK, Settings

\* The registers and what their owner set keep their type.
LEMMA RegisterTypes ==
  ASSUME TypeOK, Located, Guarded, [Next]_vars
  PROVE  reg' \in Settings /\ own' \in Settings
<1>1. CASE UNCHANGED device
  BY <1>1 DEF TypeOK, device
<1>2. CASE Crash /\ reg' # reg
  <2>1. WithProf(reg[unit], Mixed) \in Setting
    BY DEF TypeOK, Settings, Setting, WithProf, Mixed
  <2> QED
    BY <1>2, <2>1 DEF Crash, Put, TypeOK, Settings
<1>3. CASE WriteUnit \/ WriteRegister \/ WriteLast \/ WriteFails
  BY <1>3, WrittenType, PartlyType
     DEF WriteUnit, WriteRegister, WriteLast, WriteFails, Put, TypeOK, Settings
<1>4. CASE OwnerWriteUnit
  <2>1. WithCap(reg[unit], wcap) \in Setting /\ WithCap(own[unit], wcap) \in Setting
    BY DEF TypeOK, Settings, Setting, WithCap
  <2> QED
    BY <1>4, <2>1 DEF OwnerWriteUnit, OwnerPut, TypeOK, Settings, device
<1> QED
  BY <1>1, <1>2, <1>3, <1>4
  DEF Next, Begin, Step, Boot, Crash, TickerDecides, BeginStart, BeginStop, BeginRecover,
       TickMoot, TickBlind, TickHolds, TickEnds, LoadFound, LoadMissing, HubClaims, HubRefuses,
       CaptureRefused, CaptureSaved, CaptureUnsaved, CaptureUnsynced, CaptureOverlooked, Capturing,
       WriteUnit, WriteRegister, WriteLast,
       WriteFails, ReadSettings, ReadFails, Clear, ClearFails, Release, Poll, OwnerWriteUnit,
       OwnerWrite,
       vars, device, record, service, engine, seq

\* Every step keeps every type.
LEMMA TypeStep ==
  ASSUME TypeOK, Located, Guarded, [Next]_vars
  PROVE  TypeOK'
<1>1. journal' \in Settings \cup {NoJournal}
  BY DEF TypeOK, Next, Begin, Step, Boot, Crash, TickerDecides, BeginStart, BeginStop,
       BeginRecover,
       TickMoot, TickBlind, TickHolds, TickEnds, LoadFound, LoadMissing, HubClaims, HubRefuses,
       CaptureRefused, CaptureSaved, CaptureUnsaved, CaptureUnsynced, CaptureOverlooked, Capturing,
       WriteUnit, WriteRegister, WriteLast,
       WriteFails, ReadSettings, ReadFails, Clear, ClearFails, Release, Poll, OwnerWriteUnit,
       OwnerWrite,
       CallbackFailed, Abandoned, Finish, StopOnFault, BeginRestore, vars, device, record,
       service,
       engine, seq
<1>2. Engine!TypeOK'
  BY EngineStep, EngineTypes DEF TypeOK
<1> QED
  BY <1>1, <1>2, FaultsStep, ControlTypes, RegisterTypes DEF TypeOK

-----------------------------------------------------------------------------
\* Every operation goes from one of its points to the next, and the run loop is
\* in its callback exactly while it should be.
LEMMA LocatedStep ==
  ASSUME TypeOK, Located, [Next]_vars
  PROVE  Located'
BY DEF TypeOK, Jobs, Points, Located, AtItsPoint, InCallback, Idle, Writing, Follows,
       Next, Begin, Step, Boot, Crash, TickerDecides, BeginStart, BeginStop, BeginRecover,
       TickMoot, TickBlind, TickHolds, TickEnds, LoadFound, LoadMissing, HubClaims, HubRefuses,
       CaptureRefused, CaptureSaved, CaptureUnsaved, CaptureUnsynced, CaptureOverlooked, Capturing,
       WriteUnit, WriteRegister, WriteLast,
       WriteFails, ReadSettings, ReadFails, Clear, ClearFails, Release, Poll, OwnerWriteUnit,
       OwnerWrite,
       CallbackFailed, Abandoned, Finish, StopOnFault, BeginRestore, vars, device, record,
       service,
       engine, seq

\* The reservation outlives the journal, and no owner's write runs beside one.
LEMMA GuardedStep ==
  ASSUME TypeOK, Located, Guarded, Session, [Next]_vars
  PROVE  Guarded'
<1> USE DEF Guarded, Located, AtItsPoint, InCallback, Jobs, TypeOK, device, record, service,
     engine, seq
<1>1. CASE Boot
  BY <1>1 DEF Boot
<1>2. CASE Crash
  BY <1>2 DEF Crash, Writing
<1>3. CASE TickerDecides
  BY <1>3 DEF TickerDecides
<1>4. CASE BeginStart
  BY <1>4 DEF BeginStart, Idle
<1>5. CASE BeginStop
  BY <1>5 DEF BeginStop, Idle, BeginRestore
<1>6. CASE BeginRecover
  BY <1>6 DEF BeginRecover, Idle
<1>7. CASE TickMoot
  BY <1>7 DEF TickMoot, Idle
<1>8. CASE TickBlind
  BY <1>8 DEF TickBlind, Idle, StopOnFault, BeginRestore
<1>9. CASE TickHolds
  BY <1>9 DEF TickHolds, Idle
<1>10. CASE TickEnds
  BY <1>10 DEF TickEnds, Idle, BeginRestore
<1>11. CASE LoadFound
  BY <1>11 DEF LoadFound, Session
<1>12. CASE LoadMissing
  BY <1>12 DEF LoadMissing, Finish
<1>13. CASE HubClaims
  BY <1>13 DEF HubClaims
<1>14. CASE HubRefuses
  BY <1>14 DEF HubRefuses, Abandoned, Finish, StopOnFault, BeginRestore
<1>15. CASE CaptureRefused
  BY <1>15 DEF CaptureRefused
<1>16. CASE CaptureSaved
  BY <1>16, JournalAssumption DEF CaptureSaved, Capturing
<1>17. CASE CaptureUnsaved
  <2>1. CASE CaptureUnsynced
    BY <1>17, <2>1, JournalAssumption DEF CaptureUnsaved, CaptureUnsynced, Capturing, Finish,
         Session
  <2>2. CASE CaptureOverlooked
    BY <1>17, <2>2, JournalAssumption DEF CaptureUnsaved, CaptureOverlooked, Capturing, Session
  <2> QED
    BY <1>17, <2>1, <2>2 DEF CaptureUnsaved
<1>18. CASE WriteUnit
  BY <1>18 DEF WriteUnit, Writing, Suppressing
<1>19. CASE WriteRegister
  BY <1>19 DEF WriteRegister, Writing, Follows
<1>20. CASE WriteLast
  BY <1>20 DEF WriteLast, Writing, Finish, Follows
<1>21. CASE WriteFails
  BY <1>21 DEF WriteFails, Writing, Suppressing, CallbackFailed, Abandoned, Finish, StopOnFault,
       BeginRestore
<1>22. CASE ReadSettings
  BY <1>22 DEF ReadSettings, Finish
<1>23. CASE ReadFails
  BY <1>23 DEF ReadFails, CallbackFailed, Abandoned, Finish, StopOnFault, BeginRestore
<1>24. CASE Clear
  BY <1>24 DEF Clear
<1>25. CASE ClearFails
  BY <1>25 DEF ClearFails, Finish
<1>26. CASE Release
  BY <1>26 DEF Release, Finish
<1>27. CASE Poll
  BY <1>27 DEF Poll
<1>28. CASE OwnerWriteUnit
  BY <1>28 DEF OwnerWriteUnit
<1>29. CASE \E c \in OwnerCaps : OwnerWrite(c)
  BY <1>29 DEF OwnerWrite
<1>30. CASE UNCHANGED vars
  BY <1>30 DEF vars
<1> QED
  BY <1>1, <1>2, <1>3, <1>4, <1>5, <1>6, <1>7, <1>8, <1>9, <1>10, <1>11, <1>12, <1>13, <1>14,
       <1>15, <1>16,
     <1>17, <1>18, <1>19, <1>20, <1>21, <1>22, <1>23, <1>24, <1>25, <1>26, <1>27, <1>28, <1>29,
     <1>30 DEF Next, Begin, Step

\* The engine runs while a session does, and the flags follow the operation.
LEMMA SessionStep ==
  ASSUME TypeOK, Located, Guarded, Session, [Next]_vars
  PROVE  Session'
BY DEF TypeOK, Jobs, Points, Located, AtItsPoint, InCallback, Guarded, Session, Idle, Writing,
       Follows, Next, Begin, Step, Boot, Crash, TickerDecides, BeginStart, BeginStop,
       BeginRecover,
       TickMoot, TickBlind, TickHolds, TickEnds, LoadFound, LoadMissing, HubClaims, HubRefuses,
       CaptureRefused, CaptureSaved, CaptureUnsaved, CaptureUnsynced, CaptureOverlooked, Capturing,
       WriteUnit, WriteRegister, WriteLast,
       WriteFails, ReadSettings, ReadFails, Clear, ClearFails, Release, Poll, OwnerWriteUnit,
       OwnerWrite,
       CallbackFailed, Abandoned, Finish, StopOnFault, BeginRestore,
       Engine!TypeOK, Engine!States, Engine!Terminal, Engine!Begin, Engine!Refuse,
       Engine!Advance, Engine!Complete,
       Engine!Fault, Engine!TimeOut, Engine!Stop, Engine!Abort, Engine!End, Engine!Reset,
       vars, device, record, service, engine, seq

\* The initial state satisfies all four.
LEMMA ControlInit ==
  ASSUME Init
  PROVE  Control
<1>1. reg \in Settings /\ own \in Settings
  BY DEF Init, Settings, Setting, OwnerProfile
<1>2. Engine!TypeOK /\ state = "idle"
  BY DEF Init, Engine!Init, Engine!TypeOK, Engine!States
<1>3. unit \in Units /\ faults \in 0 .. MaxFaults
  BY UnitsAssumption, FaultsAssumption DEF Init, Units
<1>4. TypeOK
  <2>1. /\ up \in BOOLEAN /\ active \in BOOLEAN /\ recovery \in BOOLEAN /\ overlooked \in BOOLEAN
        /\ fresh \in BOOLEAN /\ reserved \in BOOLEAN /\ refused \in BOOLEAN
    BY DEF Init
  <2>2. /\ journal \in Settings \cup {NoJournal}
        /\ applied \in 0 .. 3 /\ previous \in 0 .. 3 /\ wcap \in OwnerCaps \cup {0}
    BY DEF Init
  <2>3. /\ loop \in {"idle", "write", "callback"} /\ job \in Jobs /\ pc \in Points
        /\ ticker \in {"idle", "tick", "recover", "busy"}
    BY DEF Init, Jobs, Points
  <2> QED
    BY <1>1, <1>2, <1>3, <2>1, <2>2, <2>3 DEF TypeOK
<1>5. Located /\ Guarded /\ Session
  BY <1>2 DEF Init, Located, AtItsPoint, InCallback, Guarded, Session
<1> QED
  BY <1>4, <1>5 DEF Control

\* Every step keeps all four: together they are inductive.
LEMMA ControlStep ==
  ASSUME Control, [Next]_vars
  PROVE  Control'
BY TypeStep, LocatedStep, GuardedStep, SessionStep DEF Control

\* Control is invariant.
THEOREM ControlInvariant == Spec => []Control
<1>1. Init => Control
  BY ControlInit
<1>2. Control /\ [Next]_vars => Control'
  BY ControlStep
<1> QED
  BY <1>1, <1>2, PTL DEF Spec

\* TypeOK: every variable keeps its type, for any number of units.
THEOREM TransactionTypeCorrect == Spec => []TypeOK
<1>1. Control => TypeOK
  BY DEF Control
<1> QED
  BY <1>1, ControlInvariant, PTL

\* JournalReserved: the write path is reserved while a journal exists that the process
\* has not overlooked, whatever fails and whoever races whom.
THEOREM JournalReservedHolds == Spec => []JournalReserved
<1>1. Control => JournalReserved
  BY DEF Control, Guarded, JournalReserved
<1> QED
  BY <1>1, ControlInvariant, PTL
-----------------------------------------------------------------------------
\* The registers r carry the owner's charge profile.
OwnersProfile(r) == \A u \in Units : r[u].prof = OwnerProfile /\ r[u].can = "on"

\* No unit may draw current.
Zeroed == \A u \in Units : reg[u].cap = 0

\* The units the loop of the sequence in progress is past.
Done == {u \in Units : u < unit}

\* The first register of a sequence leaves no unit drawing current, and none
\* draws any while the next ones are written.
Suppressed ==
  /\ pc \in {"capture", "read"} => unit = 0
  /\ InCallback /\ ~Suppressing => ~refused
  /\ pc = "zero" /\ ~refused => \A u \in Done : reg[u].cap = 0
  /\ pc \in {"can", "prof"} \/ (pc = "read" /\ job # "check") => Zeroed

\* The registers of a sequence that applies stage s.
Staging(s) ==
  /\ pc = "prof" => \A u \in Units : reg[u].can = "off" /\ (u \in Done => reg[u].prof = s)
  /\ pc = "cap" =>
       \A u \in Units :
         /\ reg[u].prof = s /\ reg[u].can = "off"
         /\ reg[u].cap = IF u \in Done THEN TenAmps ELSE 0

\* The registers of a sequence that restores them from the journal.
Restoring ==
  /\ pc = "prof" => \A u \in Done : reg[u].prof = OwnerProfile
  /\ pc = "can" => \A u \in Units : /\ reg[u].prof = OwnerProfile
                                    /\ u \in Done => reg[u].can = "on"
  /\ pc = "cap" => OwnersProfile(reg) /\ \A u \in Done : reg[u].cap = journal[u].cap
  /\ pc = "clear" => reg = journal

\* applyStart, applyStage and restoreUnits, as far as each has come.
Starting ==
  job = "start" => /\ Staging(1)
                   /\ pc = "can" => \A u \in Done : reg[u].can = "off"

Changing == job = "stage" => Staging(target) /\ \A u \in Units : reg[u].can = "off"

Returning == job \in {"undo", "restore", "recover"} => Restoring

Sequenced == Suppressed /\ Starting /\ Changing /\ Returning

\* The owner's profile is in the registers or in the journal, and in the registers while
\* the owner writes or the journal is overlooked.
OwnersKept ==
  /\ journal = NoJournal => OwnersProfile(reg)
  /\ journal # NoJournal => OwnersProfile(journal)
  /\ overlooked \/ loop = "write" => OwnersProfile(reg)

Profiles == OwnersKept /\ NoSurge

\* The stage the registers hold while a session goes on undisturbed.
Held ==
  active /\ ~recovery /\ journal # NoJournal =>
    /\ job \in {"none", "recover"} => applied = target /\ NoDrift
    /\ job = "check" => applied = previous /\ NoDrift

Registers == Control /\ Sequenced /\ Profiles /\ Held

-----------------------------------------------------------------------------
\* A write lands in the unit the loop is at, and nowhere else.
LEMMA Placed ==
  ASSUME TypeOK, NEW s, Put(s)
  PROVE  reg'[unit] = s /\ \A u \in Units \ {unit} : reg'[u] = reg[u]
BY DEF TypeOK, Put, Settings

\* What a write may leave in that unit, field by field, whether or not it succeeds.
LEMMA PartlyUnit ==
  ASSUME TypeOK, Partly
  PROVE  /\ \A u \in Units \ {unit} : reg'[u] = reg[u]
         /\ pc \in {"can", "prof"} => reg'[unit].cap = reg[unit].cap
         /\ pc = "zero" => /\ reg'[unit].cap \in {reg[unit].cap, 0}
                           /\ reg'[unit].prof = reg[unit].prof /\ reg'[unit].can = reg[unit].can
         /\ pc = "cap" => reg'[unit].prof = reg[unit].prof /\ reg'[unit].can = reg[unit].can
<1>1. unit \in Units
  BY DEF TypeOK
<1> QED
  BY <1>1, Placed DEF Partly, Written, WithProf

\* No write lets a unit draw current beside an incomplete profile.
LEMMA WriteNoSurge ==
  ASSUME Control, Sequenced, Profiles, Writing, Partly, job \in Jobs \ {"none", "check"}
  PROVE  NoSurge'
<1>1. unit \in Units
  BY DEF Control, TypeOK
<1>2. CASE pc \in {"can", "prof"}
  <2>1. \A u \in Units : reg'[u].cap = 0
    BY <1>1, <1>2, PartlyUnit DEF Control, Sequenced, Suppressed, Zeroed
  <2> QED
    BY <2>1 DEF NoSurge
<1>3. CASE pc = "zero"
  <2>1. \A u \in Units : /\ reg'[u].cap # 0 => reg[u].cap # 0
                         /\ reg'[u].prof = reg[u].prof /\ reg'[u].can = reg[u].can
    BY <1>1, <1>3, PartlyUnit DEF Control
  <2> QED
    BY <2>1 DEF NoSurge, Profiles, Uniform
<1>4. CASE pc = "cap"
  <2>1. \A u \in Units : reg'[u].prof = reg[u].prof /\ reg'[u].can = reg[u].can
    BY <1>1, <1>4, PartlyUnit DEF Control
  <2>2. Uniform(OwnerProfile, "on") \/ \E s \in 1 .. 3 : Uniform(s, "off")
    BY <1>4 DEF Uniform, Control, Located, AtItsPoint, Session, Sequenced, Starting, Changing,
         Returning, Staging, Restoring,
         OwnersProfile, Jobs, TypeOK
  <2> QED
    BY <2>1, <2>2 DEF NoSurge, Uniform
<1> QED
  BY <1>2, <1>3, <1>4 DEF Writing

\* Going on to the next unit keeps the units behind it suppressed.
LEMMA SuppressedWriteUnit ==
  ASSUME Control, Suppressed, WriteUnit
  PROVE  Suppressed'
<1>1. unit \in Units /\ unit' = unit + 1 /\ pc' = pc /\ job' = job
  BY DEF Control, TypeOK, WriteUnit
<1>2. Partly
  BY DEF WriteUnit, Partly
<1>3. pc = "zero" /\ ~refused' => reg'[unit].cap = 0 /\ ~refused
  BY Placed DEF WriteUnit, Written, Control
<1>4. pc = "zero" /\ ~refused' => \A u \in Done' : reg'[u].cap = 0
  BY <1>1, <1>2, <1>3, PartlyUnit, UnitsAssumption DEF Suppressed, Done, Units, Control
<1>5. pc \in {"can", "prof"} => Zeroed'
  BY <1>1, <1>2, PartlyUnit DEF Suppressed, Zeroed, Control
<1>6. InCallback' /\ ~Suppressing' => ~refused'
  BY <1>1 DEF Suppressed, WriteUnit, InCallback, Suppressing
<1> QED
  BY <1>1, <1>4, <1>5, <1>6 DEF Suppressed, WriteUnit, Writing

\* Going on to the next unit, in detail.
LEMMA UnitWritten ==
  ASSUME Control, WriteUnit
  PROVE  /\ unit \in Units /\ unit' \in Units /\ pc' = pc /\ job' = job /\ target' = target
         /\ journal' = journal
         /\ Done' = Done \cup {unit}
         /\ \A u \in Units \ {unit} : reg'[u] = reg[u]
         /\ ~Suppressing => reg'[unit] = Written(pc, unit)
<1>1. unit \in Units /\ unit' = unit + 1 /\ unit # N - 1
  BY DEF Control, TypeOK, WriteUnit, LastUnit
<1>2. unit' \in Units /\ Done' = Done \cup {unit}
  BY <1>1, UnitsAssumption DEF Done, Units
<1>3. \A u \in Units \ {unit} : reg'[u] = reg[u]
  BY PartlyUnit DEF WriteUnit, Partly, Control
<1>4. ~Suppressing => reg'[unit] = Written(pc, unit)
  BY Placed DEF WriteUnit, Control
<1> QED
  BY <1>1, <1>2, <1>3, <1>4 DEF WriteUnit, engine, record

\* Applying a stage, unit by unit.
LEMMA StagingWriteUnit ==
  ASSUME Control, Sequenced, WriteUnit, NEW s \in 1 .. 3, Staging(s),
         job \in {"start", "stage"}, s = IF job = "start" THEN 1 ELSE target
  PROVE  Staging(s)'
<1>1. pc \in {"prof", "cap"} => reg'[unit] = Written(pc, unit)
  BY UnitWritten DEF Suppressing
<1>2. CASE pc = "prof"
  BY <1>1, <1>2, UnitWritten DEF Staging, Written
<1>3. CASE pc = "cap"
  BY <1>1, <1>3, UnitWritten DEF Staging, Written
<1> QED
  BY <1>2, <1>3, UnitWritten DEF Staging

\* Restoring the owner's registers, unit by unit.
LEMMA RestoringWriteUnit ==
  ASSUME Control, Sequenced, Profiles, WriteUnit, Restoring, job \in {"undo", "restore",
       "recover"}
  PROVE  Restoring'
<1>1. pc # "zero" => reg'[unit] = Written(pc, unit)
  BY UnitWritten DEF Suppressing
<1>2. journal # NoJournal
  BY DEF Control, Guarded, WriteUnit, Writing
<1>3. journal[unit].prof = OwnerProfile /\ journal[unit].can = "on"
  BY <1>2, UnitWritten DEF Profiles, OwnersKept, OwnersProfile
<1>4. CASE pc = "prof"
  <2>1. reg'[unit].prof = OwnerProfile
    BY <1>1, <1>3, <1>4 DEF Written
  <2> QED
    BY <1>4, <2>1, UnitWritten DEF Restoring, Done
<1>5. CASE pc = "can"
  BY <1>1, <1>3, <1>5, UnitWritten DEF Restoring, Written
<1>6. CASE pc = "cap"
  <2>1. /\ reg'[unit].cap = journal[unit].cap
        /\ reg'[unit].prof = reg[unit].prof /\ reg'[unit].can = reg[unit].can
    BY <1>1, <1>6 DEF Written
  <2> QED
    BY <1>6, <2>1, UnitWritten DEF Restoring, OwnersProfile, Done
<1> QED
  BY <1>4, <1>5, <1>6, UnitWritten DEF Restoring, WriteUnit, Writing

\* The last write of a restoration completes what the journal recorded.
LEMMA Restored ==
  ASSUME Control, Sequenced, Profiles, WriteLast, job \in {"undo", "restore", "recover"}
  PROVE  reg' = journal /\ journal' = journal /\ pc' = "clear"
<1>1. pc = "cap" /\ Restoring /\ journal # NoJournal /\ unit = N - 1
  BY DEF WriteLast, Writing, Follows, Sequenced, Returning, Control, Guarded, LastUnit, Points
<1>2. reg'[unit] = Written("cap", unit) /\ \A u \in Units \ {unit} : reg'[u] = reg[u]
  BY <1>1, Placed DEF WriteLast, Control
<1>3. /\ journal \in Settings /\ reg \in Settings /\ unit \in Units
      /\ OwnersProfile(reg) /\ OwnersProfile(journal)
  BY <1>1 DEF Control, TypeOK, Restoring, Profiles, OwnersKept
<1>4. reg' \in Settings
  BY RegisterTypes DEF Control, Next, Step
<1>5. ASSUME NEW u \in Units PROVE reg'[u] = journal[u]
  <2>1. reg'[u].cap = journal[u].cap
    <3>1. u # unit => u \in Done
      BY <1>1, <1>3, UnitsAssumption DEF Done, Units
    <3> QED
      BY <1>1, <1>2, <3>1 DEF Restoring, Written
  <2>2. reg'[u].prof = OwnerProfile /\ reg'[u].can = "on"
    BY <1>2, <1>3 DEF OwnersProfile, Written
  <2>3. journal[u].prof = OwnerProfile /\ journal[u].can = "on"
    BY <1>3 DEF OwnersProfile
  <2> QED
    BY <1>3, <1>4, <2>1, <2>2, <2>3 DEF Settings, Setting
<1>6. reg' = journal
  BY <1>3, <1>4, <1>5 DEF Settings
<1> QED
  BY <1>1, <1>6 DEF WriteLast, record

\* Switching CAN control off, unit by unit.
LEMMA CanWriteUnit ==
  ASSUME Control, WriteUnit, job = "start", pc = "can", \A u \in Done : reg[u].can = "off"
  PROVE  \A u \in Done' : reg'[u].can = "off"
<1>1. reg'[unit].can = "off"
  BY UnitWritten DEF Suppressing, Written
<1> QED
  BY <1>1, UnitWritten DEF Done

\* Every step keeps the units without current while it must.
LEMMA SuppressedStep ==
  ASSUME Control, Suppressed, [Next]_vars
  PROVE  Suppressed'
<1> USE UnitsAssumption DEF Suppressed, Zeroed, Control, TypeOK, Settings, Setting, Located,
     AtItsPoint, InCallback, Guarded, Session, Jobs, Units, Done, OwnerProfile, Mixed, TenAmps,
     Written, WithProf, WithCap, Suppressing, device, record, service, engine, seq
<1>1. CASE Boot \/ Crash \/ TickerDecides
  BY <1>1 DEF Boot, Crash, Put, Writing, TickerDecides
<1>2. CASE BeginStart \/ BeginStop \/ BeginRecover \/ TickMoot \/ TickBlind \/ TickHolds
     \/ TickEnds
  BY <1>2 DEF BeginStart, Idle, BeginStop, BeginRestore, BeginRecover, TickMoot, TickBlind,
       StopOnFault, TickHolds, TickEnds
<1>3. CASE LoadFound \/ LoadMissing \/ HubClaims \/ HubRefuses \/ CaptureRefused \/ CaptureSaved
     \/ CaptureUnsaved
  BY <1>3 DEF LoadFound, LoadMissing, Finish, HubClaims, HubRefuses, Abandoned, StopOnFault,
       BeginRestore, CaptureRefused, CaptureSaved, CaptureUnsaved, CaptureUnsynced,
       CaptureOverlooked, Capturing
<1>4. CASE WriteUnit
  BY <1>4, SuppressedWriteUnit
<1>5. CASE WriteRegister
  BY <1>5 DEF WriteRegister, Writing, Put, LastUnit, Follows
<1>6. CASE WriteLast
  BY <1>6 DEF WriteLast, Writing, Put, LastUnit, Finish, Follows
<1>7. CASE WriteFails
  BY <1>7 DEF WriteFails, Writing, Put, Partly, LastUnit, CallbackFailed, Abandoned, Finish,
       StopOnFault, BeginRestore
<1>8. CASE ReadSettings \/ ReadFails \/ Clear \/ ClearFails \/ Release
  BY <1>8 DEF ReadSettings, Finish, ReadFails, CallbackFailed, Abandoned, StopOnFault,
       BeginRestore, Clear, ClearFails, Release
<1>9. CASE Poll \/ OwnerWriteUnit \/ \E c \in OwnerCaps : OwnerWrite(c)
  BY <1>9 DEF Poll, OwnerWriteUnit, LastUnit, OwnerPut, OwnerWrite
<1>10. CASE UNCHANGED vars
  BY <1>10 DEF vars
<1> QED
  BY <1>1, <1>2, <1>3, <1>4, <1>5, <1>6, <1>7, <1>8, <1>9, <1>10 DEF Next, Begin, Step

\* Every step keeps applyStart's progress.
LEMMA StartStep ==
  ASSUME Control, Sequenced, Profiles, [Next]_vars
  PROVE  Starting'
<1> USE UnitsAssumption DEF Sequenced, Starting, Changing, Returning, Restoring, Staging,
     Suppressed, Zeroed, OwnersProfile,
     Control, TypeOK, Settings, Setting, Located, AtItsPoint, InCallback, Guarded, Session,
     Jobs, Units, Done, OwnerProfile, Mixed, TenAmps, Written, WithProf, WithCap, Suppressing,
     device, record, service, engine, seq
<1>1. CASE Boot \/ Crash \/ TickerDecides
  BY <1>1 DEF Boot, Crash, Put, Writing, TickerDecides
<1>2. CASE BeginStart \/ BeginStop \/ BeginRecover \/ TickMoot \/ TickBlind \/ TickHolds
     \/ TickEnds
  BY <1>2 DEF BeginStart, Idle, BeginStop, BeginRestore, BeginRecover, TickMoot, TickBlind,
       StopOnFault, TickHolds, TickEnds
<1>3. CASE LoadFound \/ LoadMissing \/ HubClaims \/ HubRefuses \/ CaptureRefused \/ CaptureSaved
     \/ CaptureUnsaved
  BY <1>3 DEF LoadFound, LoadMissing, Finish, HubClaims, HubRefuses, Abandoned, StopOnFault,
       BeginRestore, CaptureRefused, CaptureSaved, CaptureUnsaved, CaptureUnsynced,
       CaptureOverlooked, Capturing
<1>4. CASE WriteUnit
  <2>1. job' = "start" => Staging(1)'
    BY <1>4, UnitWritten, StagingWriteUnit DEF Sequenced
  <2> QED
    BY <1>4, <2>1, UnitWritten, CanWriteUnit DEF Sequenced
<1>5. CASE WriteRegister
  BY <1>5 DEF WriteRegister, Writing, Put, LastUnit, Follows
<1>6. CASE WriteLast
  BY <1>6 DEF WriteLast, Writing, Put, LastUnit, Finish, Follows
<1>7. CASE WriteFails
  BY <1>7 DEF WriteFails, Writing, Put, Partly, LastUnit, CallbackFailed, Abandoned, Finish,
       StopOnFault, BeginRestore
<1>8. CASE ReadSettings \/ ReadFails \/ Clear \/ ClearFails \/ Release
  BY <1>8 DEF ReadSettings, Finish, ReadFails, CallbackFailed, Abandoned, StopOnFault,
       BeginRestore, Clear, ClearFails, Release
<1>9. CASE Poll \/ OwnerWriteUnit \/ \E c \in OwnerCaps : OwnerWrite(c)
  BY <1>9 DEF Poll, OwnerWriteUnit, LastUnit, OwnerPut, OwnerWrite
<1>10. CASE UNCHANGED vars
  BY <1>10 DEF vars
<1> QED
  BY <1>1, <1>2, <1>3, <1>4, <1>5, <1>6, <1>7, <1>8, <1>9, <1>10 DEF Next, Begin, Step

\* Every step keeps applyStage's progress.
LEMMA StageStep ==
  ASSUME Control, Sequenced, Profiles, [Next]_vars
  PROVE  Changing'
<1> USE UnitsAssumption DEF NoDrift, Sequenced, Starting, Changing, Returning, Restoring,
     Staging, Suppressed, Zeroed,
     OwnersProfile, Control, TypeOK, Settings, Setting, Located, AtItsPoint, InCallback,
     Guarded, Session, Jobs, Units, Done, OwnerProfile, Mixed, TenAmps, Written, WithProf,
     WithCap, Suppressing, device, record, service, engine, seq
<1>1. CASE Boot \/ Crash \/ TickerDecides
  BY <1>1 DEF Boot, Crash, Put, Writing, TickerDecides
<1>2. CASE BeginStart \/ BeginStop \/ BeginRecover \/ TickMoot \/ TickBlind \/ TickHolds
     \/ TickEnds
  BY <1>2 DEF BeginStart, Idle, BeginStop, BeginRestore, BeginRecover, TickMoot, TickBlind,
       StopOnFault, TickHolds, TickEnds
<1>3. CASE LoadFound \/ LoadMissing \/ HubClaims \/ HubRefuses \/ CaptureRefused \/ CaptureSaved
     \/ CaptureUnsaved
  BY <1>3 DEF LoadFound, LoadMissing, Finish, HubClaims, HubRefuses, Abandoned, StopOnFault,
       BeginRestore, CaptureRefused, CaptureSaved, CaptureUnsaved, CaptureUnsynced,
       CaptureOverlooked, Capturing
<1>4. CASE WriteUnit
  <2>1. job' = "stage" => Staging(target)'
    BY <1>4, UnitWritten, StagingWriteUnit DEF WriteUnit
  <2>2. job' = "stage" => \A u \in Units : reg'[u].can = "off"
    <3>1. job' = "stage" => reg'[unit].can = "off"
      BY <1>4, UnitWritten DEF WriteUnit, Writing
    <3> QED
      BY <1>4, <3>1, UnitWritten
  <2> QED
    BY <2>1, <2>2
<1>5. CASE WriteRegister
  BY <1>5 DEF WriteRegister, Writing, Put, LastUnit, Follows
<1>6. CASE WriteLast
  BY <1>6 DEF WriteLast, Writing, Put, LastUnit, Finish, Follows
<1>7. CASE WriteFails
  BY <1>7 DEF WriteFails, Writing, Put, Partly, LastUnit, CallbackFailed, Abandoned, Finish,
       StopOnFault, BeginRestore
<1>8. CASE ReadSettings \/ ReadFails \/ Clear \/ ClearFails \/ Release
  BY <1>8 DEF ReadSettings, Finish, ReadFails, CallbackFailed, Abandoned, StopOnFault,
       BeginRestore, Clear, ClearFails, Release
<1>9. CASE Poll \/ OwnerWriteUnit \/ \E c \in OwnerCaps : OwnerWrite(c)
  BY <1>9 DEF Poll, OwnerWriteUnit, LastUnit, OwnerPut, OwnerWrite
<1>10. CASE UNCHANGED vars
  BY <1>10 DEF vars
<1> QED
  BY <1>1, <1>2, <1>3, <1>4, <1>5, <1>6, <1>7, <1>8, <1>9, <1>10 DEF Next, Begin, Step

\* Every step keeps restoreUnits' progress.
LEMMA RestoreStep ==
  ASSUME Control, Sequenced, Profiles, [Next]_vars
  PROVE  Returning'
<1> USE UnitsAssumption DEF Profiles, OwnersKept, Sequenced, Starting, Changing, Returning,
     Restoring, Staging, Suppressed, Zeroed,
     OwnersProfile, Control, TypeOK, Settings, Setting, Located, AtItsPoint, InCallback,
     Guarded, Session, Jobs, Units, Done, OwnerProfile, Mixed, TenAmps, Written, WithProf,
     WithCap, Suppressing, device, record, service, engine, seq
<1>1. CASE Boot \/ Crash \/ TickerDecides
  BY <1>1 DEF Boot, Crash, Put, Writing, TickerDecides
<1>2. CASE BeginStart \/ BeginStop \/ BeginRecover \/ TickMoot \/ TickBlind \/ TickHolds
     \/ TickEnds
  BY <1>2 DEF BeginStart, Idle, BeginStop, BeginRestore, BeginRecover, TickMoot, TickBlind,
       StopOnFault, TickHolds, TickEnds
<1>3. CASE LoadFound \/ LoadMissing \/ HubClaims \/ HubRefuses \/ CaptureRefused \/ CaptureSaved
     \/ CaptureUnsaved
  BY <1>3 DEF LoadFound, LoadMissing, Finish, HubClaims, HubRefuses, Abandoned, StopOnFault,
       BeginRestore, CaptureRefused, CaptureSaved, CaptureUnsaved, CaptureUnsynced,
       CaptureOverlooked, Capturing
<1>4. CASE WriteUnit
  BY <1>4, UnitWritten, RestoringWriteUnit
<1>5. CASE WriteRegister
  BY <1>5 DEF WriteRegister, Writing, Put, LastUnit, Follows
<1>6. CASE WriteLast
  <2>1. job' \in {"undo", "restore", "recover"} => job \in {"undo", "restore", "recover"}
    BY <1>6 DEF WriteLast, Finish
  <2> QED
    BY <1>6, <2>1, Restored
<1>7. CASE WriteFails
  BY <1>7 DEF WriteFails, Writing, Put, Partly, LastUnit, CallbackFailed, Abandoned, Finish,
       StopOnFault, BeginRestore
<1>8. CASE ReadSettings \/ ReadFails \/ Clear \/ ClearFails \/ Release
  BY <1>8 DEF ReadSettings, Finish, ReadFails, CallbackFailed, Abandoned, StopOnFault,
       BeginRestore, Clear, ClearFails, Release
<1>9. CASE Poll \/ OwnerWriteUnit \/ \E c \in OwnerCaps : OwnerWrite(c)
  BY <1>9 DEF Poll, OwnerWriteUnit, LastUnit, OwnerPut, OwnerWrite
<1>10. CASE UNCHANGED vars
  BY <1>10 DEF vars
<1> QED
  BY <1>1, <1>2, <1>3, <1>4, <1>5, <1>6, <1>7, <1>8, <1>9, <1>10 DEF Next, Begin, Step

\* Every step keeps the owner's profile in the registers or in the journal.
LEMMA OwnersStep ==
  ASSUME Control, Sequenced, Profiles, [Next]_vars
  PROVE  OwnersKept'
<1> USE UnitsAssumption DEF Profiles, OwnersKept, Sequenced, Starting, Changing, Returning,
     Restoring, Staging, Suppressed, Zeroed,
     OwnersProfile, Control, TypeOK, Settings, Setting, Located, AtItsPoint, InCallback,
     Guarded, Session, Jobs, Units, Done, OwnerProfile, Mixed, TenAmps, Written, WithProf,
     WithCap, Suppressing, device, record, service, engine, seq
<1>1. CASE Boot \/ Crash \/ TickerDecides
  BY <1>1 DEF Boot, Crash, Put, Writing, TickerDecides
<1>2. CASE BeginStart \/ BeginStop \/ BeginRecover \/ TickMoot \/ TickBlind \/ TickHolds
     \/ TickEnds
  BY <1>2 DEF BeginStart, Idle, BeginStop, BeginRestore, BeginRecover, TickMoot, TickBlind,
       StopOnFault, TickHolds, TickEnds
<1>3. CASE LoadFound \/ LoadMissing \/ HubClaims \/ HubRefuses \/ CaptureRefused \/ CaptureSaved
     \/ CaptureUnsaved
  BY <1>3 DEF LoadFound, LoadMissing, Finish, HubClaims, HubRefuses, Abandoned, StopOnFault,
       BeginRestore, CaptureRefused, CaptureSaved, CaptureUnsaved, CaptureUnsynced,
       CaptureOverlooked, Capturing
<1>4. CASE WriteUnit
  BY <1>4 DEF WriteUnit, Writing, Put, Partly, LastUnit
<1>5. CASE WriteRegister
  BY <1>5 DEF WriteRegister, Writing, Put, LastUnit, Follows
<1>6. CASE WriteLast
  BY <1>6 DEF WriteLast, Writing, Put, LastUnit, Finish, Follows
<1>7. CASE WriteFails
  BY <1>7 DEF WriteFails, Writing, Put, Partly, LastUnit, CallbackFailed, Abandoned, Finish,
       StopOnFault, BeginRestore
<1>8. CASE ReadSettings \/ ReadFails \/ Clear \/ ClearFails \/ Release
  BY <1>8 DEF ReadSettings, Finish, ReadFails, CallbackFailed, Abandoned, StopOnFault,
       BeginRestore, Clear, ClearFails, Release
<1>9. CASE Poll \/ OwnerWriteUnit \/ \E c \in OwnerCaps : OwnerWrite(c)
  <2>1. CASE Poll \/ \E c \in OwnerCaps : OwnerWrite(c)
    BY <2>1 DEF Poll, OwnerWrite
  <2>2. CASE OwnerWriteUnit
    <3>1. OwnersProfile(reg) => OwnersProfile(reg)'
      BY <2>2 DEF OwnerWriteUnit, OwnerPut
    <3>2. loop = "write" /\ journal' = journal /\ overlooked' = overlooked
      BY <2>2 DEF OwnerWriteUnit
    <3> QED
      BY <3>1, <3>2
  <2> QED
    BY <1>9, <2>1, <2>2
<1>10. CASE UNCHANGED vars
  BY <1>10 DEF vars
<1> QED
  BY <1>1, <1>2, <1>3, <1>4, <1>5, <1>6, <1>7, <1>8, <1>9, <1>10 DEF Next, Begin, Step

\* Every step keeps all units on one complete profile while any may charge.
LEMMA NoSurgeStep ==
  ASSUME Control, Sequenced, Profiles, [Next]_vars
  PROVE  NoSurge'
<1>1. CASE UNCHANGED reg
  BY <1>1 DEF Profiles, NoSurge, Uniform
<1>2. CASE Writing /\ Partly
  <2>1. job \in Jobs \ {"none", "check"}
    BY <1>2 DEF Control, TypeOK, Located, AtItsPoint, Writing
  <2> QED
    BY <1>2, <2>1, WriteNoSurge
<1>3. CASE OwnerWriteUnit
  <2>1. \A u \in Units : reg'[u].prof = reg[u].prof /\ reg'[u].can = reg[u].can
    BY <1>3 DEF OwnerWriteUnit, OwnerPut, WithCap, device, Control, TypeOK, Settings
  <2>2. Uniform(OwnerProfile, "on")
    BY <1>3 DEF OwnerWriteUnit, Control, Guarded, Profiles, OwnersKept, OwnersProfile, Uniform
  <2> QED
    BY <2>1, <2>2 DEF NoSurge, Uniform
<1> QED
  BY <1>1, <1>2, <1>3
  DEF Partly, Next, Begin, Step, Boot, Crash, TickerDecides, BeginStart, BeginStop, BeginRecover,
       TickMoot, TickBlind, TickHolds, TickEnds, LoadFound, LoadMissing, HubClaims, HubRefuses,
       CaptureRefused, CaptureSaved, CaptureUnsaved, CaptureUnsynced, CaptureOverlooked, Capturing,
       WriteUnit, WriteRegister, WriteLast,
       WriteFails, ReadSettings, ReadFails, Clear, ClearFails, Release, Poll, OwnerWriteUnit,
       OwnerWrite, vars, device, record, service, engine, seq

\* A session goes on undisturbed only through steps that leave its registers
\* alone, except for the write that completes a stage.
LEMMA HeldFrame ==
  ASSUME Control, [Next]_vars,
         active', ~recovery', journal' # NoJournal, job' \in {"none", "recover", "check"},
         ~(WriteLast /\ job \in {"start", "stage"})
  PROVE  /\ active /\ ~recovery /\ journal # NoJournal
         /\ reg' = reg /\ applied' = applied
         /\ job' # "check" => \/ job \in {"none", "recover"} /\ target' = target
                              \/ job = "check" /\ target' = previous
         /\ job' = "check" => \/ job = "none" /\ previous' = target
                              \/ job = "check" /\ previous' = previous
<1> USE UnitsAssumption DEF Control, TypeOK, Jobs, Points, Located, AtItsPoint, InCallback,
     Guarded, Session, device, record, service, engine, seq
<1>1. CASE Boot \/ Crash \/ TickerDecides
  BY <1>1 DEF Boot, Crash, Put, Writing, TickerDecides
<1>2. CASE BeginStart \/ BeginStop \/ BeginRecover \/ TickMoot \/ TickBlind \/ TickHolds
     \/ TickEnds
  BY <1>2 DEF BeginStart, Idle, BeginStop, BeginRestore, BeginRecover, TickMoot, TickBlind,
       StopOnFault, TickHolds, TickEnds
<1>3. CASE LoadFound \/ LoadMissing \/ HubClaims \/ HubRefuses \/ CaptureRefused \/ CaptureSaved
     \/ CaptureUnsaved
  BY <1>3 DEF LoadFound, LoadMissing, Finish, HubClaims, HubRefuses, Abandoned, StopOnFault,
       BeginRestore, CaptureRefused, CaptureSaved, CaptureUnsaved, CaptureUnsynced,
       CaptureOverlooked, Capturing
<1>4. CASE WriteUnit
  BY <1>4 DEF WriteUnit, Writing, Put, Partly, LastUnit, Suppressing
<1>5. CASE WriteRegister
  BY <1>5 DEF WriteRegister, Writing, Put, LastUnit, Follows
<1>6. CASE WriteLast
  BY <1>6 DEF WriteLast, Writing, Put, LastUnit, Finish, Follows
<1>7. CASE WriteFails
  <2>1. CASE job \in {"start", "check", "stage"}
    BY <1>7, <2>1 DEF WriteFails, CallbackFailed, Abandoned, StopOnFault, BeginRestore
  <2>2. CASE job \in {"undo", "restore", "recover", "suppress"}
    <3>1. recovery
      BY <1>7, <2>2 DEF WriteFails, Writing
    <3> QED
      BY <1>7, <2>2, <3>1 DEF WriteFails, CallbackFailed, Abandoned
  <2> QED
    BY <1>7, <2>1, <2>2 DEF WriteFails, Writing
<1>8. CASE ReadSettings \/ ReadFails \/ Clear \/ ClearFails \/ Release
  BY <1>8 DEF ReadSettings, Finish, ReadFails, CallbackFailed, Abandoned, StopOnFault,
       BeginRestore, Clear, ClearFails, Release
<1>9. CASE Poll \/ OwnerWriteUnit \/ \E c \in OwnerCaps : OwnerWrite(c)
  BY <1>9 DEF Poll, OwnerWriteUnit, LastUnit, OwnerPut, OwnerWrite
<1>10. CASE UNCHANGED vars
  BY <1>10 DEF vars
<1> QED
  BY <1>1, <1>2, <1>3, <1>4, <1>5, <1>6, <1>7, <1>8, <1>9, <1>10 DEF Next, Begin, Step

\* The write that completes a stage leaves every unit in it.
LEMMA StageHeld ==
  ASSUME Control, Sequenced, WriteLast, job \in {"start", "stage"}
  PROVE  applied' = target' /\ NoDrift' /\ job' = "none"
<1>1. pc = "cap" /\ unit = N - 1 /\ unit \in Units
  BY DEF WriteLast, Writing, Follows, Points, LastUnit, Control, TypeOK, Located, AtItsPoint
<1>2. Staging(target) /\ applied' = target /\ target' = target /\ job' = "none"
  BY <1>1 DEF WriteLast, Sequenced, Starting, Changing, Control, Session, Finish, engine
<1>3. reg'[unit] = Written("cap", unit) /\ \A u \in Units \ {unit} : reg'[u] = reg[u]
  BY <1>1, Placed DEF WriteLast, Control
<1>4. reg' \in Settings
  BY RegisterTypes DEF Control, Next, Step
<1>5. ASSUME NEW u \in Units
      PROVE  reg'[u].cap = TenAmps /\ reg'[u].prof = applied' /\ reg'[u].can = "off"
  <2>1. u # unit => u \in Done
    BY <1>1, UnitsAssumption DEF Done, Units
  <2> QED
    BY <1>1, <1>2, <1>3, <2>1 DEF Staging, Written
<1>6. ASSUME NEW u \in Units PROVE reg'[u] = [cap |-> TenAmps, prof |-> applied', can |-> "off"]
  BY <1>4, <1>5 DEF Settings, Setting
<1> QED
  BY <1>2, <1>6 DEF NoDrift

\* Every step keeps the registers in the stage the session is in.
LEMMA HeldStep ==
  ASSUME Control, Sequenced, Held, [Next]_vars
  PROVE  Held'
<1>1. CASE WriteLast /\ job \in {"start", "stage"}
  BY <1>1, StageHeld DEF Held
<1>2. CASE ~(WriteLast /\ job \in {"start", "stage"})
  <2> SUFFICES ASSUME active', ~recovery', journal' # NoJournal, job' \in {"none", "recover",
       "check"}
               PROVE  NoDrift' /\ applied' = IF job' = "check" THEN previous' ELSE target'
    BY DEF Held
  <2>1. NoDrift /\ applied' = IF job' = "check" THEN previous' ELSE target'
    BY <1>2, HeldFrame DEF Held
  <2> QED
    BY <1>2, <2>1, HeldFrame DEF NoDrift
<1> QED
  BY <1>1, <1>2

\* The inductive invariant.
THEOREM RegistersInvariant == Spec => []Registers
<1>1. ASSUME Init PROVE Registers
  <2>1. Control
    BY <1>1, ControlInit
  <2>2. Sequenced /\ Held
    BY <1>1 DEF Init, Sequenced, Starting, Changing, Returning, Suppressed, Held, InCallback
  <2>3. Profiles
    <3>1. PICK c \in OwnerCaps : reg = [u \in Units |-> [cap |-> c, prof |-> OwnerProfile,
         can |-> "on"]]
      BY <1>1 DEF Init
    <3>2. \A u \in Units : reg[u].prof = OwnerProfile /\ reg[u].can = "on"
      BY <3>1
    <3> QED
      BY <1>1, <3>2 DEF Init, Profiles, OwnersKept, OwnersProfile, NoSurge, Uniform
  <2> QED
    BY <2>1, <2>2, <2>3 DEF Registers
<1>2. ASSUME Registers, [Next]_vars PROVE Registers'
  <2>1. Control /\ Sequenced /\ Profiles /\ Held
    BY <1>2 DEF Registers
  <2>2. Control'
    BY <1>2, <2>1, ControlStep
  <2>3. Sequenced'
    BY <1>2, <2>1, SuppressedStep, StartStep, StageStep, RestoreStep DEF Sequenced
  <2>4. Profiles'
    BY <1>2, <2>1, OwnersStep, NoSurgeStep DEF Profiles
  <2>5. Held'
    BY <1>2, <2>1, HeldStep
  <2> QED
    BY <2>2, <2>3, <2>4, <2>5 DEF Registers
<1> QED
  BY <1>1, <1>2, PTL DEF Spec

\* NoSurge: whenever a unit may draw current, every unit holds the owner's
\* profile or one and the same stage, whatever fails or crashes.
THEOREM NoSurgeHolds == Spec => []NoSurge
<1>1. Registers => NoSurge
  BY DEF Registers, Profiles
<1> QED
  BY <1>1, RegistersInvariant, PTL

\* SessionAgrees: between two operations of a session that nothing disturbed,
\* engine, service and registers agree on the stage.
THEOREM SessionAgreesHolds == Spec => []SessionAgrees
<1>1. Registers => SessionAgrees
  BY DEF Registers, Held, Control, Session, SessionAgrees
<1> QED
  BY <1>1, RegistersInvariant, PTL

\* What a disk that loses no journal guarantees of the record.
Recorded ==
  /\ journal # NoJournal => journal = own
  /\ journal = NoJournal => reg = own
  /\ reserved /\ journal = NoJournal => job = "start" \/ pc = "release"

\* A disk that loses nothing has the owner's values on record whenever the
\* registers may differ from them.
LEMMA RecordedStep ==
  ASSUME LossyDisk = FALSE, Control, Sequenced, Profiles, Recorded, [Next]_vars
  PROVE  Recorded'
<1> USE UnitsAssumption DEF Recorded, Control, TypeOK, Jobs, Points, Located, AtItsPoint,
     InCallback, Guarded, Session, device, record, service, engine, seq
<1>1. CASE Boot \/ Crash \/ TickerDecides
  BY <1>1, JournalAssumption DEF Boot, Crash, Put, Writing, TickerDecides
<1>2. CASE BeginStart \/ BeginStop \/ BeginRecover \/ TickMoot \/ TickBlind \/ TickHolds
     \/ TickEnds
  BY <1>2, JournalAssumption DEF BeginStart, Idle, BeginStop, BeginRestore, BeginRecover,
       TickMoot, TickBlind, StopOnFault, TickHolds, TickEnds
<1>3. CASE LoadFound \/ LoadMissing \/ HubClaims \/ HubRefuses \/ CaptureRefused \/ CaptureSaved
     \/ CaptureUnsaved
  BY <1>3, JournalAssumption DEF LoadFound, LoadMissing, Finish, HubClaims, HubRefuses,
       Abandoned, StopOnFault, BeginRestore, CaptureRefused, CaptureSaved, CaptureUnsaved,
       CaptureUnsynced, CaptureOverlooked, Capturing
<1>4. CASE WriteUnit
  BY <1>4 DEF WriteUnit, Writing
<1>5. CASE WriteRegister
  BY <1>5 DEF WriteRegister, Writing
<1>6. CASE WriteLast
  BY <1>6 DEF WriteLast, Writing, Finish
<1>7. CASE WriteFails
  BY <1>7 DEF WriteFails, Writing, CallbackFailed, Abandoned, Finish, StopOnFault, BeginRestore
<1>8. CASE ReadSettings \/ ReadFails \/ Clear \/ ClearFails \/ Release
  <2>1. CASE Clear
    <3>1. reg = journal /\ journal # NoJournal
      BY <2>1 DEF Clear, Sequenced, Starting, Changing, Returning, Restoring
    <3> QED
      BY <2>1, <3>1 DEF Clear
  <2>2. CASE ReadSettings \/ ReadFails \/ ClearFails \/ Release
    BY <2>2 DEF ReadSettings, Finish, ReadFails, CallbackFailed, Abandoned, StopOnFault,
         BeginRestore, ClearFails, Release
  <2> QED
    BY <1>8, <2>1, <2>2
<1>9. CASE Poll \/ OwnerWriteUnit \/ \E c \in OwnerCaps : OwnerWrite(c)
  BY <1>9, JournalAssumption DEF Poll, OwnerWriteUnit, LastUnit, OwnerPut, OwnerWrite
<1>10. CASE UNCHANGED vars
  BY <1>10 DEF vars
<1> QED
  BY <1>1, <1>2, <1>3, <1>4, <1>5, <1>6, <1>7, <1>8, <1>9, <1>10 DEF Next, Begin, Step

\* The action of RestoredMeansRestored.
RestoredStep ==
  up /\ recovery /\ up' /\ ~recovery' => reg = own /\ journal' = NoJournal

\* A restoration stops being pending only with the owner's values in place.
LEMMA GivenBack ==
  ASSUME Registers, Recorded, LossyDisk = FALSE, [Next]_vars
  PROVE  RestoredStep
<1>1. CASE Clear
  BY <1>1 DEF Clear, RestoredStep, Registers, Sequenced, Starting, Changing, Returning,
       Restoring, Recorded, Control, Guarded
<1>2. CASE Release
  BY <1>2 DEF Release, RestoredStep, Registers, Recorded, Control, Guarded, device, record
<1> QED
  BY <1>1, <1>2 DEF RestoredStep, CallbackFailed, Abandoned, StopOnFault, BeginRestore, Idle,
       Next, Begin, Step, Boot, Crash, TickerDecides, BeginStart, BeginStop, BeginRecover,
       TickMoot, TickBlind, TickHolds, TickEnds, LoadFound, LoadMissing, HubClaims, HubRefuses,
       CaptureRefused, CaptureSaved, CaptureUnsaved, CaptureUnsynced, CaptureOverlooked, Capturing,
       WriteUnit, WriteRegister, WriteLast,
       WriteFails, ReadSettings, ReadFails, Clear, ClearFails, Release, Poll, OwnerWriteUnit,
       OwnerWrite, vars, device, record, service, engine, seq

\* Every step borrows, uses, gives back, edits, or leaves the loan alone.
LEMMA LoanStep ==
  ASSUME Registers, Recorded, LossyDisk = FALSE, [Next]_vars
  PROVE  [Loan!Next]_(Loan!loan)
<1>1. CASE journal' = journal /\ UNCHANGED device
  BY <1>1 DEF Loan!loan, device
<1>2. CASE (CaptureSaved \/ CaptureUnsaved) /\ journal' # journal
  <2>1. Loan!Borrow
    BY <1>2, JournalAssumption
    DEF Loan!Borrow, CaptureSaved, CaptureUnsaved, CaptureUnsynced, CaptureOverlooked,
         Capturing, Registers, Control, Located, AtItsPoint, Guarded, TypeOK, Jobs, device
  <2> QED
    BY <2>1 DEF Loan!Next
<1>3. CASE Clear
  <2>1. Loan!GiveBack
    BY <1>3 DEF Loan!GiveBack, Clear, Registers, Control, Located, AtItsPoint, Guarded, TypeOK,
         Jobs, Sequenced, Starting, Changing, Returning, Restoring, Recorded, device
  <2> QED
    BY <2>1 DEF Loan!Next
<1>4. CASE OwnerWriteUnit /\ OwnerPut
  <2>1. /\ journal = NoJournal /\ journal' = journal /\ reg = own
        /\ unit \in Units /\ WithCap(reg[unit], wcap) \in Setting
    BY <1>4 DEF record, OwnerWriteUnit, Registers, Control, Guarded, Recorded, TypeOK, Settings,
         Setting, WithCap
  <2>2. Loan!Edit
    BY <1>4, <2>1 DEF Loan!Edit, OwnerPut
  <2> QED
    BY <2>2 DEF Loan!Next
<1>5. CASE Writing /\ journal' = journal /\ own' = own /\ \E s \in Setting : Put(s)
  <2>1. journal # NoJournal
    BY <1>5 DEF Writing, Registers, Control, Guarded, Recorded
  <2>2. Loan!Use
    BY <1>5, <2>1 DEF Loan!Use, Put, Registers, Control, TypeOK
  <2> QED
    BY <2>2 DEF Loan!Next
<1>6. Writing => /\ Written(pc, unit) \in Setting
                 /\ reg[unit] \in Setting /\ WithProf(reg[unit], Mixed) \in Setting
  <2>1. reg[unit] \in Setting /\ WithProf(reg[unit], Mixed) \in Setting
    BY DEF Registers, Control, TypeOK, Settings, Setting, WithProf, Mixed
  <2> QED
    BY <2>1, WrittenType DEF Registers, Control
<1>7. CASE Crash \/ WriteUnit \/ WriteRegister \/ WriteLast \/ WriteFails
  <2>1. journal' = journal /\ own' = own
    BY <1>7 DEF Crash, WriteUnit, WriteRegister, WriteLast, WriteFails, record
  <2>2. UNCHANGED reg \/ (Writing /\ \E s \in Setting : Put(s))
    BY <1>6, <1>7 DEF Crash, WriteUnit, WriteRegister, WriteLast, WriteFails, Partly
  <2> QED
    BY <1>1, <1>5, <2>1, <2>2 DEF device
<1> QED
  BY <1>1, <1>2, <1>3, <1>4, <1>7
  DEF Next, Begin, Step, Boot, Crash, TickerDecides, BeginStart, BeginStop, BeginRecover,
       TickMoot, TickBlind, TickHolds, TickEnds, LoadFound, LoadMissing, HubClaims, HubRefuses,
       CaptureRefused, CaptureSaved, CaptureUnsaved, CaptureUnsynced, CaptureOverlooked, Capturing,
       WriteUnit, WriteRegister, WriteLast,
       WriteFails, ReadSettings, ReadFails, Clear, ClearFails, Release, Poll, OwnerWriteUnit,
       OwnerWrite, vars, device, record, service, engine, seq

\* At first nothing is lent.
LEMMA LoanInit ==
  ASSUME Init
  PROVE  Loan!Init
<1>1. reg \in [Units -> Setting]
  BY DEF Init, Setting, OwnerProfile
<1> QED
  BY <1>1 DEF Init, Loan!Init

\* Recorded is invariant.
THEOREM RecordedInvariant ==
  ASSUME LossyDisk = FALSE
  PROVE  Spec => []Recorded
<1>1. Init => Recorded
  BY DEF Init, Recorded
<1>2. Registers /\ Recorded /\ [Next]_vars => Recorded'
  BY RecordedStep DEF Registers
<1> QED
  BY <1>1, <1>2, RegistersInvariant, PTL DEF Spec

\* RecordCoversDeviation: registers that differ from their owner's values have
\* those values in the journal.
THEOREM RecordCoversDeviationHolds ==
  ASSUME LossyDisk = FALSE
  PROVE  Spec => []RecordCoversDeviation
<1>1. Recorded => RecordCoversDeviation
  BY DEF Recorded, RecordCoversDeviation
<1> QED
  BY <1>1, RecordedInvariant, PTL

\* RestoredMeansRestored: conditioning.go never declares a restoration done
\* before every register is its owner's again.
THEOREM RestoredMeansRestoredHolds ==
  ASSUME LossyDisk = FALSE
  PROVE  Spec => RestoredMeansRestored
<1>1. Registers /\ Recorded /\ [Next]_vars => [RestoredStep]_vars
  BY GivenBack
<1>2. RestoredMeansRestored <=> [][RestoredStep]_vars
  BY DEF RestoredMeansRestored, RestoredStep
<1> QED
  BY <1>1, <1>2, RegistersInvariant, RecordedInvariant, PTL DEF Spec

\* ImplementsLoan: the transaction implements SettingsLoan.
THEOREM TransactionImplementsLoan ==
  ASSUME LossyDisk = FALSE
  PROVE  Spec => ImplementsLoan
<1>1. Init => Loan!Init
  BY LoanInit
<1>2. Registers /\ Recorded /\ [Next]_vars => [Loan!Next]_(Loan!loan)
  BY LoanStep
<1> QED
  BY <1>1, <1>2, RegistersInvariant, RecordedInvariant, PTL DEF Spec, ImplementsLoan, Loan!Spec
=============================================================================
