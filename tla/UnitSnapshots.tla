---------------------------- MODULE UnitSnapshots ----------------------------
(***************************************************************************)
(* What the hub shows of inverters that come and go: System.Snapshot       *)
(* (inverter/system.go) with its fall-back to the last good reading, and   *)
(* the settings, which refreshSettings (serve/hub.go) does not read while  *)
(* every unit of the latest snapshot is stale.                             *)
(***************************************************************************)
EXTENDS Integers

CONSTANTS
  N,                \* units, the first of which is the parallel master
  MaxStaleSnapshots,
  Settings,         \* values of the master's settings
  Nothing,          \* the zero snapshot, and settings never read
  MaxOutages        \* bound: how often a unit may disappear

ASSUME SnapshotAssumption ==
  /\ N \in Nat \ {0} /\ MaxStaleSnapshots \in Nat \ {0} /\ MaxOutages \in Nat
  /\ Nothing \notin Settings

VARIABLES
  up,               \* whether each unit answers
  failCount,        \* unit.failCount, up to MaxStaleSnapshots
  age,              \* history: polls since each unit's lastSnapshot was read
  latest,           \* Hub.latest: per unit, whether it is marked Stale
  stored,           \* the settings in the master
  settings,         \* Hub.settings
  outages

vars == <<up, failCount, age, latest, stored, settings, outages>>

Units == 1..N

\* The age of what has not been read yet: a unit whose lastSnapshot is the zero
\* value.  Other ages are counted up to MaxStaleSnapshots.
Never == MaxStaleSnapshots + 1

TypeOK ==
  /\ up \in [Units -> BOOLEAN]
  /\ failCount \in [Units -> 0..MaxStaleSnapshots]
  /\ age \in [Units -> 0..MaxStaleSnapshots \cup {Never}]
  /\ latest \in [Units -> BOOLEAN] \cup {<<>>}
  /\ stored \in Settings
  /\ settings \in Settings \cup {Nothing}
  /\ outages \in 0..MaxOutages

Init ==
  /\ up \in [Units -> BOOLEAN]
  /\ failCount = [u \in Units |-> 0]
  /\ age = [u \in Units |-> Never]
  /\ latest = <<>>
  /\ stored \in Settings
  /\ settings = Nothing
  /\ outages = 0

-----------------------------------------------------------------------------
AllStale == latest # <<>> /\ \A u \in Units : latest[u]

\* Mutant: the count is not reset by a good reading.
CountedOn(u, good) ==
  IF good \/ failCount[u] = MaxStaleSnapshots THEN failCount[u] ELSE failCount[u] + 1

Counted(u, good) ==
  IF good THEN 0
  ELSE IF failCount[u] = MaxStaleSnapshots THEN MaxStaleSnapshots ELSE failCount[u] + 1

Older(a, good) == IF good THEN 0 ELSE IF a >= MaxStaleSnapshots THEN a ELSE a + 1

\* Mutant: a unit that was stale stays so.
ShownStaleForGood(u, good) ==
  failCount'[u] >= MaxStaleSnapshots \/ (latest # <<>> /\ latest[u])

Shown(u, good) == ~good /\ failCount'[u] >= MaxStaleSnapshots

\* Hub.poll.  The read of a unit that answers may still fail halfway through its
\* groups of registers, until the outages are over.  Optional registers that fail
\* make no error.
Poll ==
  \E good \in [Units -> BOOLEAN] :
    /\ \A u \in Units : good[u] => up[u]
    /\ outages = MaxOutages => \A u \in Units : up[u] => good[u]
    /\ failCount' = [u \in Units |-> Counted(u, good[u])]
    /\ age' = [u \in Units |-> Older(age[u], good[u])]
    /\ latest' = [u \in Units |-> Shown(u, good[u])]
    /\ UNCHANGED <<up, stored, settings, outages>>

\* refreshSettings, by its ticker or at the start.
Refresh ==
  /\ ~AllStale
  /\ \/ up[1] /\ settings' = stored
     \/ ~(up[1] /\ outages = MaxOutages) /\ UNCHANGED settings
  /\ UNCHANGED <<up, failCount, age, latest, stored, outages>>

\* A command that is written to every unit, and the refresh that follows it.
Write ==
  /\ \A u \in Units : up[u]
  /\ stored' \in Settings
  /\ \/ settings' = IF AllStale THEN settings ELSE stored'
     \/ outages < MaxOutages /\ UNCHANGED settings
  /\ UNCHANGED <<up, failCount, age, latest, outages>>

\* A command that reaches the master and fails there or on a later unit.
WriteFails ==
  /\ up[1] /\ ~(outages = MaxOutages /\ \A u \in Units : up[u])
  /\ stored' \in Settings
  /\ UNCHANGED <<up, failCount, age, latest, settings, outages>>

Disappear ==
  /\ outages < MaxOutages
  /\ \E u \in Units : up[u] /\ up' = [up EXCEPT ![u] = FALSE]
  /\ outages' = outages + 1
  /\ UNCHANGED <<failCount, age, latest, stored, settings>>

Return ==
  /\ \E u \in Units : ~up[u] /\ up' = [up EXCEPT ![u] = TRUE]
  /\ UNCHANGED <<failCount, age, latest, stored, settings, outages>>

Next == Poll \/ Refresh \/ Write \/ WriteFails \/ Disappear \/ Return

Spec == Init /\ [][Next]_vars

\* The tickers of the run loop fire for ever, and outages come to an end.
FairSpec ==
  /\ Spec
  /\ WF_vars(Poll) /\ WF_vars(Refresh) /\ WF_vars(Return)
-----------------------------------------------------------------------------
(***************************************************************************)
(* Properties.                                                             *)
(***************************************************************************)

Known(u) == latest # <<>> /\ age[u] # Never

\* "After MaxStaleSnapshots consecutive failures, the unit's data is marked
\* Stale" (system.go:112-113): of a unit once read, the flag tells exactly
\* whether its data is that old.
StaleWhenOld ==
  \A u \in Units : Known(u) => (latest[u] <=> age[u] = MaxStaleSnapshots)

\* Once the outages are over, the settings the hub shows are those of the
\* master: the refresh that is skipped during an outage is made up for.
SettingsCatchUp == outages = MaxOutages ~> settings = stored
=============================================================================
