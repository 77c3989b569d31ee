----------------------------- MODULE PackStore -----------------------------
(***************************************************************************)
(* What is known of the battery packs (bms/interpack/store.go): the last   *)
(* report of every address, whether it is confirmed, and the settings of   *)
(* each address with the age of their two blocks.  Reports arrive from the *)
(* bus; a snapshot is taken by the web interface and the conditioning      *)
(* service for an instant of their own, which may be before a report's.    *)
(***************************************************************************)
EXTENDS Integers, SequencesExt

CONSTANTS
  Addresses,        \* addresses on the bus, 0 among them
  Identities,       \* cycle count, capacity and batch of a pack, taken together
  MaxInstant,       \* bound: instants are 0..MaxInstant
  MaxReports,       \* bound: reports recorded
  MaxConsecutiveGap, \* maxConsecutiveGap
  TelemetryMaxAge,  \* telemetry age a snapshot calls fresh
  SettingsMaxAge    \* settings age a snapshot calls fresh

ASSUME StoreAssumption ==
  /\ Addresses \subseteq Nat
  /\ MaxInstant \in Nat /\ MaxReports \in Nat
  /\ MaxConsecutiveGap \in Nat /\ TelemetryMaxAge \in Nat \ {0} /\ SettingsMaxAge \in Nat \ {0}

Instants == 0..MaxInstant
Blocks   == {"balance", "protection"}
Never    == -1

VARIABLES
  packs,            \* Store.packs: address to last report, for those that reported
  settings,         \* Store.settings: when each block of each address was last seen
  reports           \* history: every frame recorded

storeVars == <<packs, settings, reports>>

Pack      == [identity : Identities, at : Instants, confirmed : BOOLEAN]
NoPack    == [at |-> Never]
Telemetry == [addr : Addresses, kind : {"telemetry"}, identity : Identities, at : Instants]
Setting   == [addr : Addresses, kind : Blocks, at : Instants]

StoreTypeOK ==
  /\ packs \in [Addresses -> Pack \cup {NoPack}]
  /\ settings \in [Addresses -> [Blocks -> Instants \cup {Never}]]
  /\ Len(reports) <= MaxReports
  /\ \A i \in DOMAIN reports : reports[i] \in Telemetry \cup Setting

StoreInit ==
  /\ packs = [a \in Addresses |-> NoPack]
  /\ settings = [a \in Addresses |-> [b \in Blocks |-> Never]]
  /\ reports = <<>>

-----------------------------------------------------------------------------
\* Mutant: any two reports of a pack count, however far apart.
ConsistentAnytime(previous, identity, at) ==
  previous # NoPack /\ previous.identity = identity

\* The previous report was of the same pack and not long ago.
Consistent(previous, identity, at) ==
  /\ previous # NoPack
  /\ at - previous.at \in 0..MaxConsecutiveGap
  /\ previous.identity = identity

\* Frames are decoded one after the other by the bus monitor.
Later(at) == \A i \in DOMAIN reports : reports[i].at <= at

Record(a, identity, at) ==
  /\ Later(at)
  /\ packs' = [packs EXCEPT ![a] =
       [identity |-> identity, at |-> at,
        confirmed |-> a # 0 \/ Consistent(packs[a], identity, at)]]
  /\ reports' = Append(reports, [addr |-> a, kind |-> "telemetry", identity |-> identity, at |-> at])
  /\ UNCHANGED settings

Seen(old, b, at) == [old EXCEPT ![b] = at]

RecordSettings(a, b, at) ==
  /\ Later(at)
  /\ settings' = [settings EXCEPT ![a] = Seen(settings[a], b, at)]
  /\ reports' = Append(reports, [addr |-> a, kind |-> b, at |-> at])
  /\ UNCHANGED packs

-----------------------------------------------------------------------------
(***************************************************************************)
(* Store.Snapshot at an instant.                                           *)
(***************************************************************************)
Recent(at, now, limit) == at # Never /\ now - at \in 0..limit
Old(at, now, limit)    == at # Never /\ now - at > limit

\* Mutant: one fresh block is enough.
StatusOfEither(a, now) ==
  IF \E b \in Blocks : Recent(settings[a][b], now, SettingsMaxAge) THEN "fresh"
  ELSE IF \E b \in Blocks : Old(settings[a][b], now, SettingsMaxAge) THEN "stale"
  ELSE "unavailable"

Status(a, now) ==
  IF \A b \in Blocks : Recent(settings[a][b], now, SettingsMaxAge) THEN "fresh"
  ELSE IF \E b \in Blocks : Old(settings[a][b], now, SettingsMaxAge) THEN "stale"
  ELSE "unavailable"

PackShown(a, now) ==
  [identity  |-> packs[a].identity,
   confirmed |-> packs[a].confirmed,
   fresh     |-> Recent(packs[a].at, now, TelemetryMaxAge),
   settings  |-> Status(a, now)]

Snapshot(now) == [a \in {b \in Addresses : packs[b] # NoPack} |-> PackShown(a, now)]

\* Readers change nothing.
TakeSnapshot == UNCHANGED storeVars

StoreNext ==
  \/ /\ Len(reports) < MaxReports
     /\ \E a \in Addresses, at \in Instants :
          \/ \E identity \in Identities : Record(a, identity, at)
          \/ \E b \in Blocks : RecordSettings(a, b, at)
  \/ TakeSnapshot

StoreSpec == StoreInit /\ [][StoreNext]_storeVars

-----------------------------------------------------------------------------
(***************************************************************************)
(* Properties, stated over all the frames that were recorded.              *)
(***************************************************************************)
\* The places in the history of what an address reported.
Of(a, kind) == {i \in DOMAIN reports : reports[i].addr = a /\ reports[i].kind = kind}

\* "Address zero has no reliable physical identity, so it is confirmed only
\* after two consistent consecutive reports" (store.go:45-47), and no snapshot
\* has a pack that did not report.
ConfirmedByTwo ==
  \A now \in Instants : \A a \in DOMAIN Snapshot(now) :
    LET of     == Of(a, "telemetry")
        last   == reports[Max(of)]
        before == reports[Max(of \ {Max(of)})]
    IN  /\ of # {}
        /\ Snapshot(now)[a].identity = last.identity
        /\ Snapshot(now)[a].confirmed /\ a = 0 =>
             /\ of # {Max(of)}
             /\ before.identity = last.identity
             /\ last.at - before.at <= MaxConsecutiveGap

\* "Both BalanceSeenAt and ProtectionSeenAt are evaluated independently so one
\* fresh read cannot mask a stale block" (store.go:188-189): settings are fresh
\* at an instant only if each block was read in the time before it, and they
\* are stale only if a block was read, and not lately.
Lately(a, b, now) == \E i \in Of(a, b) : now - reports[i].at \in 0..SettingsMaxAge

BothBlocksFresh ==
  \A now \in Instants : \A a \in DOMAIN Snapshot(now) :
    /\ Snapshot(now)[a].settings = "fresh" => \A b \in Blocks : Lately(a, b, now)
    /\ Snapshot(now)[a].settings = "stale" => \E b \in Blocks : Of(a, b) # {} /\ ~Lately(a, b, now)

\* An address that went on reporting is never lost: it is in every snapshot, and
\* fresh for TelemetryMaxAge after its last report, whatever the settings frames did.
FreshWhileReporting ==
  \A now \in Instants : \A a \in Addresses :
    LET of == Of(a, "telemetry")
    IN  of # {} =>
          /\ a \in DOMAIN Snapshot(now)
          /\ now - reports[Max(of)].at \in 0..TelemetryMaxAge => Snapshot(now)[a].fresh

\* What a snapshot says of the packs: every address that reports, fresh while it does,
\* address zero confirmed by two reports alone, and settings no fresher than both blocks.
SnapshotSound == StoreTypeOK /\ ConfirmedByTwo /\ FreshWhileReporting /\ BothBlocksFresh
=============================================================================
