--------------------------- MODULE ReadingsProofs ---------------------------
(***************************************************************************)
(* From what is read to what is shown and decided on: the store of packs   *)
(* for any number of reports (PackStore), the named settings for any words *)
(* and texts (SettingCodec), and the session's clock for any packs, periods *)
(* and ages (TickClock).  The three share nothing.                         *)
(*                                                                         *)
(* In TickClock a session is decided on soon enough.  A Tick that begins   *)
(* late does so because an operation held opMu, which lasts MaxOp; a tick  *)
(* that is not decided on waits for a snapshot, which it does for MaxAge   *)
(* after the last write; what it is decided on is no older than MaxAge.    *)
(* The sum of these is Notice.                                             *)
(***************************************************************************)
EXTENDS PackStore, SettingCodec, TickClock, SequenceTheorems, TLAPS

\* n is the last of the places S.
IsLast(n, S) == n \in S /\ \A j \in S : j <= n

\* Two reports of address zero that confirm it.
Confirms(r, q) == q.identity = r.identity /\ r.at - q.at <= MaxConsecutiveGap

\* What is known of a pack is in its last report, and what confirmed it in the one before.
PackKnown(a) ==
  LET of == Of(a, "telemetry")
  IN  /\ packs[a] = NoPack => of = {}
      /\ packs[a] # NoPack => \E n \in of :
           /\ IsLast(n, of)
           /\ packs[a].identity = reports[n].identity /\ packs[a].at = reports[n].at
           /\ packs[a].confirmed /\ a = 0 =>
                \E m \in of \ {n} : IsLast(m, of \ {n}) /\ Confirms(reports[n], reports[m])

\* When a block was last seen is the instant of a report, and none is later.
BlockKnown(a, b) ==
  /\ settings[a][b] # Never => \E i \in Of(a, b) : reports[i].at = settings[a][b]
  /\ \A i \in Of(a, b) : settings[a][b] # Never /\ reports[i].at <= settings[a][b]

\* The inductive invariant: the store is what the reports say.
StoreInv ==
  /\ StoreTypeOK /\ reports \in Seq(Telemetry \cup Setting)
  /\ \A a \in Addresses : PackKnown(a)
  /\ \A a \in Addresses, b \in Blocks : BlockKnown(a, b)

\* The greatest of some places is the last.
LEMMA MaxIsLast ==
  ASSUME NEW S, S \subseteq Int, NEW n, IsLast(n, S)
  PROVE  Max(S) = n
<1>1. Max(S) \in S /\ \A y \in S : Max(S) >= y
  BY DEF Max, IsLast
<1>2. n \in Int /\ Max(S) \in Int /\ Max(S) >= n /\ Max(S) <= n
  <2> HIDE DEF Max
  <2> QED  BY <1>1 DEF IsLast
<1> HIDE DEF Max
<1> QED  BY <1>2

\* A report is appended to what its address and kind have, and to nothing else.
LEMMA OfAppended ==
  ASSUME StoreInv, NEW e \in Telemetry \cup Setting, reports' = Append(reports, e), NEW a, NEW kind
  PROVE  /\ Of(a, kind)' = IF e.addr = a
            /\ e.kind = kind THEN Of(a, kind) \cup {Len(reports) + 1} ELSE Of(a, kind)
         /\ \A i \in Of(a, kind) : i \in 1..Len(reports) /\ reports'[i] = reports[i]
         /\ reports'[Len(reports) + 1] = e
         /\ reports' \in Seq(Telemetry \cup Setting) /\ Len(reports) \in Nat
            /\ Len(reports') = Len(reports) + 1
<1> DEFINE R == Telemetry \cup Setting
<1> HIDE DEF R
<1>1. reports \in Seq(R) /\ e \in R
  BY DEF StoreInv, R
<1>2. /\ reports' \in Seq(R) /\ Len(reports') = Len(reports) + 1
      /\ \A i \in 1..Len(reports) : reports'[i] = reports[i]
      /\ reports'[Len(reports) + 1] = e
  BY <1>1, AppendProperties
<1>3. Len(reports) \in Nat /\ DOMAIN reports = 1..Len(reports)
      /\ DOMAIN reports' = 1..(Len(reports) + 1)
  BY <1>1, <1>2, LenProperties
<1>4. \A i \in Of(a, kind) : i \in 1..Len(reports) /\ reports'[i] = reports[i]
  BY <1>2, <1>3 DEF Of
<1>5. Of(a, kind)' = IF e.addr = a /\ e.kind = kind THEN Of(a, kind) \cup {Len(reports) + 1}
      ELSE Of(a, kind)
  <2>1. DOMAIN reports' = DOMAIN reports \cup {Len(reports) + 1}
    BY <1>3
  <2> QED  BY <1>2, <1>3, <2>1 DEF Of
<1> QED  BY <1>2, <1>3, <1>4, <1>5 DEF R

\* The invariant holds of the empty store.
LEMMA StoreStart ==
  ASSUME StoreInit
  PROVE  StoreInv
<1>1. reports = <<>> /\ <<>> \in Seq(Telemetry \cup Setting) /\ DOMAIN reports = {}
      /\ Len(reports) = 0
  BY EmptySeq DEF StoreInit
<1>2. \A a, k : Of(a, k) = {}
  BY <1>1 DEF Of
<1> QED  BY <1>1, <1>2, StoreAssumption DEF StoreInv, StoreInit, StoreTypeOK, PackKnown, BlockKnown

\* A telemetry report keeps it: what was last becomes what was before.
LEMMA RecordStep ==
  ASSUME StoreInv, Len(reports) < MaxReports,
         NEW a \in Addresses, NEW at \in Instants,
         NEW identity \in Identities, Record(a, identity, at)
  PROVE  StoreInv'
<1> DEFINE e == [addr |-> a, kind |-> "telemetry", identity |-> identity, at |-> at]
           new == [identity |-> identity, at |-> at,
                   confirmed |-> a # 0 \/ Consistent(packs[a], identity, at)]
           N == Len(reports) + 1
<1>1. e \in Telemetry \cup Setting /\ reports' = Append(reports, e)
  BY DEF Telemetry, Record
<1>2. packs' = [packs EXCEPT ![a] = new] /\ settings' = settings
  BY DEF Record
<1>3. e.addr = a /\ e.kind = "telemetry" /\ e.identity = identity /\ e.at = at
  OBVIOUS
<1> HIDE DEF e
<1>4. \A c, k :
        /\ Of(c, k)' = IF c = a /\ k = "telemetry" THEN Of(c, k) \cup {N} ELSE Of(c, k)
        /\ \A i \in Of(c, k) : i \in 1..Len(reports) /\ reports'[i] = reports[i]
  BY <1>1, <1>3, OfAppended
<1>5. reports'[N] = e /\ reports' \in Seq(Telemetry \cup Setting) /\ Len(reports) \in Nat
      /\ Len(reports') = N
  BY <1>1, OfAppended
<1>6. new \in Pack /\ new # NoPack
  <2>1. Consistent(packs[a], identity, at) \in BOOLEAN
    BY DEF Consistent
  <2>2. new \in Pack
    BY <2>1 DEF Pack
  <2>3. new.at # Never
    BY StoreAssumption DEF Never, Instants
  <2> QED  BY <2>2, <2>3 DEF NoPack
<1>7. packs \in [Addresses -> Pack \cup {NoPack}] /\ packs'[a] = new
      /\ \A c \in Addresses \ {a} : packs'[c] = packs[c]
  BY <1>2 DEF StoreInv, StoreTypeOK
<1>8. new.confirmed => a # 0 \/ Consistent(packs[a], identity, at)
  BY Zenon
<1> HIDE DEF new
<1>9. StoreTypeOK'
  <2>1. packs' \in [Addresses -> Pack \cup {NoPack}]
    BY <1>2, <1>6, <1>7
  <2>2. \A i \in DOMAIN reports' : reports'[i] \in Telemetry \cup Setting
    BY <1>5, ElementOfSeq, LenProperties
  <2>3. Len(reports') <= MaxReports
    BY <1>5, StoreAssumption
  <2> QED  BY <1>2, <2>1, <2>2, <2>3 DEF StoreInv, StoreTypeOK
<1>10. PackKnown(a)'
  <2> DEFINE of == Of(a, "telemetry")
  <2>1. Of(a, "telemetry")' = of \cup {N} /\ \A i \in of : i \in 1..Len(reports)
        /\ reports'[i] = reports[i]
    BY <1>4
  <2>2. (of \cup {N}) \ {N} = of /\ IsLast(N, of \cup {N}) /\ N \in of \cup {N}
    BY <1>5, <2>1 DEF IsLast
  <2>3. packs'[a].identity = reports'[N].identity /\ packs'[a].at = reports'[N].at
    BY <1>3, <1>5, <1>7 DEF new
  <2>4. ASSUME packs'[a].confirmed, a = 0
        PROVE  \E m \in of : IsLast(m, of) /\ Confirms(reports'[N], reports'[m])
    <3>1. Consistent(packs[a], identity, at)
      BY <1>7, <1>8, <2>4
    <3>2. packs[a] # NoPack /\ at - packs[a].at \in 0..MaxConsecutiveGap
          /\ packs[a].identity = identity
      BY <3>1 DEF Consistent
    <3>3. PICK n \in of : IsLast(n, of) /\ packs[a].identity = reports[n].identity
               /\ packs[a].at = reports[n].at
      BY <3>2 DEF StoreInv, PackKnown
    <3>4. reports'[n] = reports[n]
      BY <2>1, <3>3
    <3>5. Confirms(reports'[N], reports'[n])
      BY <1>3, <1>5, <3>2, <3>3, <3>4, StoreAssumption DEF Confirms
    <3> QED  BY <3>3, <3>5
  <2> HIDE DEF of
  <2>5. packs'[a] # NoPack
    BY <1>6, <1>7
  <2> QED  BY <2>1, <2>2, <2>3, <2>4, <2>5 DEF PackKnown
<1>11. ASSUME NEW c \in Addresses \ {a}  PROVE PackKnown(c)'
  <2>1. Of(c, "telemetry")' = Of(c, "telemetry") /\ packs'[c] = packs[c]
    BY <1>4, <1>7
  <2>2. \A i \in Of(c, "telemetry") : reports'[i] = reports[i]
    BY <1>4
  <2>3. PackKnown(c)
    BY DEF StoreInv
  <2> QED  BY <2>1, <2>2, <2>3 DEF PackKnown
<1>12. ASSUME NEW c \in Addresses, NEW b \in Blocks  PROVE BlockKnown(c, b)'
  <2>1. Of(c, b)' = Of(c, b) /\ settings' = settings
    BY <1>2, <1>4 DEF Blocks
  <2>2. \A i \in Of(c, b) : reports'[i] = reports[i]
    BY <1>4
  <2>3. BlockKnown(c, b)
    BY DEF StoreInv
  <2> QED  BY <2>1, <2>2, <2>3 DEF BlockKnown
<1>13. \A c \in Addresses : PackKnown(c)'
  BY <1>10, <1>11
<1>14. \A c \in Addresses, b \in Blocks : BlockKnown(c, b)'
  BY <1>12
<1> QED  BY <1>5, <1>9, <1>13, <1>14 DEF StoreInv

\* A settings block keeps it.
LEMMA RecordSettingsStep ==
  ASSUME StoreInv, Len(reports) < MaxReports,
         NEW a \in Addresses, NEW at \in Instants, NEW b \in Blocks, RecordSettings(a, b, at)
  PROVE  StoreInv'
<1> DEFINE e == [addr |-> a, kind |-> b, at |-> at]
           N == Len(reports) + 1
<1>1. e \in Telemetry \cup Setting /\ reports' = Append(reports, e)
  BY DEF Setting, RecordSettings
<1>2. packs' = packs /\ settings' = [settings EXCEPT ![a] = [settings[a] EXCEPT ![b] = at]]
  BY DEF RecordSettings, Seen
<1>3. e.addr = a /\ e.kind = b /\ e.at = at /\ b # "telemetry"
  BY DEF Blocks
<1> HIDE DEF e
<1>4. \A c, k :
        /\ Of(c, k)' = IF c = a /\ k = b THEN Of(c, k) \cup {N} ELSE Of(c, k)
        /\ \A i \in Of(c, k) : i \in 1..Len(reports) /\ reports'[i] = reports[i]
  BY <1>1, <1>3, OfAppended
<1>5. reports'[N] = e /\ reports' \in Seq(Telemetry \cup Setting) /\ Len(reports) \in Nat
      /\ Len(reports') = N
  BY <1>1, OfAppended
<1>6. settings \in [Addresses -> [Blocks -> Instants \cup {Never}]]
  BY DEF StoreInv, StoreTypeOK
<1>7. /\ settings' \in [Addresses -> [Blocks -> Instants \cup {Never}]]
      /\ settings'[a][b] = at
      /\ \A c \in Addresses, d \in Blocks : c # a \/ d # b => settings'[c][d] = settings[c][d]
  BY <1>2, <1>6
<1>8. StoreTypeOK'
  <2>1. \A i \in DOMAIN reports' : reports'[i] \in Telemetry \cup Setting
    BY <1>5, ElementOfSeq, LenProperties
  <2>2. Len(reports') <= MaxReports
    BY <1>5, StoreAssumption
  <2> QED  BY <1>2, <1>7, <2>1, <2>2 DEF StoreInv, StoreTypeOK
<1>9. ASSUME NEW c \in Addresses  PROVE PackKnown(c)'
  <2>1. Of(c, "telemetry")' = Of(c, "telemetry") /\ packs'[c] = packs[c]
    BY <1>2, <1>3, <1>4
  <2>2. \A i \in Of(c, "telemetry") : reports'[i] = reports[i]
    BY <1>4
  <2>3. PackKnown(c)
    BY DEF StoreInv
  <2> QED  BY <2>1, <2>2, <2>3 DEF PackKnown
<1>10. BlockKnown(a, b)'
  <2>1. Of(a, b)' = Of(a, b) \cup {N}
    BY <1>4
  <2>2. reports'[N].at = at /\ at # Never
    BY <1>3, <1>5, StoreAssumption DEF Instants, Never
  <2>3. \A i \in Of(a, b) : reports'[i].at = reports[i].at /\ reports[i].at <= at
    <3>1. \A i \in Of(a, b) : i \in DOMAIN reports /\ reports'[i] = reports[i]
      BY <1>4 DEF Of
    <3> QED  BY <3>1 DEF RecordSettings, Later
  <2>4. at <= at
    BY StoreAssumption DEF Instants
  <2> QED  BY <1>7, <2>1, <2>2, <2>3, <2>4 DEF BlockKnown
<1>11. ASSUME NEW c \in Addresses, NEW d \in Blocks, c # a \/ d # b  PROVE BlockKnown(c, d)'
  <2>1. Of(c, d)' = Of(c, d) /\ settings'[c][d] = settings[c][d]
    BY <1>4, <1>7, <1>11
  <2>2. \A i \in Of(c, d) : reports'[i] = reports[i]
    BY <1>4
  <2>3. BlockKnown(c, d)
    BY DEF StoreInv
  <2> QED  BY <2>1, <2>2, <2>3 DEF BlockKnown
<1>12. \A c \in Addresses, d \in Blocks : BlockKnown(c, d)'
  BY <1>10, <1>11
<1> QED  BY <1>5, <1>8, <1>9, <1>12 DEF StoreInv

\* A snapshot changes nothing.
LEMMA StoreRests ==
  ASSUME StoreInv, UNCHANGED storeVars
  PROVE  StoreInv'
<1>1. packs' = packs /\ settings' = settings /\ reports' = reports
  BY DEF storeVars
<1>2. \A a, k : Of(a, k)' = Of(a, k)
  BY <1>1 DEF Of
<1>3. StoreTypeOK'
  BY <1>1 DEF StoreInv, StoreTypeOK
<1>4. ASSUME NEW a \in Addresses  PROVE PackKnown(a)'
  <2>1. PackKnown(a)
    BY DEF StoreInv
  <2> QED  BY <1>1, <1>2, <2>1 DEF PackKnown
<1>5. ASSUME NEW a \in Addresses, NEW b \in Blocks  PROVE BlockKnown(a, b)'
  <2>1. BlockKnown(a, b)
    BY DEF StoreInv
  <2> QED  BY <1>1, <1>2, <2>1 DEF BlockKnown
<1>6. \A a \in Addresses : PackKnown(a)'
  BY <1>4
<1>7. \A a \in Addresses, b \in Blocks : BlockKnown(a, b)'
  BY <1>5
<1> QED  BY <1>1, <1>3, <1>6, <1>7 DEF StoreInv

\* Every step keeps the invariant.
LEMMA StoreStep ==
  ASSUME StoreInv, [StoreNext]_storeVars
  PROVE  StoreInv'
<1>1. CASE UNCHANGED storeVars
  BY <1>1, StoreRests
<1>2. CASE StoreNext
  <2>1. CASE TakeSnapshot
    BY <2>1, StoreRests DEF TakeSnapshot
  <2>2. ASSUME Len(reports) < MaxReports, NEW a \in Addresses, NEW at \in Instants,
               NEW identity \in Identities, Record(a, identity, at)
        PROVE  StoreInv'
    BY <2>2, RecordStep
  <2>3. ASSUME Len(reports) < MaxReports, NEW a \in Addresses, NEW at \in Instants,
               NEW b \in Blocks, RecordSettings(a, b, at)
        PROVE  StoreInv'
    BY <2>3, RecordSettingsStep
  <2> QED  BY <1>2, <2>1, <2>2, <2>3 DEF StoreNext
<1> QED  BY <1>1, <1>2

\* The places of the reports of a kind.
LEMMA OfPlaces ==
  ASSUME StoreInv, NEW a, NEW k
  PROVE  Of(a, k) \subseteq 1..Len(reports) /\ Of(a, k) \subseteq Int
         /\ \A i \in Of(a, k) : reports[i].at \in Instants
<1>1. DOMAIN reports = 1..Len(reports) /\ Len(reports) \in Nat
  BY LenProperties DEF StoreInv
<1>2. \A i \in DOMAIN reports : reports[i].at \in Instants
  BY DEF StoreInv, StoreTypeOK, Telemetry, Setting
<1> QED  BY <1>1, <1>2 DEF Of

\* What a snapshot has of a pack is PackShown of what is stored.
LEMMA StoredIsShown ==
  ASSUME StoreInv, NEW now \in Instants, NEW a \in DOMAIN Snapshot(now)
  PROVE  a \in Addresses /\ packs[a] # NoPack /\ Snapshot(now)[a] = PackShown(a, now)
BY DEF Snapshot

\* A snapshot shows what the last reports said, and confirms address zero only by two reports
\* of one identity in close succession (bms/store.go), for any number of reports.
THEOREM SnapshotSoundHolds == StoreSpec => []SnapshotSound
<1>1. StoreInv => SnapshotSound
  <2> SUFFICES ASSUME StoreInv  PROVE SnapshotSound
    OBVIOUS
  <2>1. ConfirmedByTwo
    <3> SUFFICES ASSUME NEW now \in Instants, NEW a \in DOMAIN Snapshot(now)
                 PROVE  LET of     == Of(a, "telemetry")
                            last   == reports[Max(of)]
                            before == reports[Max(of \ {Max(of)})]
                        IN  /\ of # {}
                            /\ Snapshot(now)[a].identity = last.identity
                            /\ Snapshot(now)[a].confirmed /\ a = 0 =>
                                 /\ of # {Max(of)}
                                 /\ before.identity = last.identity
                                 /\ last.at - before.at <= MaxConsecutiveGap
      BY DEF ConfirmedByTwo
    <3> DEFINE of == Of(a, "telemetry")
    <3>1. a \in Addresses /\ packs[a] # NoPack /\ Snapshot(now)[a] = PackShown(a, now)
      BY StoredIsShown
    <3>2. PICK n \in of :
            /\ IsLast(n, of)
            /\ packs[a].identity = reports[n].identity
            /\ packs[a].confirmed /\ a = 0 =>
                 \E m \in of \ {n} : IsLast(m, of \ {n}) /\ Confirms(reports[n], reports[m])
      BY <3>1 DEF StoreInv, PackKnown
    <3>3. of \subseteq Int
      BY OfPlaces
    <3> HIDE DEF of
    <3>4. Max(of) = n
      BY <3>2, <3>3, MaxIsLast
    <3>5. Snapshot(now)[a].identity = packs[a].identity
          /\ Snapshot(now)[a].confirmed = packs[a].confirmed
      BY <3>1 DEF PackShown
    <3>6. ASSUME Snapshot(now)[a].confirmed, a = 0
          PROVE  /\ of # {n}
                 /\ reports[Max(of \ {n})].identity = reports[n].identity
                 /\ reports[n].at - reports[Max(of \ {n})].at <= MaxConsecutiveGap
      <4>1. PICK m \in of \ {n} : IsLast(m, of \ {n}) /\ Confirms(reports[n], reports[m])
        BY <3>2, <3>5, <3>6
      <4>2. of \ {n} \subseteq Int
        BY <3>3
      <4>3. Max(of \ {n}) = m
        BY <4>1, <4>2, MaxIsLast
      <4> QED  BY <4>1, <4>3 DEF Confirms
    <3> QED  BY <3>2, <3>4, <3>5, <3>6 DEF of
  <2>2. FreshWhileReporting
    <3> SUFFICES ASSUME NEW now \in Instants, NEW a \in Addresses, Of(a, "telemetry") # {}
                 PROVE  /\ a \in DOMAIN Snapshot(now)
                        /\ now - reports[Max(Of(a, "telemetry"))].at \in 0..TelemetryMaxAge
                           => Snapshot(now)[a].fresh
      BY DEF FreshWhileReporting
    <3> DEFINE of == Of(a, "telemetry")
    <3>1. packs[a] # NoPack
      BY DEF StoreInv, PackKnown
    <3>2. PICK n \in of : IsLast(n, of) /\ packs[a].at = reports[n].at
      BY <3>1 DEF StoreInv, PackKnown
    <3>3. of \subseteq Int /\ reports[n].at \in Instants
      BY <3>2, OfPlaces
    <3>4. a \in DOMAIN Snapshot(now)
      BY <3>1 DEF Snapshot
    <3> HIDE DEF of
    <3>5. Max(of) = n
      BY <3>2, <3>3, MaxIsLast
    <3>6. Snapshot(now)[a].fresh = Recent(reports[n].at, now, TelemetryMaxAge)
      BY <3>2, <3>4, StoredIsShown DEF PackShown
    <3>7. reports[n].at # Never
      BY <3>3, StoreAssumption DEF Never, Instants
    <3> QED  BY <3>4, <3>5, <3>6, <3>7 DEF Recent, of
  <2>3. BothBlocksFresh
    <3> SUFFICES ASSUME NEW now \in Instants, NEW a \in DOMAIN Snapshot(now)
                 PROVE  /\ Status(a, now) = "fresh" => \A b \in Blocks : Lately(a, b, now)
                        /\ Status(a, now) = "stale" => \E b \in Blocks : Of(a, b) # {}
                           /\ ~Lately(a, b, now)
      <4>1. \A now \in Instants : \A a \in DOMAIN Snapshot(now) :
            Snapshot(now)[a].settings = Status(a, now)
        BY StoredIsShown DEF PackShown
      <4> QED  BY <4>1 DEF BothBlocksFresh
    <3>1. a \in Addresses
      BY StoredIsShown
    <3>2. ASSUME NEW b \in Blocks, Recent(settings[a][b], now, SettingsMaxAge)
          PROVE  Lately(a, b, now)
      <4>1. PICK i \in Of(a, b) : reports[i].at = settings[a][b]
        BY <3>1, <3>2 DEF StoreInv, BlockKnown, Recent
      <4> QED  BY <3>2, <4>1 DEF Recent, Lately
    <3>3. ASSUME NEW b \in Blocks, Old(settings[a][b], now, SettingsMaxAge)  PROVE Of(a, b) # {}
                 /\ ~Lately(a, b, now)
      <4>1. BlockKnown(a, b)
        BY <3>1 DEF StoreInv
      <4>2. \A i \in Of(a, b) : reports[i].at \in Instants /\ reports[i].at <= settings[a][b]
        BY <4>1, OfPlaces DEF BlockKnown
      <4>3. settings[a][b] \in Instants \cup {Never}
        BY <3>1 DEF StoreInv, StoreTypeOK
      <4> QED  BY <3>3, <4>1, <4>2, <4>3, StoreAssumption DEF Old, Lately, BlockKnown, Instants,
                  Never
    <3> QED  BY <3>2, <3>3 DEF Status
  <2> QED  BY <2>1, <2>2, <2>3 DEF SnapshotSound, StoreInv
<1> QED  BY <1>1, StoreStart, StoreStep, PTL DEF StoreSpec
-----------------------------------------------------------------------------
\* How a field is encoded and how it is read: the pairs that the two tables make.
Kinds == {<<"tenths", "tenths">>, <<"hundredths", "hundredths">>, <<"tens", "tens">>,
          <<"whole", "whole">>, <<"whole", "high">>, <<"whole", "low">>, <<"signed", "signed">>,
          <<"switch", "whole">>, <<"switch", "flag">>, <<"bms", "whole">>, <<"time", "time">>,
          <<"volt12", "volt12">>}

\* A field is in one row of settingFields.
LEMMA EncoderOf ==
  ASSUME NEW e \in DOMAIN Encoders, NEW f \in Encoders[e]
  PROVE  Encoder(f) = e
<1>1. Encoder(f) \in DOMAIN Encoders /\ f \in Encoders[Encoder(f)]
  BY DEF Encoder
<1>2. ASSUME NEW d \in DOMAIN Encoders, f \in Encoders[d]  PROVE d = e
  BY <1>2 DEF Encoders, Single, Periodic
<1> QED  BY <1>1, <1>2

\* A name is in one of the readers at the most.
LEMMA ReaderOf ==
  ASSUME NEW f, NEW r \in DOMAIN Readers, f[1] \in Readers[r]
  PROVE  Reader(f) = r
<1>1. Reader(f) \in DOMAIN Readers /\ f[1] \in Readers[Reader(f)]
  BY DEF Reader
<1>2. ASSUME NEW d \in DOMAIN Readers, f[1] \in Readers[d]  PROVE d = r
  BY <1>2 DEF Readers
<1> QED  BY <1>1, <1>2

\* A name in none of them is read as it is.
LEMMA ReaderOfNone ==
  ASSUME NEW f, \A r \in DOMAIN Readers : f[1] \notin Readers[r]
  PROVE  Reader(f) = "whole"
BY DEF Reader

\* The two tables make no other pair, and only the packed bytes are read as bytes.
LEMMA KindOf ==
  ASSUME NEW f \in SettingFields
  PROVE  /\ <<Encoder(f), Reader(f)>> \in Kinds
         /\ Reader(f) = "high" <=> f[1] = "cutoff_charge_soc"
         /\ Reader(f) = "low" <=> f[1] = "cutoff_discharge_soc"
<1>1. PICK e \in DOMAIN Encoders : f \in Encoders[e]
  BY DEF SettingFields
<1>2. Encoder(f) = e
  BY <1>1, EncoderOf
<1>3. e \in {"tenths", "hundredths", "tens", "whole", "signed", "switch", "bms", "time", "volt12"}
  BY <1>1 DEF Encoders
<1>4. /\ f[1] = "cutoff_charge_soc" => Reader(f) = "high"
      /\ f[1] = "cutoff_discharge_soc" => Reader(f) = "low"
  <2>1. "high" \in DOMAIN Readers /\ "low" \in DOMAIN Readers
    BY DEF Readers
  <2>2. "cutoff_charge_soc" \in Readers["high"] /\ "cutoff_discharge_soc" \in Readers["low"]
    BY DEF Readers
  <2> QED  BY <2>1, <2>2, ReaderOf
<1>5. CASE e \in {"tenths", "hundredths", "tens", "signed", "time", "volt12"}
  <2>1. e \in DOMAIN Readers /\ f[1] \in Readers[e]
    BY <1>1, <1>5 DEF Encoders, Readers, Single, Periodic
  <2>2. Reader(f) = e
    BY <2>1, ReaderOf
  <2> QED  BY <1>2, <1>4, <1>5, <2>2 DEF Kinds
<1>6. CASE e = "whole"
  <2>1. CASE f[1] \in {"cutoff_charge_soc", "cutoff_discharge_soc"}
    BY <1>2, <1>4, <1>6, <2>1 DEF Kinds
  <2>2. CASE f[1] \notin {"cutoff_charge_soc", "cutoff_discharge_soc"}
    <3>1. \A r \in DOMAIN Readers : f[1] \notin Readers[r]
      BY <1>1, <1>6, <2>2 DEF Encoders, Readers, Single, Periodic
    <3>2. Reader(f) = "whole"
      BY <3>1, ReaderOfNone
    <3> QED  BY <1>2, <1>6, <2>2, <3>2 DEF Kinds
  <2> QED  BY <2>1, <2>2
<1>7. CASE e = "switch"
  <2>1. f[1] \notin {"cutoff_charge_soc", "cutoff_discharge_soc"}
    BY <1>1, <1>7 DEF Encoders, Single
  <2>2. CASE f[1] \in {"timed_charge_enable", "timed_discharge_enable"}
    <3>1. "flag" \in DOMAIN Readers /\ f[1] \in Readers["flag"]
      BY <2>2 DEF Readers
    <3>2. Reader(f) = "flag"
      BY <3>1, ReaderOf
    <3> QED  BY <1>2, <1>7, <2>1, <3>2 DEF Kinds
  <2>3. CASE f[1] \notin {"timed_charge_enable", "timed_discharge_enable"}
    <3>1. \A r \in DOMAIN Readers : f[1] \notin Readers[r]
      BY <1>1, <1>7, <2>3 DEF Encoders, Readers, Single
    <3>2. Reader(f) = "whole"
      BY <3>1, ReaderOfNone
    <3> QED  BY <1>2, <1>7, <2>1, <3>2 DEF Kinds
  <2> QED  BY <2>2, <2>3
<1>8. CASE e = "bms"
  <2>1. \A r \in DOMAIN Readers : f[1] \notin Readers[r]
    BY <1>1, <1>8 DEF Encoders, Readers, Single
  <2>2. Reader(f) = "whole"
    BY <2>1, ReaderOfNone
  <2>3. f[1] \notin {"cutoff_charge_soc", "cutoff_discharge_soc"}
    BY <1>1, <1>8 DEF Encoders, Single
  <2> QED  BY <1>2, <1>8, <2>2, <2>3 DEF Kinds
<1> QED  BY <1>3, <1>5, <1>6, <1>7, <1>8

\* Rounded is at most half a step away.
LEMMA RoundedIs ==
  ASSUME NEW n \in Int, NEW d \in Nat \ {0}, NEW m \in Rounded(n, d)
  PROVE  /\ m \in Int /\ 2 * (m * d - n) <= d /\ 2 * (n - m * d) <= d
         /\ n >= 0 => m >= 0
<1>1. n \div d \in Int /\ (n >= 0 => n \div d >= 0)
  OBVIOUS
<1>2. m \in {n \div d, n \div d + 1} /\ 2 * Distance(m * d, n) <= d
  BY DEF Rounded
<1>3. m \in Int /\ (n >= 0 => m >= 0)
  BY <1>1, <1>2
<1> DEFINE x == m * d
<1>4. x \in Int
  BY <1>3
<1> HIDE DEF x
<1>5. 2 * (x - n) <= d /\ 2 * (n - x) <= d
  BY <1>2, <1>4 DEF Distance, x
<1> QED  BY <1>3, <1>5 DEF x

\* The words, without their set.
LEMMA WordIs ==
  ASSUME NEW w
  PROVE  w \in Words16 <=> w \in Nat /\ w < 256 * 256
BY DEF Words16, Word16

\* The low sixteen bits of a number are a word.
LEMMA LowWord ==
  ASSUME NEW n \in Int
  PROVE  n % Word16 \in Words16
BY DEF Words16, Word16

\* A word has two bytes.
LEMMA BytesOf ==
  ASSUME NEW w \in Words16
  PROVE  w % 256 \in 0..255 /\ w \div 256 \in 0..255
<1>1. w \in Nat /\ w < 256 * 256
  BY WordIs
<1>2. w % 256 \in 0..255
  BY <1>1
<1>3. w \div 256 \in 0..255
  BY <1>1
<1> QED  BY <1>2, <1>3

\* Two bytes make a word, and are its bytes.
LEMMA OfBytes ==
  ASSUME NEW h \in 0..255, NEW l \in 0..255
  PROVE  /\ h * 256 + l \in Words16
         /\ (h * 256 + l) \div 256 = h /\ (h * 256 + l) % 256 = l
BY WordIs

\* Whatever a conversion makes of a number outside the range, it is a word.
LEMMA Uint16Type ==
  ASSUME NEW n \in Int
  PROVE  Uint16(n) \subseteq Words16
<1>1. n % Word16 \in Words16
  BY LowWord
<1>2. 0 \in Words16 /\ Word16 - 1 \in Words16
  BY WordIs DEF Word16
<1> QED  BY <1>1, <1>2 DEF Uint16

\* A word is converted to itself.
LEMMA Uint16Of ==
  ASSUME NEW n \in Words16
  PROVE  Uint16(n) = {n}
BY DEF Uint16

\* What the float encoders make is a word.
LEMMA RoundedType ==
  ASSUME NEW n \in Int, NEW d \in Nat \ {0}
  PROVE  UNION {Uint16(m) : m \in Rounded(n, d)} \subseteq Words16
<1>1. ASSUME NEW m \in Rounded(n, d)  PROVE Uint16(m) \subseteq Words16
  <2>1. m \in Int
    BY RoundedIs
  <2> QED  BY <2>1, Uint16Type
<1> QED  BY <1>1

\* The parts of a text.
LEMMA TextType ==
  ASSUME NEW t \in Text
  PROVE  /\ t.form \in {"number", "time", "nan", "word"} /\ t.a \in Int /\ t.b \in Int
         /\ t.form = "word" => t.a \in {0, 1}
BY DEF Text, Word

\* Whatever is written, what comes of it is a word.
LEMMA EncodeType ==
  ASSUME NEW e, NEW t \in Text, NEW known \in Nat
  PROVE  Encode(e, t, known) \subseteq Words16
<1>1. /\ t.form \in {"number", "time", "nan", "word"} /\ t.a \in Int /\ t.b \in Int
      /\ t.form = "word" => t.a \in {0, 1}
  BY TextType
<1> DEFINE n == t.a \div 100
<1>2. n \in Int
  BY <1>1
<1> HIDE DEF n
<1>3. ASSUME NEW w \in Encode("whole", t, known)  PROVE w \in Words16
  BY DEF Encode, n
<1>4. ASSUME NEW w \in Encode("signed", t, known)  PROVE w \in Words16
  <2>1. n % Word16 \in Words16
    BY <1>2, LowWord
  <2> QED  BY <2>1 DEF Encode, n
<1>5. ASSUME NEW w \in Encode("switch", t, known)  PROVE w \in Words16
  <2>1. w \in {0, 1}
    BY <1>1 DEF Encode
  <2> QED  BY <2>1, WordIs
<1>6. ASSUME NEW w \in Encode("bms", t, known)  PROVE w \in Words16
  <2>1. w \in 0..2
    BY <1>1 DEF Encode
  <2> QED  BY <2>1, WordIs
<1>7. ASSUME NEW w \in Encode("time", t, known)  PROVE w \in Words16
  <2>1. t.a \in 0..23 /\ t.b \in 0..59 /\ w = t.a * 256 + t.b
    BY DEF Encode
  <2> QED  BY <2>1, WordIs
<1>8. EncodeFloat(e, t, known) \subseteq Words16
  <2>1. CASE t.form = "nan"
    <3>1. EncodeFloat(e, t, known) = {0}
      BY <2>1 DEF EncodeFloat
    <3>2. 0 \in Words16
      BY WordIs
    <3> QED  BY <3>1, <3>2
  <2>2. CASE t.form # "nan" /\ t.form # "number"
    <3>1. EncodeFloat(e, t, known) = {}
      BY <2>2 DEF EncodeFloat
    <3> QED  BY <3>1
  <2>3. CASE t.form = "number" /\ e = "tenths"
    BY <1>1, <2>3, RoundedType DEF EncodeFloat
  <2>4. CASE t.form = "number" /\ e = "hundredths"
    BY <1>1, <2>4, Uint16Type DEF EncodeFloat
  <2>5. CASE t.form = "number" /\ e = "tens"
    BY <1>1, <2>5, RoundedType DEF EncodeFloat
  <2>6. CASE t.form = "number" /\ e \notin {"tenths", "hundredths", "tens"}
    <3> DEFINE v == IF known = 0 THEN 48 ELSE known
    <3>1. t.a * 12 \in Int /\ 10 * v \in Nat \ {0}
      BY <1>1
    <3>2. Encode12VBase(t, known) = Rounded(t.a * 12, 10 * v)
      BY DEF Encode12VBase
    <3> HIDE DEF v
    <3>3. UNION {Uint16(m) : m \in Rounded(t.a * 12, 10 * v)} \subseteq Words16
      BY <3>1, RoundedType
    <3> QED  BY <2>6, <3>2, <3>3 DEF EncodeFloat
  <2> QED  BY <2>1, <2>2, <2>3, <2>4, <2>5, <2>6
<1>9. CASE e \in {"whole", "signed", "switch", "bms", "time"}
  BY <1>3, <1>4, <1>5, <1>6, <1>7, <1>9
<1>10. CASE e \notin {"whole", "signed", "switch", "bms", "time"}
  BY <1>8, <1>10 DEF Encode
<1> QED  BY <1>9, <1>10

\* A packed word is a word.
LEMMA PackedType ==
  ASSUME NEW f, NEW w \in Words16, NEW c \in Words16
  PROVE  PackedWord(f, w, c) \in Words16
<1> DEFINE a == w % 256
           b == c % 256
           h == c \div 256
<1>1. a \in 0..255 /\ b \in 0..255 /\ h \in 0..255
  BY BytesOf
<1> HIDE DEF a, b, h
<1>2. a * 256 + b \in Words16
  BY ZenonT(30), <1>1, OfBytes
<1>3. h * 256 + a \in Words16
  BY ZenonT(30), <1>1, OfBytes
<1> QED  BY <1>2, <1>3 DEF PackedWord, a, b, h

\* A packed word has the byte that was written and keeps the other.
LEMMA PackedBytes ==
  ASSUME NEW f, NEW w \in Words16, NEW c \in Words16
  PROVE  /\ f[1] = "cutoff_charge_soc" =>
              PackedWord(f, w, c) \div 256 = w % 256 /\ PackedWord(f, w, c) % 256 = c % 256
         /\ f[1] = "cutoff_discharge_soc" =>
              PackedWord(f, w, c) \div 256 = c \div 256 /\ PackedWord(f, w, c) % 256 = w % 256
         /\ f[1] \notin {"cutoff_charge_soc", "cutoff_discharge_soc"} => PackedWord(f, w, c) = w
<1> DEFINE a == w % 256
           b == c % 256
           h == c \div 256
<1>1. a \in 0..255 /\ b \in 0..255 /\ h \in 0..255
  BY BytesOf
<1> HIDE DEF a, b, h
<1>2. (a * 256 + b) \div 256 = a /\ (a * 256 + b) % 256 = b
  BY <1>1
<1>3. (h * 256 + a) \div 256 = h /\ (h * 256 + a) % 256 = a
  BY <1>1
<1> QED  BY <1>2, <1>3 DEF PackedWord, a, b, h

\* A number in the range of the steps of s hundredths, rounded to a step.
LEMMA NearestWord ==
  ASSUME NEW s \in Nat \ {0}, NEW n \in 0..((Word16 - 1) * s),
         NEW w \in UNION {Uint16(m) : m \in Rounded(n, s)}
  PROVE  2 * Distance(w * s, n) <= s
<1>1. PICK m \in Rounded(n, s) : w \in Uint16(m)
  OBVIOUS
<1>2. (Word16 - 1) * s \in Int
  BY DEF Word16
<1>3. n \in Int /\ n >= 0 /\ n <= (Word16 - 1) * s
  BY <1>2
<1>4. m \in Int /\ 2 * (m * s - n) <= s /\ 2 * (n - m * s) <= s /\ m >= 0
  BY <1>1, <1>3, RoundedIs
<1>5. m <= 256 * 256 - 1
  <2>1. SUFFICES ASSUME m >= 256 * 256  PROVE FALSE
    BY <1>4
  <2>2. m * s >= 256 * 256 * s
    BY <1>4, <2>1
  <2> DEFINE x == m * s
  <2>3. x \in Int /\ x >= 256 * 256 * s /\ 2 * (x - n) <= s
    BY <1>4, <2>2
  <2> HIDE DEF x
  <2> QED  BY <1>3, <2>3 DEF Word16
<1>6. w = m
  <2>1. m \in Words16
    BY <1>4, <1>5, WordIs
  <2> QED  BY <1>1, <2>1, Uint16Of
<1> DEFINE y == m * s
<1>7. y \in Int /\ 2 * (y - n) <= s /\ 2 * (n - y) <= s
  BY <1>4
<1> HIDE DEF y
<1>8. 2 * Distance(y, n) <= s
  BY <1>3, <1>7 DEF Distance
<1> QED  BY <1>6, <1>8 DEF y

\* A system voltage is a multiple of 6 V.
LEMMA VoltageIs ==
  ASSUME NEW v \in SystemVoltages
  PROVE  \E j \in Nat \ {0} : v = 6 * j
<1>1. v \in Nat \ {0} /\ v % 6 = 0
  <2>1. SystemVoltages \subseteq {u \in Nat \ {0} : u % 6 = 0}
    BY CodecAssumption
  <2> QED  BY <2>1
<1>2. v = 6 * (v \div 6) /\ v \div 6 \in Nat \ {0}
  BY <1>1
<1> QED  BY <1>2

\* What a voltage shows for each 6 V of the system voltage: whole hundredths.
LEMMA ShowVoltage ==
  ASSUME NEW j \in Nat \ {0}, voltage = 6 * j, NEW w \in Words16
  PROVE  Show("volt12", w).a = w * (5 * j)
<1> DEFINE x == w * j
<1>1. x \in Int
  BY WordIs
<1>2. w * 10 * voltage = 60 * x /\ w * (5 * j) = 5 * x
  BY WordIs
<1> HIDE DEF x
<1>3. (60 * x) \div 12 = 5 * x
  BY <1>1
<1> QED  BY <1>2, <1>3 DEF Show, Number

\* NearestWord for the voltages, which are encoded for 12 V.
LEMMA NearestVoltage ==
  ASSUME NEW j \in Nat \ {0}, NEW n \in 0..((Word16 - 1) * (5 * j)),
         NEW w \in UNION {Uint16(m) : m \in Rounded(n * 12, 10 * (6 * j))}
  PROVE  2 * Distance(w * (5 * j), n) <= 5 * j
<1> DEFINE s == 5 * j
<1>1. s \in Nat \ {0} /\ 10 * (6 * j) = 12 * s
  OBVIOUS
<1> HIDE DEF s
<1>2. (Word16 - 1) * s \in Int
  BY <1>1 DEF Word16
<1>3. n \in Int /\ n >= 0 /\ n <= (Word16 - 1) * s
  BY <1>2 DEF s
<1>4. PICK m \in Rounded(n * 12, 12 * s) : w \in Uint16(m)
  BY <1>1
<1>5. m \in Int /\ 2 * (m * (12 * s) - n * 12) <= 12 * s /\ 2 * (n * 12 - m * (12 * s)) <= 12 * s
      /\ m >= 0
  <2>1. n * 12 \in Int /\ 12 * s \in Nat \ {0} /\ n * 12 >= 0
    BY <1>1, <1>3
  <2> QED  BY <1>4, <2>1, RoundedIs
<1> DEFINE y == m * s
<1>6. y \in Int /\ 2 * (y - n) <= s /\ 2 * (n - y) <= s
  <2>1. y \in Int /\ m * (12 * s) = 12 * y
    BY <1>1, <1>5
  <2> HIDE DEF y
  <2> QED  BY <1>1, <1>3, <1>5, <2>1
<1>7. m <= 256 * 256 - 1
  <2>1. SUFFICES ASSUME m >= 256 * 256  PROVE FALSE
    BY <1>5
  <2>2. y >= 256 * 256 * s
    BY <1>1, <1>5, <2>1
  <2> HIDE DEF y
  <2> QED  BY <1>1, <1>3, <1>6, <2>2 DEF Word16
<1>8. w = m
  <2>1. m \in Words16
    BY <1>5, <1>7, WordIs
  <2> QED  BY <1>4, <2>1, Uint16Of
<1> HIDE DEF y
<1>9. 2 * Distance(y, n) <= s
  BY <1>3, <1>6 DEF Distance
<1> QED  BY <1>8, <1>9 DEF y, s

\* A number without a fraction.
LEMMA WholeNumber ==
  ASSUME NEW n \in Int, n % 100 = 0
  PROVE  (n \div 100) * 100 = n /\ n \div 100 \in Int
OBVIOUS


\* Two steps that are half a step apart at the most are one.
LEMMA SameStep ==
  ASSUME NEW s \in Nat \ {0}, NEW w \in Nat, NEW v \in Nat, 2 * Distance(w * s, v * s) <= s
  PROVE  w = v
<1> DEFINE x == w * s
           y == v * s
<1>1. x \in Int /\ y \in Int
  OBVIOUS
<1>2. w >= v + 1 => x >= y + s
  <2>1. SUFFICES ASSUME w >= v + 1  PROVE x >= y + s
    OBVIOUS
  <2>2. w * s >= (v + 1) * s
    BY <2>1
  <2> QED  BY <2>2
<1>3. v >= w + 1 => y >= x + s
  <2>1. SUFFICES ASSUME v >= w + 1  PROVE y >= x + s
    OBVIOUS
  <2>2. v * s >= (w + 1) * s
    BY <2>1
  <2> QED  BY <2>2
<1>4. 2 * Distance(x, y) <= s
  OBVIOUS
<1> HIDE DEF x, y
<1>5. 2 * (x - y) <= s /\ 2 * (y - x) <= s
  BY <1>1, <1>4 DEF Distance
<1> QED  BY <1>1, <1>2, <1>3, <1>5

\* Words read by r are shown in steps of s hundredths.
Scale(r, s) == \A w \in Words16 : Show(r, w).a = w * s

\* The steps of the readers that have one.
LEMMA ScalesAre ==
  /\ Scale("tenths", 10) /\ Scale("hundredths", 1) /\ Scale("tens", 1000) /\ Scale("whole", 100)
<1>1. Scale("tenths", 10)
  BY DEF Scale, Show, Number
<1>2. Scale("hundredths", 1)
  BY WordIs DEF Scale, Show, Number
<1>3. Scale("tens", 1000)
  BY DEF Scale, Show, Number
<1>4. Scale("whole", 100)
  BY DEF Scale, Show, Number
<1> QED  BY <1>1, <1>2, <1>3, <1>4

\* The step of the voltages.
LEMMA ScaleOfVoltage ==
  ASSUME voltage \in SystemVoltages
  PROVE  \E j \in Nat \ {0} : voltage = 6 * j /\ Scale("volt12", 5 * j)
<1>1. PICK j \in Nat \ {0} : voltage = 6 * j
  BY VoltageIs
<1>2. Scale("volt12", 5 * j)
  BY <1>1, ShowVoltage DEF Scale
<1> QED  BY <1>1, <1>2

\* Step is that step.
LEMMA StepOf ==
  ASSUME NEW f, NEW s \in Nat \ {0}, Scale(Reader(f), s), Reader(f) \notin {"high", "low"}
  PROVE  Step(f) = s
<1>1. 0 \in Words16 /\ 1 \in Words16
  BY WordIs
<1>2. Show(Reader(f), 0).a = 0 * s /\ Show(Reader(f), 1).a = 1 * s
  BY <1>1 DEF Scale
<1>3. Show(Reader(f), 0).a = 0 /\ Show(Reader(f), 1).a = s
  BY <1>2
<1>4. Distance(s, 0) = s
  BY DEF Distance
<1> QED  BY <1>3, <1>4 DEF Step

\* InRange is the range of a word's steps.
LEMMA RangeOf ==
  ASSUME NEW f, NEW s \in Nat \ {0}, Scale(Reader(f), s),
         Reader(f) \notin {"high", "low", "signed"}, NEW n \in Int, InRange(f, n)
  PROVE  n \in 0..((Word16 - 1) * s)
<1>1. Word16 - 1 \in Words16
  BY WordIs DEF Word16
<1>2. Show(Reader(f), Word16 - 1).a = (Word16 - 1) * s
  BY <1>1 DEF Scale
<1>3. n >= 0 /\ n <= (Word16 - 1) * s
  BY <1>2 DEF InRange
<1> DEFINE m == (Word16 - 1) * s
<1>4. m \in Int
  BY DEF Word16
<1> HIDE DEF m
<1>5. n \in 0..m
  BY <1>3, <1>4 DEF m
<1> QED  BY <1>5 DEF m

\* What Encode makes of a number for each of the encoders: tenths, rounded, ...
LEMMA NearestTenths ==
  ASSUME NEW t \in Text, t.form = "number", NEW known, NEW w \in Encode("tenths", t, known),
         t.a \in 0..((Word16 - 1) * 10)
  PROVE  2 * Distance(w * 10, t.a) <= 10
<1>1. w \in UNION {Uint16(m) : m \in Rounded(t.a, 10)}
  BY DEF Encode, EncodeFloat
<1> QED  BY <1>1, NearestWord

\* ... tens, rounded, ...
LEMMA NearestTens ==
  ASSUME NEW t \in Text, t.form = "number", NEW known, NEW w \in Encode("tens", t, known),
         t.a \in 0..((Word16 - 1) * 1000)
  PROVE  2 * Distance(w * 1000, t.a) <= 1000
<1>1. w \in UNION {Uint16(m) : m \in Rounded(t.a, 1000)}
  BY DEF Encode, EncodeFloat
<1> QED  BY <1>1, NearestWord

\* The greatest word.
LEMMA TopWord == Word16 - 1 \in Int /\ Word16 - 1 < 256 * 256
BY DEF Word16

\* ... hundredths, exactly, ...
LEMMA ExactHundredths ==
  ASSUME NEW t \in Text, t.form = "number", NEW known, NEW w \in Encode("hundredths", t, known),
         t.a \in 0..((Word16 - 1) * 1)
  PROVE  w * 1 = t.a
<1>1. w \in Uint16(t.a)
  BY DEF Encode, EncodeFloat
<1>2. Word16 - 1 \in Int /\ Word16 - 1 < 256 * 256
  BY TopWord
<1> DEFINE n == t.a
           top == Word16 - 1
<1>3. top * 1 = top
  BY <1>2
<1>4. n \in 0..top
  BY <1>3
<1> HIDE DEF n, top
<1>5. n \in Words16
  <2>1. n \in Nat /\ n < 256 * 256
    BY <1>2, <1>4 DEF top
  <2> QED  BY <2>1, WordIs
<1>6. w = n /\ n * 1 = n
  <2>1. w = n
    BY <1>1, <1>5, Uint16Of DEF n
  <2>2. n * 1 = n
    BY <1>5, WordIs
  <2> QED  BY <2>1, <2>2
<1> QED  BY <1>6 DEF n

\* ... whole numbers, which are refused when they have a fraction, ...
LEMMA ExactWhole ==
  ASSUME NEW e \in {"whole", "bms", "switch"}, NEW t \in Text, t.form = "number",
         NEW known, NEW w \in Encode(e, t, known)
  PROVE  w * 100 = t.a /\ w = t.a \div 100
<1>1. t.a \in Int
  BY TextType
<1>2. t.a % 100 = 0 /\ w = t.a \div 100
  BY DEF Encode
<1> QED  BY <1>1, <1>2, WholeNumber

\* ... signed ones, which come back through int16, ...
LEMMA ExactSigned ==
  ASSUME NEW t \in Text, t.form = "number", NEW known, NEW w \in Encode("signed", t, known)
  PROVE  Int16(w) * 100 = t.a
<1> DEFINE n == t.a \div 100
<1>1. t.a \in Int
  BY TextType
<1>2. t.a % 100 = 0 /\ n >= -(128 * 256) /\ n < 128 * 256 /\ w = n % Word16
  BY DEF Encode
<1>3. n * 100 = t.a /\ n \in Int
  BY <1>1, <1>2, WholeNumber
<1> HIDE DEF n
<1>4. Int16(n % Word16) = n
  <2>1. n >= -(128 * 256) /\ n < 128 * 256
    BY <1>2
  <2>2. CASE n >= 0
    <3>1. n % Word16 = n
      BY <1>3, <2>1, <2>2 DEF Word16
    <3> QED  BY <1>3, <2>1, <3>1 DEF Int16
  <2>3. CASE n < 0
    <3>1. n % Word16 = n + Word16
      BY <1>3, <2>1, <2>3 DEF Word16
    <3> QED  BY <1>3, <2>1, <2>3, <3>1 DEF Int16, Word16
  <2> QED  BY <1>3, <2>2, <2>3
<1> QED  BY <1>2, <1>3, <1>4

\* ... and voltages, rounded, when the system voltage is known or is 48 V.
LEMMA NearestOfVoltage ==
  ASSUME NEW j \in Nat \ {0}, voltage = 6 * j, NEW known \in {voltage, 0},
         known = voltage \/ voltage = 48,
         NEW t \in Text, t.form = "number", NEW w \in Encode("volt12", t, known),
         t.a \in 0..((Word16 - 1) * (5 * j))
  PROVE  2 * Distance(w * (5 * j), t.a) <= 5 * j
<1>1. Encode12VBase(t, known) = Rounded(t.a * 12, 10 * (6 * j))
  BY DEF Encode12VBase
<1>2. w \in UNION {Uint16(m) : m \in Encode12VBase(t, known)}
  BY DEF Encode, EncodeFloat
<1>3. w \in UNION {Uint16(m) : m \in Rounded(t.a * 12, 10 * (6 * j))}
  BY <1>1, <1>2
<1> QED  BY <1>3, NearestVoltage

\* What is shown of a field is a text that may be written.
LEMMA ShownText ==
  ASSUME voltage \in SystemVoltages, NEW f \in SettingFields, NEW w \in Words16
  PROVE  Show(Reader(f), w) \in Text
<1>1. w \in Nat
  BY WordIs
<1> DEFINE h == w \div 256
           l == w % 256
<1>2. h \in Int /\ l \in Int
  BY <1>1
<1>3. ASSUME NEW x \in Int  PROVE Number(x) \in Text
  BY DEF Number, Text
<1>4. <<Encoder(f), Reader(f)>> \in Kinds
  BY KindOf
<1>5. CASE Reader(f) \in {"tenths", "hundredths", "tens", "whole"}
  <2>1. w * 10 \in Int /\ w \in Int /\ w * 1000 \in Int /\ w * 100 \in Int
    BY <1>1
  <2> QED  BY <1>3, <1>5, <2>1 DEF Show
<1>6. CASE Reader(f) = "signed"
  <2>1. Int16(w) * 100 \in Int
    BY <1>1 DEF Int16, Word16
  <2> QED  BY <1>3, <1>6, <2>1 DEF Show
<1>7. CASE Reader(f) = "flag"
  BY <1>7 DEF Show, Word, Text
<1>8. CASE Reader(f) \in {"high", "low"}
  <2>1. h * 100 \in Int /\ l * 100 \in Int
    BY <1>2
  <2> QED  BY <1>3, <1>8, <2>1 DEF Show
<1>9. CASE Reader(f) = "time"
  <2>1. Show(Reader(f), w) = Time(h, l)
    BY <1>9 DEF Show
  <2> HIDE DEF h, l
  <2> QED  BY <1>2, <2>1 DEF Time, Text
<1>10. CASE Reader(f) = "volt12"
  <2>1. PICK j \in Nat \ {0} : voltage = 6 * j /\ Scale("volt12", 5 * j)
    BY ScaleOfVoltage
  <2>2. Show("volt12", w).a = w * (5 * j)
    BY <2>1 DEF Scale
  <2> DEFINE x == w * (5 * j)
  <2>3. x \in Int
    BY <1>1
  <2>4. Show("volt12", w) = Number(Show("volt12", w).a)
    BY DEF Show, Number
  <2> HIDE DEF x
  <2> QED  BY <1>3, <1>10, <2>2, <2>3, <2>4 DEF x
<1> QED  BY <1>4, <1>5, <1>6, <1>7, <1>8, <1>9, <1>10 DEF Kinds

\* A number that was accepted is shown to the nearest step: one case for each reader.
LEMMA AcceptedNumber ==
  ASSUME NEW f \in SettingFields, NEW t \in Text, t.form = "number",
         voltage \in SystemVoltages, NEW known \in {voltage, 0},
         NEW w \in Encode(Encoder(f), t, known), NEW c \in Words16,
         Encoder(f) # "switch", InRange(f, t.a),
         Encoder(f) = "volt12" => (known = voltage \/ voltage = 48)
  PROVE  2 * Distance(Show(Reader(f), PackedWord(f, w, c)).a, t.a) <= Step(f)
<1>1. <<Encoder(f), Reader(f)>> \in Kinds
  BY KindOf
<1>2. /\ Reader(f) = "high" <=> f[1] = "cutoff_charge_soc"
      /\ Reader(f) = "low" <=> f[1] = "cutoff_discharge_soc"
  BY KindOf
<1>3. known \in Nat
  <2>1. \A v \in SystemVoltages : v \in Nat
    BY CodecAssumption
  <2> QED  BY <2>1
<1>4. w \in Words16
  BY <1>3, EncodeType
<1> DEFINE p == PackedWord(f, w, c)
<1>5. Reader(f) \notin {"high", "low"} => p = w
  BY <1>2, <1>4, PackedBytes
<1> HIDE DEF p
<1>6. t.a \in Int
  BY TextType
<1>7. ASSUME NEW x \in Int  PROVE 2 * Distance(x, x) = 0
  BY DEF Distance
<1>8. ASSUME NEW s \in Nat \ {0}, Reader(f) \in {"tenths", "hundredths", "tens", "whole", "volt12"},
             Scale(Reader(f), s),
             t.a \in 0..((Word16 - 1) * s) => 2 * Distance(w * s, t.a) <= s
      PROVE  2 * Distance(Show(Reader(f), p).a, t.a) <= Step(f)
  <2>1. Reader(f) \notin {"high", "low", "signed"}
    BY <1>8
  <2>2. t.a \in 0..((Word16 - 1) * s)
    BY <1>6, <1>8, <2>1, RangeOf
  <2>3. Step(f) = s
    BY <1>8, <2>1, StepOf
  <2>4. Show(Reader(f), p).a = w * s
    BY <1>4, <1>5, <1>8, <2>1 DEF Scale
  <2> QED  BY <1>8, <2>2, <2>3, <2>4
<1>9. CASE Reader(f) = "tenths"
  <2>1. Encoder(f) = "tenths"
    BY <1>1, <1>9 DEF Kinds
  <2>2. t.a \in 0..((Word16 - 1) * 10) => 2 * Distance(w * 10, t.a) <= 10
    BY <2>1, NearestTenths
  <2> QED  BY <1>8, <1>9, <2>2, ScalesAre DEF p
<1>10. CASE Reader(f) = "hundredths"
  <2>1. Encoder(f) = "hundredths"
    BY <1>1, <1>10 DEF Kinds
  <2>2. t.a \in 0..((Word16 - 1) * 1) => 2 * Distance(w * 1, t.a) <= 1
    BY <1>6, <1>7, <2>1, ExactHundredths
  <2> QED  BY <1>8, <1>10, <2>2, ScalesAre DEF p
<1>11. CASE Reader(f) = "tens"
  <2>1. Encoder(f) = "tens"
    BY <1>1, <1>11 DEF Kinds
  <2>2. t.a \in 0..((Word16 - 1) * 1000) => 2 * Distance(w * 1000, t.a) <= 1000
    BY <2>1, NearestTens
  <2> QED  BY <1>8, <1>11, <2>2, ScalesAre DEF p
<1>12. CASE Reader(f) = "whole"
  <2>1. Encoder(f) \in {"whole", "bms", "switch"}
    BY <1>1, <1>12 DEF Kinds
  <2>2. w * 100 = t.a
    BY <2>1, ExactWhole
  <2>3. 2 * Distance(w * 100, t.a) <= 100
    BY <1>6, <1>7, <2>2
  <2> QED  BY <1>8, <1>12, <2>3, ScalesAre DEF p
<1>13. CASE Reader(f) = "signed"
  <2>1. Encoder(f) = "signed"
    BY <1>1, <1>13 DEF Kinds
  <2>2. Show(Reader(f), p).a = Int16(w) * 100
    BY <1>5, <1>13 DEF Show, Number
  <2>3. Int16(w) * 100 = t.a
    BY <2>1, ExactSigned
  <2>4. Step(f) = 100
    BY <1>13 DEF Step, Show, Number, Int16, Distance
  <2> QED  BY <1>6, <1>7, <2>2, <2>3, <2>4 DEF p
<1>14. CASE Reader(f) \in {"high", "low"}
  <2>1. Encoder(f) = "whole"
    BY <1>1, <1>14 DEF Kinds
  <2>2. w * 100 = t.a
    BY <2>1, ExactWhole
  <2>3. w \in 0..255
    <3>1. t.a >= 0 /\ t.a <= 255 * 100
      BY <1>14 DEF InRange
    <3> QED  BY <1>4, <2>2, <3>1, WordIs
  <2>4. w % 256 = w
    BY <2>3
  <2>5. Show(Reader(f), p).a = (w % 256) * 100
    <3>1. CASE Reader(f) = "high"
      <4>1. p \div 256 = w % 256
        BY <1>2, <1>4, <3>1, PackedBytes DEF p
      <4> QED  BY <3>1, <4>1 DEF Show, Number
    <3>2. CASE Reader(f) = "low"
      <4>1. p % 256 = w % 256
        BY <1>2, <1>4, <3>2, PackedBytes DEF p
      <4> QED  BY <3>2, <4>1 DEF Show, Number
    <3> QED  BY <1>14, <3>1, <3>2
  <2>6. Step(f) = 100
    BY <1>14 DEF Step
  <2> QED  BY <1>6, <1>7, <2>2, <2>4, <2>5, <2>6 DEF p
<1>15. CASE Reader(f) = "volt12"
  <2>1. Encoder(f) = "volt12"
    BY <1>1, <1>15 DEF Kinds
  <2>2. PICK j \in Nat \ {0} : voltage = 6 * j /\ Scale("volt12", 5 * j)
    BY ScaleOfVoltage
  <2>3. t.a \in 0..((Word16 - 1) * (5 * j)) => 2 * Distance(w * (5 * j), t.a) <= 5 * j
    BY <2>1, <2>2, NearestOfVoltage
  <2>4. 5 * j \in Nat \ {0}
    OBVIOUS
  <2> QED  BY <1>8, <1>15, <2>2, <2>3, <2>4 DEF p
<1>16. CASE Reader(f) \in {"time", "flag"}
  <2>1. Encoder(f) = "time"
    BY <1>1, <1>16 DEF Kinds
  <2> QED  BY <2>1 DEF Encode
<1> QED  BY <1>1, <1>9, <1>10, <1>11, <1>12, <1>13, <1>14, <1>15, <1>16 DEF Kinds

\* What was shown and is written back is shown again: one case for each reader.
LEMMA ShownAgain ==
  ASSUME NEW f \in SettingFields, voltage \in SystemVoltages, NEW known \in {voltage, 0},
         NEW c \in Words16, NEW w \in Encode(Encoder(f), Show(Reader(f), c), known),
         Encoder(f) = "volt12" => (known = voltage \/ voltage = 48)
  PROVE  Show(Reader(f), PackedWord(f, w, c)) = Show(Reader(f), c)
<1>1. <<Encoder(f), Reader(f)>> \in Kinds
  BY KindOf
<1>2. /\ Reader(f) = "high" <=> f[1] = "cutoff_charge_soc"
      /\ Reader(f) = "low" <=> f[1] = "cutoff_discharge_soc"
  BY KindOf
<1> DEFINE t == Show(Reader(f), c)
<1>3. t \in Text
  BY ShownText
<1>4. known \in Nat
  <2>1. \A v \in SystemVoltages : v \in Nat
    BY CodecAssumption
  <2> QED  BY <2>1
<1>5. w \in Words16
  BY <1>3, <1>4, EncodeType
<1> DEFINE p == PackedWord(f, w, c)
<1>6. Reader(f) \notin {"high", "low"} => p = w
  BY <1>2, <1>5, PackedBytes
<1>7. c \in Nat /\ c < 256 * 256 /\ w \in Nat
  BY <1>5, WordIs
<1> HIDE DEF p
<1>8. ASSUME NEW s \in Nat \ {0}, Reader(f) \notin {"high", "low"}, Scale(Reader(f), s),
             t.a \in 0..((Word16 - 1) * s) => 2 * Distance(w * s, t.a) <= s
      PROVE  Show(Reader(f), p) = t
  <2>1. t.a = c * s
    BY <1>8 DEF Scale
  <2>2. c * s \in 0..((Word16 - 1) * s)
    <3> DEFINE top == Word16 - 1
    <3>1. top \in Nat /\ c <= top
      BY <1>7 DEF Word16
    <3> HIDE DEF top
    <3>2. c * s \in Nat /\ top * s \in Nat /\ c * s <= top * s
      BY <1>7, <3>1
    <3> QED  BY <3>2 DEF top
  <2>3. w = c
    BY <1>7, <1>8, <2>1, <2>2, SameStep
  <2> QED  BY <1>6, <1>8, <2>3
<1>9. CASE Reader(f) = "tenths"
  <2>1. Encoder(f) = "tenths" /\ t.form = "number"
    BY <1>1, <1>9 DEF Kinds, Show, Number
  <2>2. t.a \in 0..((Word16 - 1) * 10) => 2 * Distance(w * 10, t.a) <= 10
    BY <1>3, <2>1, NearestTenths
  <2> QED  BY <1>8, <1>9, <2>2, ScalesAre DEF p
<1>10. CASE Reader(f) = "hundredths"
  <2>1. Encoder(f) = "hundredths" /\ t.form = "number"
    BY <1>1, <1>10 DEF Kinds, Show, Number
  <2>2. t.a \in 0..((Word16 - 1) * 1) => w * 1 = t.a
    BY <1>3, <2>1, ExactHundredths
  <2>3. 2 * Distance(w * 1, w * 1) <= 1
    BY <1>7 DEF Distance
  <2> QED  BY <1>8, <1>10, <2>2, <2>3, ScalesAre DEF p
<1>11. CASE Reader(f) = "tens"
  <2>1. Encoder(f) = "tens" /\ t.form = "number"
    BY <1>1, <1>11 DEF Kinds, Show, Number
  <2>2. t.a \in 0..((Word16 - 1) * 1000) => 2 * Distance(w * 1000, t.a) <= 1000
    BY <1>3, <2>1, NearestTens
  <2> QED  BY <1>8, <1>11, <2>2, ScalesAre DEF p
<1>12. CASE Reader(f) = "whole"
  <2>1. Encoder(f) \in {"whole", "bms", "switch"} /\ t.form = "number" /\ t.a = c * 100
    BY <1>1, <1>12 DEF Kinds, Show, Number
  <2>2. w * 100 = t.a
    BY <1>3, <2>1, ExactWhole
  <2>3. w = c
    BY <1>7, <2>1, <2>2
  <2> QED  BY <1>6, <1>12, <2>3 DEF p
<1>13. CASE Reader(f) = "signed"
  <2>1. Encoder(f) = "signed" /\ t.form = "number" /\ t.a = Int16(c) * 100
    BY <1>1, <1>13 DEF Kinds, Show, Number
  <2>2. Int16(w) * 100 = t.a
    BY <1>3, <2>1, ExactSigned
  <2>3. p = w
    BY <1>6, <1>13
  <2>4. Show("signed", w) = Number(Int16(w) * 100) /\ Show("signed", c) = Number(Int16(c) * 100)
    BY DEF Show
  <2> QED  BY <1>13, <2>1, <2>2, <2>3, <2>4 DEF p
<1>14. CASE Reader(f) \in {"high", "low"}
  <2> DEFINE b == IF Reader(f) = "high" THEN c \div 256 ELSE c % 256
  <2>1. Encoder(f) = "whole" /\ t = Number(b * 100)
    BY <1>1, <1>14 DEF Kinds, Show
  <2>2. b \in 0..255
    BY BytesOf
  <2> HIDE DEF b
  <2>3. t.form = "number" /\ t.a = b * 100
    BY <2>1 DEF Number
  <2>4. w * 100 = t.a
    BY <1>3, <2>1, <2>3, ExactWhole
  <2>5. w = b
    BY <1>7, <2>2, <2>3, <2>4
  <2>6. w % 256 = b
    BY <2>2, <2>5
  <2>7. Show(Reader(f), p) = Number((w % 256) * 100)
    <3>1. CASE Reader(f) = "high"
      <4>1. p \div 256 = w % 256
        BY <1>2, <1>5, <3>1, PackedBytes DEF p
      <4> QED  BY <3>1, <4>1 DEF Show
    <3>2. CASE Reader(f) = "low"
      <4>1. p % 256 = w % 256
        BY <1>2, <1>5, <3>2, PackedBytes DEF p
      <4> QED  BY <3>2, <4>1 DEF Show
    <3> QED  BY <1>14, <3>1, <3>2
  <2> QED  BY <2>1, <2>6, <2>7 DEF p
<1>15. CASE Reader(f) = "volt12"
  <2>1. Encoder(f) = "volt12" /\ t.form = "number"
    BY <1>1, <1>15 DEF Kinds, Show, Number
  <2>2. PICK j \in Nat \ {0} : voltage = 6 * j /\ Scale("volt12", 5 * j)
    BY ScaleOfVoltage
  <2>3. t.a \in 0..((Word16 - 1) * (5 * j)) => 2 * Distance(w * (5 * j), t.a) <= 5 * j
    BY <1>3, <2>1, <2>2, NearestOfVoltage
  <2>4. 5 * j \in Nat \ {0}
    OBVIOUS
  <2> QED  BY <1>8, <1>15, <2>2, <2>3, <2>4 DEF p
<1>16. CASE Reader(f) = "flag"
  <2>1. Encoder(f) = "switch" /\ t = Word(c # 0)
    BY <1>1, <1>16 DEF Kinds, Show
  <2>2. t.form = "word" /\ t.a = IF c # 0 THEN 1 ELSE 0
    BY <2>1 DEF Word
  <2>3. w = IF c # 0 THEN 1 ELSE 0
    BY <2>1, <2>2 DEF Encode
  <2> QED  BY <1>6, <1>16, <2>3 DEF p, Show, Word
<1>17. CASE Reader(f) = "time"
  <2> DEFINE h == c \div 256
             l == c % 256
  <2>1. Encoder(f) = "time" /\ t = Time(h, l)
    BY <1>1, <1>17 DEF Kinds, Show
  <2>2. t.a = h /\ t.b = l
    BY <2>1 DEF Time
  <2>3. w = h * 256 + l
    BY <2>1, <2>2 DEF Encode
  <2>4. c = h * 256 + l
    BY <1>7
  <2> QED  BY <1>6, <1>17, <2>3, <2>4 DEF p
<1> QED  BY <1>1, <1>9, <1>10, <1>11, <1>12, <1>13, <1>14, <1>15, <1>16, <1>17 DEF Kinds, p

\* Two fields have one register only when they are its two bytes or its two names.
LEMMA SharedRegister ==
  ASSUME NEW f \in SettingFields, NEW g \in SettingFields, f # g, Register(f) = Register(g)
  PROVE  \/ {g[1], f[1]} = {"equalizing_charge_en", "equalizing_charge_enable"}
         \/ f[1] = "cutoff_charge_soc" /\ g[1] = "cutoff_discharge_soc"
         \/ f[1] = "cutoff_discharge_soc" /\ g[1] = "cutoff_charge_soc"
<1> DEFINE cut == {"cutoff_charge_soc", "cutoff_discharge_soc"}
           equal == {"equalizing_charge_en", "equalizing_charge_enable"}
<1>1. ASSUME NEW x \in SettingFields
      PROVE  /\ x = <<x[1], x[2]>> /\ x # <<"cutoff_soc", 0>>
             /\ x[1] \in cut \cup equal => x[2] = 0
             /\ x = <<"equalizing_charge_en", 0>> => x[1] \in equal
  <2>1. PICK e \in DOMAIN Encoders : x \in Encoders[e]
    BY DEF SettingFields
  <2> QED  BY <2>1 DEF Encoders, Single, Periodic
<1>2. ASSUME NEW x \in SettingFields
      PROVE  \/ x[1] \in cut /\ Register(x) = <<"cutoff_soc", 0>>
             \/ x[1] \in equal /\ Register(x) = <<"equalizing_charge_en", 0>>
             \/ x[1] \notin cut \cup equal /\ Register(x) = x
  BY <1>1 DEF Register
<1>3. CASE f[1] \in cut
  <2>1. Register(f) = <<"cutoff_soc", 0>>
    BY <1>2, <1>3
  <2>2. g[1] \in cut
    <3>1. Register(g) # <<"equalizing_charge_en", 0>> /\ g # <<"cutoff_soc", 0>>
      BY <1>1, <2>1
    <3> QED  BY <1>2, <2>1, <3>1
  <2>3. f[1] # g[1]
    BY <1>1, <1>3, <2>2
  <2> QED  BY <1>3, <2>2, <2>3
<1>4. CASE f[1] \in equal
  <2>1. Register(f) = <<"equalizing_charge_en", 0>>
    BY <1>2, <1>4
  <2>2. g[1] \in equal
    <3>1. Register(g) # <<"cutoff_soc", 0>>
      BY <2>1
    <3> QED  BY <1>1, <1>2, <2>1, <3>1
  <2>3. f[1] # g[1]
    BY <1>1, <1>4, <2>2
  <2> QED  BY <1>4, <2>2, <2>3
<1>5. CASE f[1] \notin cut \cup equal
  <2>1. Register(f) = f
    BY <1>2, <1>5
  <2>2. f # <<"cutoff_soc", 0>> /\ f # <<"equalizing_charge_en", 0>>
    BY <1>1, <1>5
  <2>3. Register(g) = g
    BY <1>2, <2>1, <2>2
  <2> QED  BY <2>1, <2>3
<1> QED  BY <1>3, <1>4, <1>5

\* The inductive invariant: the types, the system voltage, and what was asked.
CodecInv == CodecTypeOK /\ voltage \in SystemVoltages /\ ShownAsAsked

\* It holds at first, when nothing was asked.
LEMMA CodecBegins == CodecInit => CodecInv
<1> SUFFICES ASSUME CodecInit  PROVE CodecInv
  OBVIOUS
<1>1. pair \subseteq SettingFields /\ voltage \in SystemVoltages /\ asked = NothingAsked
  BY CodecAssumption DEF CodecInit
<1>2. bank \in [{Register(f) : f \in pair} -> Words16]
  <2>1. Words \subseteq Words16 /\ bank \in [{Register(f) : f \in pair} -> Words]
    BY CodecAssumption DEF CodecInit
  <2> HIDE DEF CodecInit
  <2> QED  BY <2>1
<1> QED  BY <1>1, <1>2 DEF CodecInv, CodecTypeOK, ShownAsAsked

\* A write of f: the text, and the word that came of it.
Writes(f, text, known, w) ==
  /\ bank' = [bank EXCEPT ![Register(f)] = PackedWord(f, w, @)]
  /\ asked' = [field |-> f, text |-> text, known |-> known, replaced |-> bank[Register(f)]]
  /\ UNCHANGED <<pair, voltage>>

\* Every step is the write of a word.
LEMMA StepIsWrite ==
  ASSUME CodecInv, CodecNext
  PROVE  \E f \in pair, text \in Text, known \in {voltage, 0} :
           \E w \in Encode(Encoder(f), text, known) :
             /\ w \in Words16
             /\ Writes(f, text, known, w)
<1>1. PICK f \in pair : \E text \in Texts \cup {Shown(f)},
           known \in {voltage, 0} : WriteSetting(f, text, known)
  BY DEF CodecNext
<1>2. PICK text \in Texts \cup {Shown(f)}, known \in {voltage, 0} : WriteSetting(f, text, known)
  BY <1>1
<1>3. f \in SettingFields /\ bank[Register(f)] \in Words16 /\ voltage \in SystemVoltages
  BY DEF CodecInv, CodecTypeOK
<1>4. text \in Text
  <2>1. Shown(f) \in Text
    BY <1>3, ShownText DEF Shown
  <2>2. Texts \subseteq Text
    BY CodecAssumption
  <2> QED  BY <2>1, <2>2
<1>5. PICK w \in Encode(Encoder(f), text, known) : Writes(f, text, known, w)
  BY <1>2 DEF WriteSetting, Writes
<1>6. known \in Nat
  <2>1. \A v \in SystemVoltages : v \in Nat
    BY CodecAssumption
  <2> QED  BY <1>3, <2>1
<1>7. w \in Words16
  BY <1>4, <1>6, EncodeType
<1> QED  BY <1>4, <1>5, <1>7

\* What is shown after a write.
LEMMA AfterWrite ==
  ASSUME CodecInv, NEW f \in pair, NEW text, NEW known, NEW w, Writes(f, text, known, w)
  PROVE  /\ bank'[Register(f)] = PackedWord(f, w, bank[Register(f)])
         /\ \A g \in pair : Register(g) # Register(f) => bank'[Register(g)] = bank[Register(g)]
         /\ \A g \in pair : Shown(g)' = Show(Reader(g), bank'[Register(g)])
<1>1. bank \in [{Register(g) : g \in pair} -> Words16]
  BY DEF CodecInv, CodecTypeOK
<1>2. voltage' = voltage
  BY DEF Writes
<1>3. ASSUME NEW g \in pair  PROVE Shown(g)' = Show(Reader(g), bank'[Register(g)])
  BY <1>2 DEF Shown, Show
<1> QED  BY <1>1, <1>3 DEF Writes

\* Every write keeps the invariant.
LEMMA CodecSteps == CodecInv /\ [CodecNext]_codecVars => CodecInv'
<1> SUFFICES ASSUME CodecInv, [CodecNext]_codecVars  PROVE CodecInv'
  OBVIOUS
<1>1. CASE UNCHANGED codecVars
  <2>1. pair' = pair /\ voltage' = voltage /\ bank' = bank /\ asked' = asked
    BY <1>1 DEF codecVars
  <2>2. ShownAsAsked'
    <3> DEFINE f == asked.field
               n == asked.text.a
    <3>1. f' = f /\ n' = n /\ asked.text.form' = asked.text.form /\ asked.known' = asked.known
      BY <2>1
    <3>2. Shown(f)' = Shown(f)
      BY <2>1 DEF Shown, Show
    <3>3. InRange(f, n)' <=> InRange(f, n)
      BY <2>1 DEF InRange, Show
    <3>4. Step(f)' = Step(f)
      BY <2>1 DEF Step, Show
    <3> QED  BY <2>1, <3>1, <3>2, <3>3, <3>4 DEF CodecInv, ShownAsAsked
  <2> QED  BY <2>1, <2>2 DEF CodecInv, CodecTypeOK
<1>2. CASE CodecNext
  <2>1. PICK f \in pair, text \in Text, known \in {voltage, 0} :
          \E w \in Encode(Encoder(f), text, known) : w \in Words16 /\ Writes(f, text, known, w)
    BY <1>2, StepIsWrite
  <2>2. PICK w \in Encode(Encoder(f), text, known) : w \in Words16 /\ Writes(f, text, known, w)
    BY <2>1
  <2>3. f \in SettingFields /\ voltage \in SystemVoltages /\ bank[Register(f)] \in Words16
    BY DEF CodecInv, CodecTypeOK
  <2>4. pair' = pair /\ voltage' = voltage
    BY <2>2 DEF Writes
  <2>5. CodecTypeOK'
    <3>1. PackedWord(f, w, bank[Register(f)]) \in Words16
      BY <2>2, <2>3, PackedType
    <3>2. bank' \in [{Register(g) : g \in pair} -> Words16]
      BY <2>2, <3>1 DEF Writes, CodecInv, CodecTypeOK
    <3>3. asked'.field \in pair
      BY <2>2 DEF Writes
    <3> QED  BY <2>4, <3>2, <3>3 DEF CodecInv, CodecTypeOK
  <2>6. ShownAsAsked'
    <3>1. asked'.field = f /\ asked'.text = text /\ asked'.known = known
      BY <2>2 DEF Writes
    <3>2. Shown(f)' = Show(Reader(f), PackedWord(f, w, bank[Register(f)]))
      BY <2>2, AfterWrite
    <3>3. InRange(f, text.a)' <=> InRange(f, text.a)
      BY <2>4 DEF InRange, Show
    <3>4. Step(f)' = Step(f)
      BY <2>4 DEF Step, Show
    <3>5. /\ text.form = "number"
          /\ Encoder(f) # "switch"
          /\ InRange(f, text.a)
          /\ Encoder(f) = "volt12" => (known = voltage \/ voltage = 48)
          => 2 * Distance(Show(Reader(f), PackedWord(f, w, bank[Register(f)])).a, text.a) <= Step(f)
      BY <2>2, <2>3, AcceptedNumber
    <3>6. 2 * Distance(Shown(f)'.a, text.a) <= Step(f)'
          \/ ~ ( /\ text.form = "number"
                 /\ Encoder(f) # "switch"
                 /\ InRange(f, text.a)'
                 /\ Encoder(f) = "volt12" => (known = voltage' \/ voltage' = 48))
      BY <2>4, <3>2, <3>3, <3>4, <3>5
    <3> QED  BY <3>1, <3>6 DEF ShownAsAsked
  <2> QED  BY <2>3, <2>4, <2>5, <2>6 DEF CodecInv
<1> QED  BY <1>1, <1>2

\* The invariant, for any words, texts and system voltages.
LEMMA CodecInvariant == CodecSpec => []CodecInv
<1> QED  BY CodecBegins, CodecSteps, PTL DEF CodecSpec

\* Any word fits its register whatever is written, and any accepted number in the range of
\* its field is shown back to the nearest step (settings_write.go against settings.go).
THEOREM CodecSoundHolds == CodecSpec => []CodecSound
<1>1. CodecInv => CodecSound
  BY DEF CodecInv, CodecSound
<1> QED  BY <1>1, CodecInvariant, PTL

\* What OnlyTheEdit says of a write.
LEMMA EditOnly ==
  ASSUME CodecInv, CodecNext, NEW g \in pair
  PROVE  IF g = asked'.field THEN WrittenBack(g) ELSE AsItWas(g)
<1>1. PICK f \in pair, text \in Text, known \in {voltage, 0} :
        \E w \in Encode(Encoder(f), text, known) : w \in Words16 /\ Writes(f, text, known, w)
  BY StepIsWrite
<1>2. PICK w \in Encode(Encoder(f), text, known) : w \in Words16 /\ Writes(f, text, known, w)
  BY <1>1
<1>3. f \in SettingFields /\ g \in SettingFields /\ voltage \in SystemVoltages
      /\ bank[Register(f)] \in Words16 /\ bank[Register(g)] \in Words16
  BY DEF CodecInv, CodecTypeOK
<1>4. voltage' = voltage /\ asked'.field = f /\ asked'.text = text /\ asked'.known = known
  BY <1>2 DEF Writes
<1>5. Shown(g)' = Show(Reader(g), bank'[Register(g)])
      /\ Shown(g) = Show(Reader(g), bank[Register(g)])
  BY <1>2, AfterWrite DEF Shown
<1>6. bank'[Register(f)] = PackedWord(f, w, bank[Register(f)])
  BY <1>2, AfterWrite
<1>7. CASE g = f
  <2>1. SUFFICES ASSUME text = Shown(g),
                        Encoder(g) = "volt12" => (known = voltage \/ voltage = 48)
                 PROVE  Shown(g)' = Shown(g)
    BY <1>4, <1>7 DEF WrittenBack
  <2>2. w \in Encode(Encoder(f), Show(Reader(f), bank[Register(f)]), known)
    BY <1>2, <1>5, <1>7, <2>1
  <2>3. Show(Reader(f), PackedWord(f, w, bank[Register(f)])) = Show(Reader(f), bank[Register(f)])
    BY <1>3, <1>7, <2>1, <2>2, ShownAgain
  <2> QED  BY <1>5, <1>6, <1>7, <2>3
<1>8. CASE g # f
  <2>1. CASE Register(g) # Register(f)
    <3>1. bank'[Register(g)] = bank[Register(g)]
      BY <1>2, <2>1, AfterWrite
    <3> QED  BY <1>4, <1>5, <1>8, <3>1 DEF AsItWas
  <2>2. CASE Register(g) = Register(f)
    <3> DEFINE c == bank[Register(f)]
    <3>1. /\ Reader(g) = "high" <=> g[1] = "cutoff_charge_soc"
          /\ Reader(g) = "low" <=> g[1] = "cutoff_discharge_soc"
      BY <1>3, KindOf
    <3>2. CASE {g[1], f[1]} = {"equalizing_charge_en", "equalizing_charge_enable"}
      BY <1>4, <1>8, <3>2 DEF AsItWas
    <3>3. CASE f[1] = "cutoff_charge_soc" /\ g[1] = "cutoff_discharge_soc"
      <4>1. PackedWord(f, w, c) % 256 = c % 256
        BY <1>2, <1>3, <3>3, PackedBytes
      <4>2. Shown(g)' = Number((PackedWord(f, w, c) % 256) * 100)
            /\ Shown(g) = Number((c % 256) * 100)
        BY <1>5, <1>6, <2>2, <3>1, <3>3 DEF Show
      <4> QED  BY <1>4, <1>8, <4>1, <4>2 DEF AsItWas
    <3>4. CASE f[1] = "cutoff_discharge_soc" /\ g[1] = "cutoff_charge_soc"
      <4>1. PackedWord(f, w, c) \div 256 = c \div 256
        BY <1>2, <1>3, <3>4, PackedBytes
      <4>2. Shown(g)' = Number((PackedWord(f, w, c) \div 256) * 100)
            /\ Shown(g) = Number((c \div 256) * 100)
        BY <1>5, <1>6, <2>2, <3>1, <3>4 DEF Show
      <4> QED  BY <1>4, <1>8, <4>1, <4>2 DEF AsItWas
    <3> QED  BY <1>3, <1>8, <2>2, <3>2, <3>3, <3>4, SharedRegister
  <2> QED  BY <2>1, <2>2
<1> QED  BY <1>7, <1>8

\* A write changes nothing but its field, and not even that when it writes back what was
\* shown, for any words, any texts and any two fields.
THEOREM OnlyTheEditHolds == CodecSpec => OnlyTheEdit
<1>1. CodecInv /\ [CodecNext]_codecVars
      => [ bank' # bank => \A f \in pair :
             IF f = asked'.field THEN WrittenBack(f) ELSE AsItWas(f) ]_codecVars
  BY EditOnly DEF codecVars
<1> QED  BY <1>1, CodecInvariant, PTL DEF CodecSpec, OnlyTheEdit
-----------------------------------------------------------------------------
\* The ticker is due within a period, no tick and no reading is of the future, and an
\* operation lasts MaxOp at the most.
InTime ==
  /\ due - Period <= clock /\ clock < due
  /\ tick # NoTick => tick <= clock
  /\ taken # NoTick => taken <= clock
  /\ lastUpdated <= clock /\ observed.at <= clock /\ \A p \in Packs : heard[p] <= clock
  /\ holder.is # "none" => holder.since <= clock /\ clock <= holder.since + MaxOp

\* Who may hold opMu, and which ticks may wait for it.
Turns ==
  /\ holder.is = "none" => holder = Free
  /\ session = "running" => holder.is \in {"none", "check", "stage"}
  /\ holder.is \in {"check", "stage"} => holder.loop
  /\ holder.loop => taken = NoTick

\* A session was last decided on at lastUpdated, when readings were young, and
\* writes come within an operation or two of that.
DecidedOn ==
  /\ session = "running" \/ holder.is = "apply" =>
       /\ lastUpdated - observed.at <= MaxAge
       /\ \A p \in Packs : lastUpdated - heard[p] <= MaxAge
  /\ holder.is = "apply" => holder.since <= lastUpdated
  /\ holder.is \in {"check", "stage"} =>
       /\ holder.since <= lastUpdated + MaxOp - 1
       /\ tick # NoTick => tick > holder.since
  /\ session = "running" => appliedAt <= lastUpdated + 2 * MaxOp - 1

Idle == session = "running" /\ holder.is = "none"

\* The last tick that fired waits to be decided on, or was not long after the last decision.
NextTickComes ==
  Idle => \/ due - Period <= lastUpdated + 2 * MaxOp + MaxAge - 2
          \/ tick = due - Period \/ taken = due - Period

\* Once the clock has moved on from a write, one tick waits at the most, and not for long.
LateBy ==
  Idle /\ clock > appliedAt =>
    /\ taken = NoTick \/ tick = NoTick
    /\ taken # NoTick => clock - taken <= MaxOp - 1
    /\ tick # NoTick => clock - tick <= MaxOp - 1

Caught == Idle => clock <= lastUpdated + 2 * MaxOp + MaxAge + Period - 2

ClockInv == TickTypeOK /\ InTime /\ Turns /\ DecidedOn /\ NextTickComes /\ LateBy /\ Caught

-----------------------------------------------------------------------------
Holders == [is : {"none", "start", "apply", "check", "stage", "restore"},
            loop : BOOLEAN, busy : BOOLEAN, since : Nat]

LEMMA FreeTyped == Free \in Holders /\ Free.is = "none" /\ ~Free.loop /\ ~Free.busy
  BY DEF Free, Holders

LEMMA QueuedTyped ==
  ASSUME NEW kind \in {"start", "apply", "check", "stage", "restore"}, NEW byLoop \in BOOLEAN,
         clock \in Nat
  PROVE  /\ Queued(kind, byLoop) \in Holders
         /\ Queued(kind, byLoop).is = kind /\ Queued(kind, byLoop).loop = byLoop
         /\ Queued(kind, byLoop).since = clock /\ ~Queued(kind, byLoop).busy
         /\ Queued(kind, byLoop) # Free
  BY DEF Queued, Holders, Free

\* An operation that begins is not over.
LEMMA BeginsInTime ==
  ASSUME clock \in Nat, NEW since, since = clock
  PROVE  since <= clock /\ clock <= since + MaxOp
<1>1. MaxOp \in Nat
  BY TickAssumption
<1> QED
  BY <1>1

LEMMA YoungIs ==
  ASSUME NEW at \in Nat, NEW now \in Nat
  PROVE  Young(at, now) => at <= now /\ now - at <= MaxAge
  BY TickAssumption DEF Young

\* Initially no time has passed.
LEMMA ClockInitInv == TickInit => ClockInv
<1> SUFFICES ASSUME TickInit PROVE ClockInv
  OBVIOUS
<1> USE TickAssumption, FreeTyped DEF TickInit
<1>1. TickTypeOK
  BY DEF TickTypeOK, Holders
<1>2. InTime /\ Turns
  BY DEF InTime, Turns
<1>3. DecidedOn /\ NextTickComes /\ LateBy /\ Caught
  BY DEF DecidedOn, NextTickComes, LateBy, Caught, Idle
<1> QED
  BY <1>1, <1>2, <1>3 DEF ClockInv

\* Time passes only when nothing is left to run.
LEMMA AdvanceInv ==
  ASSUME ClockInv, Advance
  PROVE  ClockInv'
<1> USE TickAssumption DEF ClockInv, Advance, ticker, service, readings
<1>1. /\ clock' = clock + 1 /\ clock \in Nat /\ due \in Nat
      /\ UNCHANGED <<taken, holder, session, appliedAt, lastUpdated, observed, heard>>
  BY DEF TickTypeOK
<1>2. \/ due = clock + 1 /\ due' = due + Period /\ tick' = IF tick = NoTick THEN due ELSE tick
      \/ due # clock + 1 /\ UNCHANGED <<due, tick>>
  OBVIOUS
<1>3. TickTypeOK'
  BY <1>1, <1>2 DEF TickTypeOK
<1>4. CASE holder.is = "none"
  <2>1. holder = Free /\ ~holder.loop /\ taken = NoTick /\ tick = NoTick
    BY <1>4, FreeTyped DEF Turns, Settled, LoopBusy
  <2>2. InTime'
    BY <1>1, <1>2, <1>4 DEF InTime, TickTypeOK
  <2>3. Turns' /\ DecidedOn'
    BY <1>1, <1>4 DEF Turns, DecidedOn, TickTypeOK
  <2>4. NextTickComes'
    BY <1>1, <1>2, <2>1 DEF NextTickComes, Idle, TickTypeOK
  <2>5. LateBy'
    BY <1>1, <1>2, <2>1 DEF LateBy, TickTypeOK
  <2>6. Caught'
    <3>1. CASE Idle
      <4>1. due - Period <= lastUpdated + 2 * MaxOp + MaxAge - 2
        BY <2>1, <3>1 DEF NextTickComes, TickTypeOK
      <4> QED
        BY <1>1, <4>1 DEF Caught, InTime, TickTypeOK
    <3>2. CASE ~Idle
      BY <1>1, <3>2 DEF Caught, Idle
    <3> QED
      BY <3>1, <3>2
  <2> QED
    BY <1>3, <2>2, <2>3, <2>4, <2>5, <2>6
<1>5. CASE holder.is # "none"
  <2>1. holder # Free /\ clock - holder.since < MaxOp
    BY <1>5, FreeTyped DEF Settled
  <2>2. InTime'
    BY <1>1, <1>2, <2>1 DEF InTime, TickTypeOK
  <2>3. Turns'
    BY <1>1 DEF Turns
  <2>4. DecidedOn'
    BY <1>1, <1>2, <1>5 DEF DecidedOn, InTime, TickTypeOK
  <2>5. ~Idle'
    BY <1>1, <1>5 DEF Idle
  <2> QED
    BY <1>3, <2>2, <2>3, <2>4, <2>5 DEF NextTickComes, LateBy, Caught
<1> QED
  BY <1>4, <1>5

\* A reading that arrives is of the present.
LEMMA ReadingsInv ==
  ASSUME ClockInv, HubPolls \/ \E p \in Packs : Report(p)
  PROVE  ClockInv'
<1> USE TickAssumption DEF ClockInv, ticker, service, readings
<1>1. UNCHANGED <<clock, due, tick, taken, holder, session, appliedAt, lastUpdated>>
  BY DEF HubPolls, Report
<1>2. /\ observed' \in [at : Nat, good : BOOLEAN] /\ observed'.at <= clock
      /\ observed.at <= observed'.at
  BY DEF HubPolls, Report, TickTypeOK, InTime
<1>3. /\ heard' \in [Packs -> Nat]
      /\ \A p \in Packs : heard'[p] <= clock /\ heard[p] <= heard'[p]
  BY DEF HubPolls, Report, TickTypeOK, InTime
<1>4. TickTypeOK' /\ InTime' /\ Turns'
  BY <1>1, <1>2, <1>3 DEF TickTypeOK, InTime, Turns
<1>5. DecidedOn'
  <2>1. \A p \in Packs : heard[p] \in Nat /\ heard'[p] \in Nat
    BY <1>3 DEF TickTypeOK
  <2>2. observed.at \in Nat /\ observed'.at \in Nat /\ lastUpdated \in Nat /\ MaxAge \in Nat
    BY <1>2 DEF TickTypeOK
  <2>3. session = "running" \/ holder.is = "apply" =>
          lastUpdated - observed'.at <= MaxAge /\ \A p \in Packs : lastUpdated - heard'[p] <= MaxAge
    BY <1>2, <1>3, <2>1, <2>2 DEF DecidedOn
  <2> QED
    BY <1>1, <2>3 DEF DecidedOn
<1> QED
  BY <1>1, <1>4, <1>5 DEF NextTickComes, LateBy, Caught, Idle

\* The operations that neither decide nor write.
LEMMA QueueInv ==
  ASSUME ClockInv, Claim \/ Start \/ Stop \/ Recover \/ Restored
  PROVE  ClockInv'
<1> USE TickAssumption DEF ClockInv, ticker, service, readings
<1>1. UNCHANGED <<clock, due, tick, taken, appliedAt, lastUpdated, observed, heard>>
  BY DEF Claim, Start, Stop, Recover, Restored
<1>2. CASE Claim
  <2>1. /\ holder' \in Holders /\ holder'.is = holder.is /\ holder'.loop = holder.loop
        /\ holder'.since = holder.since /\ session' = session
    BY <1>2 DEF Claim, TickTypeOK, Holders
  <2>2. holder.is # "none"
    BY <1>2, FreeTyped DEF Claim, Turns
  <2>3. TickTypeOK'
    BY <1>1, <2>1 DEF TickTypeOK, Holders
  <2>4. InTime' /\ Turns'
    BY <1>1, <2>1, <2>2 DEF InTime, Turns
  <2>5. DecidedOn' /\ ~Idle'
    BY <1>1, <2>1, <2>2 DEF DecidedOn, Idle
  <2> QED
    BY <2>3, <2>4, <2>5 DEF NextTickComes, LateBy, Caught
<1>3. CASE Start \/ Stop \/ Recover \/ Restored
  <2>1. /\ holder' \in Holders /\ session' \in {"none", "pending"}
        /\ holder'.is \in {"none", "start", "restore"} /\ ~holder'.loop
        /\ holder'.is = "none" => holder' = Free
        /\ holder'.is # "none" => holder'.since = clock
    <3>1. clock \in Nat
      BY DEF TickTypeOK
    <3>2. CASE Start
      BY <3>1, <3>2, QueuedTyped DEF Start
    <3>3. CASE Stop
      BY <3>1, <3>3, QueuedTyped DEF Stop
    <3>4. CASE Recover
      BY <3>1, <3>4, QueuedTyped DEF Recover
    <3>5. CASE Restored
      BY <3>5, FreeTyped DEF Restored
    <3> QED
      BY <1>3, <3>2, <3>3, <3>4, <3>5
  <2>2. TickTypeOK'
    BY <1>1, <2>1 DEF TickTypeOK, Holders
  <2>3. InTime' /\ Turns'
    BY <1>1, <2>1 DEF InTime, Turns, TickTypeOK, Free
  <2>4. DecidedOn' /\ ~Idle'
    BY <1>1, <2>1 DEF DecidedOn, Idle
  <2> QED
    BY <2>2, <2>3, <2>4 DEF NextTickComes, LateBy, Caught
<1> QED
  BY <1>2, <1>3

LEMMA PreflightInv ==
  ASSUME ClockInv, Preflight
  PROVE  ClockInv'
<1> USE TickAssumption DEF ClockInv, Preflight, ticker, service, readings
<1>1. /\ UNCHANGED <<clock, due, tick, taken, session, appliedAt, observed, heard>>
      /\ session # "running" /\ holder.is = "start"
  BY DEF Turns
<1>2. CASE GatesPass(clock) /\ holder' = [holder EXCEPT !.is = "apply"] /\ lastUpdated' = clock
  <2>1. /\ holder' \in Holders /\ holder'.is = "apply" /\ holder'.loop = holder.loop
        /\ holder'.since = holder.since
    BY <1>2 DEF TickTypeOK, Holders
  <2>2. clock - observed.at <= MaxAge /\ \A p \in Packs : clock - heard[p] <= MaxAge
    BY <1>2, YoungIs DEF GatesPass, TickTypeOK
  <2>3. TickTypeOK'
    BY <1>1, <1>2, <2>1 DEF TickTypeOK, Holders
  <2>4. InTime' /\ Turns'
    BY <1>1, <1>2, <2>1 DEF InTime, Turns, TickTypeOK
  <2>5. DecidedOn' /\ ~Idle'
    BY <1>1, <1>2, <2>1, <2>2 DEF DecidedOn, Idle, InTime
  <2> QED
    BY <2>3, <2>4, <2>5 DEF NextTickComes, LateBy, Caught
<1>3. CASE holder' = Free /\ UNCHANGED lastUpdated
  <2>1. TickTypeOK' /\ InTime' /\ Turns'
    BY <1>1, <1>3, FreeTyped DEF TickTypeOK, InTime, Turns, Holders
  <2>2. DecidedOn' /\ ~Idle'
    BY <1>1, <1>3, FreeTyped DEF DecidedOn, Idle
  <2> QED
    BY <2>1, <2>2 DEF NextTickComes, LateBy, Caught
<1> QED
  BY <1>2, <1>3

\* The first profile of a session was decided on by the Preflight of the same Start.
LEMMA AppliedInv ==
  ASSUME ClockInv, Applied
  PROVE  ClockInv'
<1> USE TickAssumption DEF ClockInv, Applied, ticker, service, readings
<1>1. /\ UNCHANGED <<clock, due, tick, taken, lastUpdated, observed, heard>>
      /\ holder' = Free /\ holder'.is = "none" /\ ~holder'.loop /\ holder' \in Holders
      /\ session' \in {"none", "running", "pending"} /\ appliedAt' \in {appliedAt, clock}
      /\ session' = "running" => appliedAt' = clock
      /\ holder.is = "apply"
  BY FreeTyped
<1>2. clock <= lastUpdated + MaxOp /\ lastUpdated \in Nat /\ clock \in Nat
  <2>1. holder.since <= lastUpdated /\ clock <= holder.since + MaxOp /\ holder.since \in Nat
    BY <1>1 DEF DecidedOn, InTime, TickTypeOK
  <2> QED
    BY <2>1 DEF TickTypeOK
<1>3. TickTypeOK' /\ InTime' /\ Turns'
  BY <1>1 DEF TickTypeOK, InTime, Turns, Holders
<1>4. DecidedOn'
  BY <1>1, <1>2 DEF DecidedOn
<1>5. NextTickComes' /\ LateBy' /\ Caught'
  BY <1>1, <1>2 DEF NextTickComes, LateBy, Caught, InTime, TickTypeOK, Idle
<1> QED
  BY <1>3, <1>4, <1>5

\* The loop takes the tick that waits.
LEMMA TakeInv ==
  ASSUME ClockInv, Take
  PROVE  ClockInv'
<1> USE TickAssumption DEF ClockInv, Take, ticker, service, readings
<1>1. /\ UNCHANGED <<clock, due, holder, session, appliedAt, lastUpdated, observed, heard>>
      /\ taken = NoTick /\ ~holder.loop /\ tick \in Nat /\ tick' = NoTick
      /\ taken' \in {tick, NoTick}
      /\ session = "running" => taken' = tick
  BY DEF LoopBusy, TickTypeOK
<1>2. TickTypeOK' /\ InTime' /\ Turns' /\ DecidedOn'
  BY <1>1 DEF TickTypeOK, InTime, Turns, DecidedOn
<1>3. NextTickComes' /\ LateBy' /\ Caught'
  BY <1>1 DEF NextTickComes, LateBy, Caught, Idle, TickTypeOK
<1> QED
  BY <1>2, <1>3

\* A tick that is not decided on.
LEMMA WaitsInv ==
  ASSUME ClockInv, TickWaits \/ TickOfNoSession
  PROVE  ClockInv'
<1> USE TickAssumption DEF ClockInv, TickWaits, TickOfNoSession, Decides, ticker, service, readings
<1>1. /\ UNCHANGED <<clock, due, tick, holder, session, appliedAt, lastUpdated, observed, heard>>
      /\ taken' = NoTick /\ taken \in Nat
  BY DEF TickTypeOK
<1>2. TickTypeOK' /\ InTime' /\ Turns' /\ DecidedOn'
  BY <1>1 DEF TickTypeOK, InTime, Turns, DecidedOn
<1>3. Caught' /\ LateBy'
  BY <1>1 DEF Caught, LateBy, Idle
<1>4. NextTickComes'
  <2>1. CASE session # "running"
    BY <1>1, <2>1 DEF NextTickComes, Idle
  <2>2. CASE TickWaits /\ session = "running"
    <3>1. taken < appliedAt + MaxAge /\ appliedAt <= lastUpdated + 2 * MaxOp - 1
      BY <1>1, <2>2 DEF Expired, DecidedOn, TickTypeOK
    <3>2. taken <= lastUpdated + 2 * MaxOp + MaxAge - 2
      BY <1>1, <3>1 DEF TickTypeOK
    <3> QED
      BY <1>1, <3>2 DEF NextTickComes, Idle, TickTypeOK
  <2> QED
    BY <2>1, <2>2
<1> QED
  BY <1>2, <1>3, <1>4

\* A session that a Tick or a write ends.
LEMMA FaultInv ==
  ASSUME ClockInv,
         holder' = Queued("restore", TRUE), session' = "pending", taken' = NoTick,
         UNCHANGED <<clock, due, tick, appliedAt, lastUpdated, observed, heard>>
  PROVE  ClockInv'
<1> USE TickAssumption DEF ClockInv
<1>1. /\ holder' \in Holders /\ holder'.is = "restore" /\ holder'.since = clock
      /\ clock \in Nat
  BY QueuedTyped DEF TickTypeOK
<1>2. TickTypeOK'
  BY <1>1 DEF TickTypeOK, Holders
<1>3. InTime'
  <2>1. holder'.since <= clock /\ clock <= holder'.since + MaxOp
    BY <1>1, BeginsInTime
  <2> QED
    BY <2>1 DEF InTime
<1>4. Turns'
  BY <1>1 DEF Turns
<1>5. DecidedOn' /\ ~Idle'
  BY <1>1 DEF DecidedOn, Idle
<1> QED
  BY <1>2, <1>3, <1>4, <1>5 DEF NextTickComes, LateBy, Caught

\* A tick that is decided on is not late, and its readings are young.
LEMMA AcceptsInv ==
  ASSUME ClockInv, TickAccepts
  PROVE  ClockInv'
<1> USE TickAssumption DEF ClockInv, TickAccepts, Decides, ticker, service, readings
<1>1. /\ UNCHANGED <<clock, due, tick, session, appliedAt, observed, heard>>
      /\ taken \in Nat /\ taken' = NoTick /\ lastUpdated' = taken /\ clock \in Nat
      /\ session = "running" /\ holder = Free
  BY DEF TickTypeOK
<1>2. /\ holder' \in Holders /\ holder'.is = "check" /\ holder'.loop /\ holder'.since = clock
      /\ holder' # Free
  BY <1>1, QueuedTyped
<1>3. Idle /\ appliedAt < clock
  BY <1>1, FreeTyped DEF Idle, Observed, InTime, TickTypeOK
<1>4. tick = NoTick /\ clock - taken <= MaxOp - 1
  BY <1>1, <1>3 DEF LateBy
<1>5. /\ lastUpdated <= taken
      /\ taken - observed.at <= MaxAge /\ \A p \in Packs : taken - heard[p] <= MaxAge
  BY <1>1, YoungIs DEF Refused, GatesPass, TickTypeOK
<1>6. TickTypeOK' /\ Turns'
  BY <1>1, <1>2 DEF TickTypeOK, Turns, Holders
<1>7. InTime'
  <2>1. taken <= clock
    BY <1>1 DEF InTime
  <2>2. due - Period <= clock /\ clock < due /\ observed.at <= clock
        /\ \A p \in Packs : heard[p] <= clock
    BY DEF InTime
  <2>3. holder'.since <= clock /\ clock <= holder'.since + MaxOp
    BY <1>1, <1>2, BeginsInTime
  <2> QED
    BY <1>1, <1>4, <2>1, <2>2, <2>3 DEF InTime
<1>8. DecidedOn' /\ ~Idle'
  <2>1. appliedAt <= taken + 2 * MaxOp - 1
    BY <1>1, <1>5 DEF DecidedOn, TickTypeOK
  <2>2. clock <= taken + MaxOp - 1
    BY <1>1, <1>4
  <2> QED
    BY <1>1, <1>2, <1>4, <1>5, <2>1, <2>2 DEF DecidedOn, Idle
<1> QED
  BY <1>6, <1>7, <1>8 DEF NextTickComes, LateBy, Caught

\* The tick loop holds opMu until it has checked the registers and written a stage.
LEMMA LoopInv ==
  ASSUME ClockInv, Checked \/ StageWritten
  PROVE  ClockInv'
<1> USE TickAssumption DEF ClockInv, ticker, service, readings
<1>1. /\ UNCHANGED <<clock, due, tick, taken, lastUpdated, observed, heard>>
      /\ holder.is \in {"check", "stage"} /\ holder.loop /\ taken = NoTick
      /\ holder \in Holders /\ holder # Free
  BY FreeTyped DEF Checked, StageWritten, Turns, TickTypeOK, Holders
<1>2. /\ clock <= holder.since + MaxOp /\ holder.since <= lastUpdated + MaxOp - 1
      /\ clock \in Nat /\ holder.since \in Nat /\ lastUpdated \in Nat
  BY <1>1, FreeTyped DEF InTime, DecidedOn, TickTypeOK, Holders
<1>3. CASE holder' = Queued("restore", TRUE) /\ session' = "pending"
  <2>1. UNCHANGED appliedAt
    BY <1>3, QueuedTyped, <1>2, FreeTyped DEF Checked, StageWritten
  <2> QED
    BY <1>1, <1>3, <2>1, FaultInv
<1>4. CASE holder' = [holder EXCEPT !.is = "stage", !.busy = FALSE]
      /\ UNCHANGED <<session, appliedAt>>
  <2>1. /\ holder' \in Holders /\ holder'.is = "stage" /\ holder'.loop
        /\ holder'.since = holder.since
    BY <1>1, <1>4 DEF Holders
  <2>2. TickTypeOK' /\ InTime' /\ Turns'
    BY <1>1, <1>4, <2>1 DEF TickTypeOK, InTime, Turns, Holders
  <2>3. DecidedOn' /\ ~Idle'
    BY <1>1, <1>4, <2>1 DEF DecidedOn, Idle
  <2> QED
    BY <2>2, <2>3 DEF NextTickComes, LateBy, Caught
<1>5. CASE holder' = Free /\ UNCHANGED session /\ appliedAt' \in {appliedAt, clock}
  <2>1. TickTypeOK' /\ InTime' /\ Turns'
    BY <1>1, <1>5, FreeTyped DEF TickTypeOK, InTime, Turns, Holders
  <2>2. clock <= lastUpdated + 2 * MaxOp - 1
    BY <1>2
  <2>3. DecidedOn'
    BY <1>1, <1>2, <1>5, <2>2, FreeTyped DEF DecidedOn, TickTypeOK
  <2>4. NextTickComes' /\ Caught'
    BY <1>1, <1>2, <1>5, <2>2, FreeTyped DEF NextTickComes, Caught, InTime, TickTypeOK
  <2>5. LateBy'
    <3>1. tick # NoTick => tick \in Nat /\ tick > holder.since
      BY <1>1 DEF DecidedOn, TickTypeOK
    <3> QED
      BY <1>1, <1>2, <3>1 DEF LateBy
  <2> QED
    BY <2>1, <2>3, <2>4, <2>5
<1> QED
  BY <1>3, <1>4, <1>5 DEF Checked, StageWritten

-----------------------------------------------------------------------------
LEMMA ClockInvInductive == ClockInv /\ [TickNext]_tickVars => ClockInv'
<1> SUFFICES ASSUME ClockInv, [TickNext]_tickVars PROVE ClockInv'
  OBVIOUS
<1>1. CASE Advance
  BY <1>1, AdvanceInv
<1>2. CASE HubPolls \/ \E p \in Packs : Report(p)
  BY <1>2, ReadingsInv
<1>3. CASE Claim \/ Start \/ Stop \/ Recover \/ Restored
  BY <1>3, QueueInv
<1>4. CASE Preflight
  BY <1>4, PreflightInv
<1>5. CASE Applied
  BY <1>5, AppliedInv
<1>6. CASE Take
  BY <1>6, TakeInv
<1>7. CASE TickWaits \/ TickOfNoSession
  BY <1>7, WaitsInv
<1>8. CASE TickFaults
  BY <1>8, FaultInv DEF TickFaults, Decides, ticker, readings
<1>9. CASE TickAccepts
  BY <1>9, AcceptsInv
<1>10. CASE Checked \/ StageWritten
  BY <1>10, LoopInv
<1>11. CASE UNCHANGED tickVars
  BY <1>11 DEF tickVars, ticker, service, readings, ClockInv, TickTypeOK, InTime, Turns,
              DecidedOn, NextTickComes, LateBy, Caught, Idle, Free
<1> QED
  BY <1>1, <1>2, <1>3, <1>4, <1>5, <1>6, <1>7, <1>8, <1>9, <1>10, <1>11 DEF TickNext

\* The operations are queued, decided and written in turn.
LEMMA ClockInvariant == TickSpec => []ClockInv
  BY ClockInitInv, ClockInvInductive, PTL DEF TickSpec

\* In any of these states no reading of a running session is older than Notice.
LEMMA InvNotices == ClockInv => SilenceNoticed
<1> SUFFICES ASSUME ClockInv, session = "running"
             PROVE  clock - observed.at <= Notice /\ \A p \in Packs : clock - heard[p] <= Notice
  BY DEF SilenceNoticed
<1> USE TickAssumption DEF ClockInv
<1>1. /\ lastUpdated - observed.at <= MaxAge /\ \A p \in Packs : lastUpdated - heard[p] <= MaxAge
      /\ clock \in Nat /\ lastUpdated \in Nat /\ observed.at \in Nat
      /\ \A p \in Packs : heard[p] \in Nat
  BY DEF DecidedOn, TickTypeOK
<1>2. clock <= lastUpdated + 2 * MaxOp + MaxAge + Period - 2
  <2>1. CASE holder.is = "none"
    BY <2>1 DEF Caught, Idle
  <2>2. CASE holder.is # "none"
    <3>1. /\ clock <= holder.since + MaxOp /\ holder.since <= lastUpdated + MaxOp - 1
          /\ holder.since \in Nat
      BY <2>2 DEF Turns, InTime, DecidedOn, TickTypeOK
    <3> QED
      BY <1>1, <3>1
  <2> QED
    BY <2>1, <2>2
<1> QED
  BY <1>1, <1>2 DEF Notice

\* Every variable of the clock stays in its type.
THEOREM TickTypeCorrect == TickSpec => []TickTypeOK
  BY ClockInvariant, PTL DEF ClockInv

\* However slow the inverters and however many ticks are lost, a session does not outlive
\* the silence of a pack or of the hub by more than Notice (conditioning.go:185-255).
THEOREM TickNoticesSilence == TickSpec => []SilenceNoticed
  BY ClockInvariant, InvNotices, PTL
=============================================================================
