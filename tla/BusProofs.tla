----------------------------- MODULE BusProofs ------------------------------
(***************************************************************************)
(* The BMS bus, for any addresses, intervals and retries and any bytes:    *)
(* the monitor's queue of settings tasks and its one request at a time     *)
(* (PackMonitor), and the frames out of the serial stream (StreamDecoder). *)
(* The two share nothing; what TasksFor, FramesIn and Drained compute is   *)
(* found by the induction of module Induction.                             *)
(***************************************************************************)
EXTENDS PackMonitor, StreamDecoder, FiniteSetTheorems, SequenceTheorems, Induction

\* Task k of the addresses a: two of each, its blocks in their order.
TaskAt(a, k) == [pack |-> a[(k + 1) \div 2], block |-> Blocks[IF k % 2 = 1 THEN 1 ELSE 2]]

\* TasksFor, which joins the tasks of the addresses, is TaskAt at every place.
LEMMA TasksOfAddresses ==
  ASSUME NEW S, NEW a \in Seq(S)
  PROVE  TasksFor(a) = [k \in 1 .. 2 * Len(a) |-> TaskAt(a, k)]
<1> DEFINE pairs == [i \in DOMAIN a |->
                      [j \in DOMAIN Blocks |-> [pack |-> a[i], block |-> Blocks[j]]]]
           L == Len(a)
           T == [pack : S, block : {"balance", "protection"}]
           g == [n \in 1 .. L |-> [k \in 1 .. 2 * n |-> TaskAt(a, k)]]
           Solves(f) == f = [n \in 1 .. L |-> IF n = 1 THEN pairs[n] ELSE f[n - 1] \o pairs[n]]
<1>1. L \in Nat /\ DOMAIN a = 1 .. L /\ Len(pairs) = L
  BY LenProperties
<1>2. DOMAIN Blocks = {1, 2}
  BY DEF Blocks
<1>3. \A n \in 1 .. L : pairs[n] = <<TaskAt(a, 2 * n - 1), TaskAt(a, 2 * n)>>
  <2> TAKE n \in 1 .. L
  <2>1. pairs[n] = [j \in {1, 2} |-> [pack |-> a[n], block |-> Blocks[j]]]
    BY <1>1, <1>2
  <2>2. (2 * n - 1) % 2 = 1 /\ (2 * n) % 2 = 0 /\ (2 * n - 1 + 1) \div 2 = n
        /\ (2 * n + 1) \div 2 = n
    BY <1>1
  <2>3. TaskAt(a, 2 * n - 1) = [pack |-> a[n], block |-> Blocks[1]]
    BY <2>2 DEF TaskAt
  <2>4. TaskAt(a, 2 * n) = [pack |-> a[n], block |-> Blocks[2]]
    BY <2>2 DEF TaskAt
  <2> QED  BY <2>1, <2>3, <2>4
<1>4. Solves(g)
  <2> SUFFICES ASSUME NEW n \in 1 .. L
               PROVE  g[n] = IF n = 1 THEN pairs[n] ELSE g[n - 1] \o pairs[n]
    OBVIOUS
  <2> DEFINE V == {TaskAt(a, k) : k \in Nat}
             q == <<TaskAt(a, 2 * n - 1), TaskAt(a, 2 * n)>>
  <2>1. pairs[n] = q /\ n \in Nat \ {0}
    BY <1>1, <1>3
  <2> HIDE DEF pairs
  <2>2. q \in Seq(V) /\ Len(q) = 2 /\ q[1] = TaskAt(a, 2 * n - 1) /\ q[2] = TaskAt(a, 2 * n)
    <3>1. TaskAt(a, 2 * n - 1) \in V /\ TaskAt(a, 2 * n) \in V
      BY <2>1
    <3> HIDE DEF V
    <3> QED  BY <3>1
  <2>3. \A m \in Nat : LET s == [k \in 1 .. 2 * m |-> TaskAt(a, k)]
                      IN  s \in Seq(V) /\ Len(s) = 2 * m
                          /\ \A k \in 1 .. 2 * m : s[k] = TaskAt(a, k)
    <3>1. \A k \in Nat : TaskAt(a, k) \in V
      OBVIOUS
    <3> HIDE DEF V
    <3> QED  BY <3>1
  <2>4. g[n] = [k \in 1 .. 2 * n |-> TaskAt(a, k)]
    OBVIOUS
  <2> HIDE DEF V
  <2>5. CASE n = 1
    <3>1. Len(g[n]) = 2 /\ g[n] \in Seq(V) /\ \A k \in 1 .. 2 : g[n][k] = TaskAt(a, k)
      BY <2>3, <2>4, <2>5
    <3>2. \A k \in 1 .. 2 : q[k] = TaskAt(a, k)
      BY <2>2, <2>5
    <3>3. g[n] = q
      <4> HIDE DEF g, q
      <4> QED  BY SMTT(30), <2>2, <3>1, <3>2, SeqEqual
    <3> QED  BY <2>1, <2>5, <3>3
  <2>6. CASE n # 1
    <3> DEFINE p == [k \in 1 .. 2 * (n - 1) |-> TaskAt(a, k)]
    <3>1. g[n - 1] = p
      BY <1>1, <2>6
    <3>2. p \in Seq(V) /\ Len(p) = 2 * (n - 1) /\ \A k \in 1 .. 2 * (n - 1) : p[k] = TaskAt(a, k)
      BY <2>1, <2>3
    <3>3. Len(g[n]) = 2 * n /\ g[n] \in Seq(V) /\ \A k \in 1 .. 2 * n : g[n][k] = TaskAt(a, k)
      BY <2>1, <2>3, <2>4
    <3> HIDE DEF p, q, g
    <3>4. /\ p \o q \in Seq(V) /\ Len(p \o q) = Len(p) + Len(q)
          /\ \A k \in 1 .. Len(p) + Len(q) :
               (p \o q)[k] = IF k <= Len(p) THEN p[k] ELSE q[k - Len(p)]
      BY <2>2, <3>2, ConcatProperties
    <3>5. Len(p) + Len(q) = 2 * n
      BY <2>1, <2>2, <3>2
    <3>6. \A k \in 1 .. 2 * n : (p \o q)[k] = TaskAt(a, k)
      <4> TAKE k \in 1 .. 2 * n
      <4>1. CASE k <= 2 * (n - 1)
        BY <2>1, <3>2, <3>4, <3>5, <4>1
      <4>2. CASE ~ (k <= 2 * (n - 1))
        <5>1. k - Len(p) \in {1, 2} /\ (k - Len(p) = 1 => k = 2 * n - 1)
              /\ (k - Len(p) = 2 => k = 2 * n)
          BY <2>1, <3>2, <4>2
        <5>2. (p \o q)[k] = q[k - Len(p)]
          BY <2>1, <3>2, <3>4, <3>5, <4>2
        <5> QED  BY <2>2, <5>1, <5>2
      <4> QED  BY <4>1, <4>2
    <3>7. g[n] = p \o q
      <4>1. Len(g[n]) = Len(p \o q) /\ \A k \in 1 .. Len(g[n]) : g[n][k] = (p \o q)[k]
        BY <2>1, <3>3, <3>4, <3>5, <3>6
      <4> QED  BY <3>3, <3>4, <4>1, SeqEqual
    <3> QED  BY <2>1, <2>6, <3>1, <3>7
  <2> QED  BY <2>5, <2>6
<1> DEFINE h == CHOOSE f : Solves(f)
<1>5. Solves(h)
  BY <1>4
<1>6. \A n \in 1 .. L : h[n] = g[n]
  <2> DEFINE Bad == {n \in 1 .. L : h[n] # g[n]}
  <2>1. SUFFICES ASSUME Bad # {}  PROVE FALSE
    OBVIOUS
  <2>2. Bad \subseteq Nat
    BY <1>1
  <2>3. PICK n \in Bad : \A m \in Bad : n <= m
    <3> HIDE DEF Bad
    <3> QED  BY <2>1, <2>2, LeastNatural
  <2> HIDE DEF g, h, pairs
  <2>4. /\ h = [m \in 1 .. L |-> IF m = 1 THEN pairs[m] ELSE h[m - 1] \o pairs[m]]
        /\ g = [m \in 1 .. L |-> IF m = 1 THEN pairs[m] ELSE g[m - 1] \o pairs[m]]
    BY <1>4, <1>5
  <2>5. /\ h[n] = IF n = 1 THEN pairs[n] ELSE h[n - 1] \o pairs[n]
        /\ g[n] = IF n = 1 THEN pairs[n] ELSE g[n - 1] \o pairs[n]
    BY <2>4
  <2>6. CASE n = 1
    BY <2>3, <2>6, <2>5
  <2>7. CASE n # 1
    <3>1. n - 1 \in 1 .. L /\ n - 1 \notin Bad
      BY <1>1, <2>3, <2>7
    <3> QED  BY <2>3, <2>7, <2>5, <3>1
  <2> QED  BY <2>6, <2>7
<1>7. CASE L = 0
  BY <1>1, <1>7 DEF TasksFor, FlattenSeq
<1>8. CASE L # 0
  <2>1. TasksFor(a) = h[L]
    BY <1>1, <1>8 DEF TasksFor, FlattenSeq
  <2>2. h[L] = g[L]
    <3> HIDE DEF h, g
    <3> QED  BY <1>1, <1>6, <1>8
  <2>3. g[L] = [k \in 1 .. 2 * L |-> TaskAt(a, k)]
    BY <1>1, <1>8
  <2> QED  BY <2>1, <2>2, <2>3
<1> QED  BY <1>7, <1>8

\* Addresses that are not repeated give tasks that are not repeated.
LEMMA TasksOnce ==
  ASSUME NEW a \in Seq(Packs), IsInjective(a)
  PROVE  /\ TasksFor(a) \in Seq(Tasks) /\ IsInjective(TasksFor(a))
         /\ \A i \in DOMAIN TasksFor(a) : TasksFor(a)[i].pack \in ToSet(a)
<1> DEFINE q == TasksFor(a)
<1>1. q = [k \in 1 .. 2 * Len(a) |-> TaskAt(a, k)]
  BY TasksOfAddresses
<1>2. Len(a) \in Nat /\ DOMAIN a = 1 .. Len(a) /\ \A i \in 1 .. Len(a) : a[i] \in Packs
      /\ a[i] \in ToSet(a)
  BY LenProperties, ElementOfSeq DEF ToSet
<1>3. \A k \in 1 .. 2 * Len(a) : (k + 1) \div 2 \in 1 .. Len(a)
  BY <1>2
<1>4. \A k \in 1 .. 2 * Len(a) : TaskAt(a, k) \in Tasks /\ TaskAt(a, k).pack \in ToSet(a)
  <2> TAKE k \in 1 .. 2 * Len(a)
  <2>1. ToSet(Blocks) = {"balance", "protection"} /\ Blocks[1] = "balance"
        /\ Blocks[2] = "protection"
    BY DEF ToSet, Blocks
  <2>2. Blocks[IF k % 2 = 1 THEN 1 ELSE 2] \in ToSet(Blocks)
    BY <2>1
  <2> QED  BY <1>2, <1>3, <2>2 DEF TaskAt, Tasks
<1>5. \A j, k \in 1 .. 2 * Len(a) : TaskAt(a, j) = TaskAt(a, k) => j = k
  <2> SUFFICES ASSUME NEW j \in 1 .. 2 * Len(a),
                      NEW k \in 1 .. 2 * Len(a), TaskAt(a, j) = TaskAt(a, k)
               PROVE  j = k
    OBVIOUS
  <2>1. a[(j + 1) \div 2] = a[(k + 1) \div 2]
    BY DEF TaskAt
  <2>2. (j + 1) \div 2 = (k + 1) \div 2
    BY <1>2, <1>3, <2>1 DEF IsInjective
  <2>3. j % 2 = 1 <=> k % 2 = 1
    BY DEF TaskAt, Blocks
  <2> QED  BY <1>2, <2>2, <2>3
<1>6. q \in Seq(Tasks) /\ DOMAIN q = 1 .. 2 * Len(a)
  <2> HIDE DEF q
  <2> QED  BY <1>1, <1>2, <1>4
<1> QED  BY <1>1, <1>4, <1>5, <1>6 DEF IsInjective

-----------------------------------------------------------------------------
\* No task is queued twice, and the task that is under way is at the head of the queue
\* (takeSettingsTask leaves it there until it is done).
QueueInv ==
  /\ MonitorTypeOK
  /\ IsInjective(queue)
  /\ \A i \in DOMAIN queue : queue[i].pack \in ToSet(Candidates) \cup observed
  /\ probeState \in {"settingsTx", "settingsWait"} => queue # <<>> /\ task = Head(queue)

\* The candidates' tasks, with which a connection begins.
LEMMA CandidatesOnce ==
  /\ Candidates \in Seq(Packs) /\ TasksFor(Candidates) \in Seq(Tasks)
     /\ IsInjective(TasksFor(Candidates))
  /\ \A i \in DOMAIN TasksFor(Candidates) : TasksFor(Candidates)[i].pack \in ToSet(Candidates)
<1>1. Candidates \in Seq(Packs)
  BY AddressAssumption DEF Packs, ToSet
<1> QED  BY <1>1, TasksOnce, AddressAssumption

\* There are finitely many addresses.
LEMMA PacksFinite == IsFiniteSet(Packs)
<1>1. IsFiniteSet(ToSet(Candidates))
  <2>1. Candidates \in Surjection(DOMAIN Candidates, ToSet(Candidates))
    BY AddressAssumption DEF Surjection, ToSet
  <2>2. IsFiniteSet(DOMAIN Candidates)
    BY AddressAssumption, LenProperties, FS_Interval
  <2> QED  BY <2>1, <2>2, FS_Surjection
<1> QED  BY <1>1, AddressAssumption, FS_Union DEF Packs

\* The candidates and then the other addresses heard, in any order: none twice.
LEMMA AllOnce ==
  ASSUME MonitorTypeOK, NEW others \in SetToSeqs(observed \ ToSet(Candidates))
  PROVE  LET all == Candidates \o others
         IN  all \in Seq(Packs) /\ IsInjective(all)
             /\ ToSet(all) \subseteq ToSet(Candidates) \cup observed
<1> DEFINE S == observed \ ToSet(Candidates)
           n == Cardinality(S)
<1>1. n \in Nat
  <2>1. IsFiniteSet(S)
    BY PacksFinite, FS_Subset DEF MonitorTypeOK
  <2> QED  BY <2>1, FS_CardinalityType
<1>2. others \in [1 .. n -> S] /\ \A i, j \in 1 .. n : i # j => others[i] # others[j]
  BY DEF SetToSeqs
<1>3. Len(others) = n /\ others \in Seq(Packs) /\ \A i \in 1 .. n : others[i] \in S
  <2>1. S \subseteq Packs
    BY DEF MonitorTypeOK
  <2> HIDE DEF S, n
  <2> QED  BY <1>1, <1>2, <2>1
<1>4. Candidates \in Seq(Packs) /\ Len(Candidates) \in Nat
      /\ DOMAIN Candidates = 1 .. Len(Candidates)
      /\ \A i \in 1 .. Len(Candidates) : Candidates[i] \in ToSet(Candidates)
  BY CandidatesOnce, LenProperties DEF ToSet
<1> DEFINE all == Candidates \o others
<1>5. /\ all \in Seq(Packs) /\ Len(all) = Len(Candidates) + Len(others)
      /\ \A i \in 1 .. Len(Candidates) + Len(others) :
           all[i] = IF i <= Len(Candidates) THEN Candidates[i] ELSE others[i - Len(Candidates)]
  BY <1>3, <1>4, ConcatProperties
<1> HIDE DEF all, n
<1>6. DOMAIN all = 1 .. Len(Candidates) + n
  BY <1>3, <1>5, LenProperties
<1>7. IsInjective(all)
  <2> SUFFICES ASSUME NEW i \in 1 .. Len(Candidates) + n,
                      NEW j \in 1 .. Len(Candidates) + n, all[i] = all[j]
               PROVE  i = j
    BY <1>6 DEF IsInjective
  <2>1. CASE i <= Len(Candidates) /\ j <= Len(Candidates)
    <3>1. Candidates[i] = Candidates[j]
      BY <1>3, <1>4, <1>5, <2>1
    <3>2. \A k, l \in DOMAIN Candidates : Candidates[k] = Candidates[l] => k = l
      BY AddressAssumption DEF IsInjective
    <3> QED  BY <1>3, <1>4, <2>1, <3>1, <3>2
  <2>2. CASE ~ (i <= Len(Candidates)) /\ ~ (j <= Len(Candidates))
    <3>1. i - Len(Candidates) \in 1 .. n /\ j - Len(Candidates) \in 1 .. n
      BY <1>1, <1>4, <2>2
    <3>2. others[i - Len(Candidates)] = others[j - Len(Candidates)]
      BY <1>3, <1>5, <2>2
    <3>3. i - Len(Candidates) = j - Len(Candidates)
      BY <1>2, <3>1, <3>2
    <3> QED  BY <1>1, <1>4, <3>3
  <2>3. CASE i <= Len(Candidates) /\ ~ (j <= Len(Candidates))
    BY <1>1, <1>3, <1>4, <1>5, <2>3
  <2>4. CASE ~ (i <= Len(Candidates)) /\ j <= Len(Candidates)
    BY SMTT(30), <1>1, <1>3, <1>4, <1>5, <2>4
  <2> QED  BY <2>1, <2>2, <2>3, <2>4
<1>8. ToSet(all) \subseteq ToSet(Candidates) \cup observed
  <2> SUFFICES ASSUME NEW i \in 1 .. Len(Candidates) + n
               PROVE  all[i] \in ToSet(Candidates) \cup observed
    BY <1>6 DEF ToSet
  <2>1. CASE i <= Len(Candidates)
    BY <1>3, <1>4, <1>5, <2>1
  <2>2. CASE ~ (i <= Len(Candidates))
    <3>1. i - Len(Candidates) \in 1 .. n
      BY <1>1, <1>4, <2>2
    <3> QED  BY <1>3, <1>4, <1>5, <2>2, <3>1
  <2> QED  BY <2>1, <2>2
<1> QED  BY <1>5, <1>7, <1>8 DEF all

-----------------------------------------------------------------------------
\* A request is open only while its answer is awaited and its time is not up, and the
\* number of tries is that of the retries and the one under way.
RequestInv ==
  /\ open => /\ waited < ProbeTimeout
             /\ \E k \in {"one", "zero", "settings"} : probeState = Awaited(k) /\ ~replied[k]
  /\ probeState = "one" => ~replied["one"]
  /\ probeState = "zero" => ~replied["zero"]
  /\ probeState = "settingsTx" => ~replied["settings"]
  /\ sent = "one" => probeState \in {"awaitOne", "gap", "zero", "closed"}
  /\ probeState = "settingsTx" => tries = retries.settings
  /\ probeState = "settingsWait" => tries = retries.settings + 1

\* The inductive invariant of the monitor.
MonitorInv == QueueInv /\ RequestInv

\* The assumption on the constants, in parts.
LEMMA Bounds ==
  /\ ProbeTimeout \in Nat \ {0} /\ ProbeGap \in Nat \ {0}
  /\ PollInterval \in Nat \ {0} /\ SettingsInterval \in Nat \ {0}
  /\ InitialQuiet \in Nat /\ InitialSettings \in Nat
  /\ MaxProbeRetry \in Nat /\ MaxSettingsRetry \in Nat /\ MaxDisconnects \in Nat
BY MonitorAssumption

\* It holds at the first connection.
LEMMA MonitorTypesInit ==
  ASSUME MonitorInit
  PROVE  MonitorInv
<1>1. MonitorTypeOK
  <2>1. /\ probeState = "idle" /\ turn = "refill" /\ telemetryDue = InitialQuiet
        /\ settingsDue = InitialSettings /\ queue = TasksFor(Candidates)
    BY DEF MonitorInit, Opened
  <2>2. queue \in Seq(Tasks)
    BY <2>1, CandidatesOnce
  <2>3. /\ gap \in 0 .. ProbeGap /\ waited \in 0 .. ProbeTimeout
           /\ disconnects \in 0 .. MaxDisconnects
        /\ tries \in 0 .. MaxSettingsRetry + 1
        /\ retries \in [zero : 0 .. MaxProbeRetry, settings : 0 .. MaxSettingsRetry]
    BY Bounds DEF MonitorInit
  <2> QED  BY <2>1, <2>2, <2>3, Bounds DEF MonitorInit, MonitorTypeOK, States
<1>2. QueueInv
  BY <1>1, CandidatesOnce DEF MonitorInit, QueueInv, Opened
<1>3. RequestInv
  BY DEF MonitorInit, RequestInv, Opened
<1> QED  BY <1>2, <1>3 DEF MonitorInv

\* Time passes within the bounds of the timers.
LEMMA Elapsed ==
  ASSUME MonitorTypeOK, NEW d \in 0 .. 1, Elapse(d)
  PROVE  /\ telemetryDue' \in Nat /\ settingsDue' \in Nat /\ gap' \in 0 .. ProbeGap
         /\ waited' \in 0 .. ProbeTimeout
<1>1. \A n \in Nat : Down(n, d) \in Nat /\ Down(n, d) <= n
  BY DEF Down
<1>2. \A n \in 0 .. ProbeGap : Down(n, d) \in 0 .. ProbeGap
  BY Bounds DEF Down
<1>3. waited \in Nat /\ waited + d \in Nat
  BY DEF MonitorTypeOK
<1>4. waited' \in 0 .. ProbeTimeout
  BY <1>3, Bounds DEF Elapse
<1> QED  BY <1>1, <1>2, <1>4 DEF MonitorTypeOK, Elapse

\* What a read may change of the probe: its timers, and the answer it waits for.
ReadStep ==
  /\ turn = "read" /\ probeState # "closed"
  /\ turn' = "refill"
  /\ telemetryDue' \in Nat /\ settingsDue' \in Nat /\ gap' \in 0 .. ProbeGap
  /\ waited' \in 0 .. ProbeTimeout
  /\ quiet' \in BOOLEAN
  /\ replied' \in [{"one", "zero", "settings"} -> BOOLEAN]
  /\ \A k \in {"one", "zero", "settings"} : replied'[k] = replied[k] \/ probeState = Awaited(k)
  /\ open' => open /\ waited' < ProbeTimeout /\ replied' = replied
  /\ open' \in BOOLEAN
  /\ UNCHANGED <<probeState, polled, retries, task, disconnects, sent, tries>>

\* A read that answers nothing but what is awaited is such a step.
LEMMA ReadSomeStep ==
  ASSUME MonitorTypeOK, NEW d \in 0 .. 1, NEW answered, ReadSome(d, answered),
         \A k \in answered : k \in {"one", "zero", "settings"} /\ probeState = Awaited(k)
  PROVE  ReadStep
<1>1. /\ telemetryDue' \in Nat /\ settingsDue' \in Nat /\ gap' \in 0 .. ProbeGap
      /\ waited' \in 0 .. ProbeTimeout
  BY Elapsed DEF ReadSome
<1>2. DOMAIN replied = {"one", "zero", "settings"}
      /\ \A k \in {"one", "zero", "settings"} : replied[k] \in BOOLEAN
  BY DEF MonitorTypeOK
<1>3. /\ replied' \in [{"one", "zero", "settings"} -> BOOLEAN]
      /\ \A k \in {"one", "zero", "settings"} : replied'[k] = replied[k] \/ probeState = Awaited(k)
  BY <1>2 DEF ReadSome
<1>4. answered = {} => replied' = replied
  BY <1>2 DEF ReadSome, MonitorTypeOK
<1> QED  BY <1>1, <1>3, <1>4 DEF ReadSome, Reading, ReadStep, MonitorTypeOK

\* A read puts at most the tasks of an address not heard before at the end.
QueueKept ==
  \/ queue' = queue /\ observed \subseteq observed' /\ observed' \subseteq Packs
  \/ \E p \in Packs : /\ p \notin observed /\ p \notin ToSet(Candidates)
                      /\ observed' = observed \cup {p}
                      /\ queue' = queue \o TasksFor(<<p>>)

\* Each kind of read is both.
LEMMA ReadSteps ==
  ASSUME MonitorTypeOK, Read
  PROVE  ReadStep /\ QueueKept
<1>1. CASE ReadNothing
  <2>1. /\ telemetryDue' \in Nat /\ settingsDue' \in Nat /\ gap' \in 0 .. ProbeGap
        /\ waited' \in 0 .. ProbeTimeout
    BY <1>1, Elapsed DEF ReadNothing
  <2> QED  BY <1>1, <2>1 DEF ReadNothing, Reading, ReadStep, QueueKept, MonitorTypeOK, tasks
<1>2. CASE ReadNoise
  BY <1>2, ReadSomeStep DEF ReadNoise, QueueKept, MonitorTypeOK
<1>3. ASSUME NEW p \in Packs, HearTelemetry(p)  PROVE ReadStep /\ QueueKept
  <2>1. PICK d \in 0 .. 1 :
          ReadSome(d, {k \in {"one", "zero"} :
                         probeState = Awaited(k) /\ p = (IF k = "one" THEN 1 ELSE 0)})
    BY <1>3 DEF HearTelemetry
  <2>2. ReadStep
    <3> DEFINE answered == {k \in {"one", "zero"} :
                             probeState = Awaited(k) /\ p = (IF k = "one" THEN 1 ELSE 0)}
    <3>1. \A k \in answered : k \in {"one", "zero", "settings"} /\ probeState = Awaited(k)
      OBVIOUS
    <3> HIDE DEF answered
    <3>2. ReadSome(d, answered)
      BY <2>1 DEF answered
    <3> QED  BY <3>1, <3>2, ReadSomeStep
  <2> QED  BY <1>3, <2>2 DEF HearTelemetry, QueueKept, MonitorTypeOK
<1>4. ASSUME NEW t \in Tasks, HearSettings(t)  PROVE ReadStep /\ QueueKept
  <2>1. PICK d \in 0 .. 1 : ReadSome(d, {k \in {"settings"} : probeState = Awaited(k) /\ t = task})
    BY <1>4 DEF HearSettings
  <2>2. ReadStep
    <3> DEFINE answered == {k \in {"settings"} : probeState = Awaited(k) /\ t = task}
    <3>1. \A k \in answered : k \in {"one", "zero", "settings"} /\ probeState = Awaited(k)
      OBVIOUS
    <3> HIDE DEF answered
    <3>2. ReadSome(d, answered)
      BY <2>1 DEF answered
    <3> QED  BY <3>1, <3>2, ReadSomeStep
  <2> QED  BY <1>4, <2>2 DEF HearSettings, QueueKept, MonitorTypeOK
<1> QED  BY <1>1, <1>2, <1>3, <1>4 DEF Read

\* Tasks that are put at the end leave the queue free of repetitions and its head in place.
LEMMA QueueGrows ==
  ASSUME QueueInv, QueueKept
  PROVE  /\ queue' \in Seq(Tasks) /\ IsInjective(queue')
         /\ \A i \in DOMAIN queue' : queue'[i].pack \in ToSet(Candidates) \cup observed'
         /\ observed' \subseteq Packs
         /\ queue # <<>> => queue' # <<>> /\ Head(queue') = Head(queue)
         /\ Len(queue') >= Len(queue)
<1>1. queue \in Seq(Tasks) /\ Len(queue) \in Nat /\ DOMAIN queue = 1 .. Len(queue)
  BY LenProperties DEF QueueInv, MonitorTypeOK
<1>2. CASE queue' = queue /\ observed \subseteq observed' /\ observed' \subseteq Packs
  BY <1>1, <1>2 DEF QueueInv
<1>3. ASSUME NEW p \in Packs, p \notin observed, p \notin ToSet(Candidates),
             observed' = observed \cup {p}, queue' = queue \o TasksFor(<<p>>)
      PROVE  /\ queue' \in Seq(Tasks) /\ IsInjective(queue')
             /\ \A i \in DOMAIN queue' : queue'[i].pack \in ToSet(Candidates) \cup observed'
             /\ observed' \subseteq Packs
             /\ queue # <<>> => queue' # <<>> /\ Head(queue') = Head(queue)
             /\ Len(queue') >= Len(queue)
  <2> DEFINE new == TasksFor(<<p>>)
  <2>1. <<p>> \in Seq(Packs) /\ IsInjective(<<p>>) /\ ToSet(<<p>>) = {p}
    BY DEF IsInjective, ToSet
  <2>2. new \in Seq(Tasks) /\ IsInjective(new) /\ \A i \in DOMAIN new : new[i].pack = p
    BY <2>1, TasksOnce
  <2> HIDE DEF new
  <2>3. Len(new) \in Nat /\ DOMAIN new = 1 .. Len(new)
    BY <2>2, LenProperties
  <2>4. /\ queue \o new \in Seq(Tasks) /\ Len(queue \o new) = Len(queue) + Len(new)
        /\ \A i \in 1 .. Len(queue) + Len(new) :
             (queue \o new)[i] = IF i <= Len(queue) THEN queue[i] ELSE new[i - Len(queue)]
    BY <1>1, <2>2, ConcatProperties
  <2>5. queue' = queue \o new
    BY <1>3 DEF new
  <2>6. DOMAIN queue' = 1 .. Len(queue) + Len(new)
    BY <2>4, <2>5, LenProperties
  <2>7. \A i \in DOMAIN queue' :
          \/ i \in DOMAIN queue /\ queue'[i] = queue[i] /\ queue[i].pack # p
          \/ i - Len(queue) \in DOMAIN new /\ queue'[i] = new[i - Len(queue)] /\ queue'[i].pack = p
    <3> TAKE i \in DOMAIN queue'
    <3>1. CASE i <= Len(queue)
      <4>1. i \in DOMAIN queue /\ queue'[i] = queue[i]
        BY <1>1, <2>3, <2>4, <2>5, <2>6, <3>1
      <4>2. queue[i].pack # p
        BY <1>3, <4>1 DEF QueueInv
      <4> QED  BY <4>1, <4>2
    <3>2. CASE ~ (i <= Len(queue))
      <4>1. i - Len(queue) \in DOMAIN new /\ queue'[i] = new[i - Len(queue)]
        BY <1>1, <2>3, <2>4, <2>5, <2>6, <3>2
      <4> QED  BY <2>2, <4>1
    <3> QED  BY <3>1, <3>2
  <2>8. IsInjective(queue')
    <3> SUFFICES ASSUME NEW i \in DOMAIN queue', NEW j \in DOMAIN queue', queue'[i] = queue'[j]
                 PROVE  i = j
      BY DEF IsInjective
    <3>1. CASE queue'[i].pack = p
      <4>1. i - Len(queue) \in DOMAIN new /\ j - Len(queue) \in DOMAIN new
            /\ new[i - Len(queue)] = new[j - Len(queue)]
        BY <2>7, <3>1
      <4>2. i - Len(queue) = j - Len(queue)
        BY <2>2, <4>1 DEF IsInjective
      <4> QED  BY <1>1, <2>6, <4>2
    <3>2. CASE queue'[i].pack # p
      BY <2>7, <3>2 DEF QueueInv, IsInjective
    <3> QED  BY <3>1, <3>2
  <2>9. \A i \in DOMAIN queue' : queue'[i].pack \in ToSet(Candidates) \cup observed'
    BY <1>3, <2>7 DEF QueueInv
  <2>10. Len(queue') >= Len(queue)
    BY <1>1, <2>3, <2>4, <2>5
  <2>11. ASSUME queue # <<>>  PROVE queue' # <<>> /\ Head(queue') = Head(queue)
    <3>1. Len(queue) # 0
      BY <1>1, <2>11, EmptySeq
    <3>2. queue'[1] = queue[1] /\ Len(queue') # 0
      BY <1>1, <2>3, <2>4, <2>5, <3>1
    <3> QED  BY <1>1, <2>4, <2>5, <2>11, <3>2
  <2> QED  BY <1>3, <2>4, <2>5, <2>8, <2>9, <2>10, <2>11 DEF QueueInv, MonitorTypeOK
<1> QED  BY <1>2, <1>3 DEF QueueKept

\* Every step keeps the types.
LEMMA MonitorTypesStep ==
  ASSUME QueueInv, RequestInv, [MonitorNext]_monitorVars
  PROVE  MonitorTypeOK'
<1>1. MonitorTypeOK
  BY DEF QueueInv
<1> USE <1>1 DEF MonitorTypeOK
<1>2. ASSUME Refill  PROVE MonitorTypeOK'
  <2>1. CASE settingsDue = 0 /\ queue = <<>>
    <3>1. PICK others \in SetToSeqs(observed \ ToSet(Candidates)) :
               queue' = TasksFor(Candidates \o others)
      BY <1>2, <2>1 DEF Refill
    <3>2. queue' \in Seq(Tasks)
      BY <3>1, AllOnce, TasksOnce
    <3>3. settingsDue' \in Nat
      BY <1>2, <2>1, Bounds DEF Refill
    <3> QED  BY <1>2, <3>2, <3>3 DEF Refill, history
  <2>2. CASE ~ (settingsDue = 0 /\ queue = <<>>)
    BY <1>2, <2>2 DEF Refill, history
  <2> QED  BY <2>1, <2>2
<1>3. ASSUME BeginCycle \/ ResumeSettings \/ NoTaskLeft \/ Hold
      PROVE MonitorTypeOK'
  BY ZenonT(30), <1>3
     DEF BeginCycle, ResumeSettings, NoTaskLeft, Hold, GoTo, At, States, timers, tasks, history
<1>4. ASSUME TurnToZero \/ RetryZero \/ RetrySettings
      PROVE MonitorTypeOK'
  <2>1. /\ retries = [zero |-> retries.zero, settings |-> retries.settings]
        /\ retries.zero \in 0 .. MaxProbeRetry /\ retries.settings \in 0 .. MaxSettingsRetry
    OBVIOUS
  <2>2. retries' \in [zero : 0 .. MaxProbeRetry, settings : 0 .. MaxSettingsRetry]
    <3>1. CASE TurnToZero
      <4>1. retries' = [zero |-> 0, settings |-> retries.settings]
        BY <2>1, <3>1 DEF TurnToZero
      <4> QED  BY <2>1, <4>1, Bounds
    <3>2. CASE RetryZero
      <4>1. retries' = [zero |-> retries.zero + 1, settings |-> retries.settings]
            /\ retries.zero < MaxProbeRetry
        BY <2>1, <3>2 DEF RetryZero
      <4> QED  BY <2>1, <4>1, Bounds
    <3>3. CASE RetrySettings
      <4>1. retries' = [zero |-> retries.zero, settings |-> retries.settings + 1]
            /\ retries.settings < MaxSettingsRetry
        BY <2>1, <3>3 DEF RetrySettings
      <4> QED  BY <2>1, <4>1, Bounds
    <3> QED  BY <1>4, <3>1, <3>2, <3>3
  <2> QED  BY <1>4, <2>2 DEF TurnToZero, RetryZero, RetrySettings, GoTo, At, States, timers, tasks,
              history
<1>5. ASSUME PollOne \/ PollZero  PROVE MonitorTypeOK'
  <2>1. waited' \in 0 .. ProbeTimeout
    BY <1>5, Bounds DEF PollOne, PollZero, Ask
  <2> QED  BY <1>5, <2>1 DEF PollOne, PollZero, Ask, GoTo, At, States, tasks
<1>6. ASSUME OneDone \/ ZeroDone  PROVE MonitorTypeOK'
  <2>1. gap' \in 0 .. ProbeGap /\ telemetryDue' \in Nat
    BY <1>6, Bounds DEF OneDone, ZeroDone
  <2> QED  BY <1>6, <2>1 DEF OneDone, ZeroDone, GoTo, At, States, tasks, history
<1>7. ASSUME ChooseTask  PROVE MonitorTypeOK'
  <2>1. Head(queue) \in Tasks
    BY <1>7, HeadTailProperties DEF ChooseTask
  <2>2. /\ retries' \in [zero : 0 .. MaxProbeRetry, settings : 0 .. MaxSettingsRetry]
        /\ tries' \in 0 .. MaxSettingsRetry + 1
    <3>1. retries.zero \in 0 .. MaxProbeRetry /\ retries' = [zero |-> retries.zero, settings |-> 0]
      BY <1>7 DEF ChooseTask
    <3>2. 0 \in 0 .. MaxSettingsRetry /\ 0 \in 0 .. MaxSettingsRetry + 1
      BY Bounds
    <3> QED  BY <1>7, <3>1, <3>2 DEF ChooseTask
  <2> QED  BY <1>7, <2>1, <2>2 DEF ChooseTask, GoTo, At, States, timers
<1>8. ASSUME AskSettings  PROVE MonitorTypeOK'
  <2>1. tries' \in 0 .. MaxSettingsRetry + 1 /\ waited' \in 0 .. ProbeTimeout
    BY <1>8, Bounds DEF AskSettings, Ask, At, RequestInv
  <2> QED  BY <1>8, <2>1 DEF AskSettings, Ask, GoTo, At, States, tasks
<1>9. ASSUME TaskDone  PROVE MonitorTypeOK'
  <2>1. queue # <<>>
    BY <1>9 DEF TaskDone, At, QueueInv
  <2>2. Tail(queue) \in Seq(Tasks)
    BY <2>1, HeadTailProperties
  <2>3. gap' \in 0 .. ProbeGap
    BY <1>9, Bounds DEF TaskDone
  <2> QED  BY <1>9, <2>2, <2>3 DEF TaskDone, GoTo, At, States, history
<1>10. ASSUME Read  PROVE MonitorTypeOK'
  <2>1. ReadStep /\ QueueKept
    BY <1>10, ReadSteps
  <2>2. queue' \in Seq(Tasks) /\ observed' \subseteq Packs
    BY <2>1, QueueGrows
  <2> QED  BY <2>1, <2>2 DEF ReadStep
<1>11. ASSUME Disconnect  PROVE MonitorTypeOK'
  <2>1. disconnects' \in 0 .. MaxDisconnects
    BY <1>11, Bounds DEF Disconnect
  <2> QED  BY <1>11, <2>1 DEF Disconnect, States, timers, tasks
<1>12. ASSUME Open  PROVE MonitorTypeOK'
  <2>1. /\ probeState' = "idle" /\ turn' = "refill" /\ telemetryDue' \in Nat
        /\ settingsDue' \in Nat /\ queue' \in Seq(Tasks)
    BY <1>12, Bounds, CandidatesOnce DEF Open, Opened
  <2>2. /\ gap' \in 0 .. ProbeGap /\ waited' \in 0 .. ProbeTimeout
        /\ tries' \in 0 .. MaxSettingsRetry + 1
        /\ retries' \in [zero : 0 .. MaxProbeRetry, settings : 0 .. MaxSettingsRetry]
    BY <1>12, Bounds DEF Open
  <2> QED  BY <1>12, <2>1, <2>2 DEF Open, States
<1>13. ASSUME UNCHANGED monitorVars  PROVE MonitorTypeOK'
  BY <1>13 DEF monitorVars, timers, tasks, history
<1> QED  BY <1>2, <1>3, <1>4, <1>5, <1>6, <1>7, <1>8, <1>9, <1>10, <1>11, <1>12, <1>13
        DEF MonitorNext, SwitchStep

\* Every step keeps the queue as QueueInv has it.
LEMMA QueueStep ==
  ASSUME QueueInv, RequestInv, [MonitorNext]_monitorVars
  PROVE  QueueInv'
<1>1. MonitorTypeOK /\ MonitorTypeOK'
  BY MonitorTypesStep DEF QueueInv
<1> USE <1>1 DEF QueueInv
<1>2. ASSUME Refill  PROVE QueueInv'
  <2>1. CASE settingsDue = 0 /\ queue = <<>>
    <3>1. PICK others \in SetToSeqs(observed \ ToSet(Candidates)) :
               queue' = TasksFor(Candidates \o others)
      BY <1>2, <2>1 DEF Refill
    <3> DEFINE all == Candidates \o others
    <3>2. all \in Seq(Packs) /\ IsInjective(all)
          /\ ToSet(all) \subseteq ToSet(Candidates) \cup observed
      BY AllOnce
    <3> HIDE DEF all
    <3>3. /\ IsInjective(TasksFor(all))
          /\ \A i \in DOMAIN TasksFor(all) : TasksFor(all)[i].pack \in ToSet(all)
      BY <3>2, TasksOnce
    <3>4. queue' = TasksFor(all)
      BY <3>1 DEF all
    <3> QED  BY <1>2, <2>1, <3>2, <3>3, <3>4 DEF Refill
  <2>2. CASE ~ (settingsDue = 0 /\ queue = <<>>)
    BY <1>2, <2>2 DEF Refill
  <2> QED  BY <2>1, <2>2
<1>3. ASSUME SwitchStep, ~ChooseTask, ~TaskDone  PROVE QueueInv'
  BY <1>3 DEF SwitchStep, BeginCycle, ResumeSettings, PollOne, OneDone, TurnToZero, PollZero,
     RetryZero, ZeroDone,
       NoTaskLeft, AskSettings, RetrySettings, Hold, GoTo, At, tasks
<1>4. ASSUME ChooseTask  PROVE QueueInv'
  BY <1>4 DEF ChooseTask, GoTo
<1>5. ASSUME TaskDone  PROVE QueueInv'
  <2>1. queue # <<>> /\ Len(queue) \in Nat /\ DOMAIN queue = 1 .. Len(queue) /\ queue \in Seq(Tasks)
    BY <1>5, LenProperties DEF TaskDone, At, MonitorTypeOK
  <2>2. Tail(queue) \in Seq(Tasks) /\ Len(Tail(queue)) = Len(queue) - 1
        /\ \A i \in 1 .. Len(Tail(queue)) : Tail(queue)[i] = queue[i + 1]
    BY <2>1, HeadTailProperties
  <2>3. DOMAIN Tail(queue) = 1 .. Len(queue) - 1
    BY <2>2, LenProperties
  <2>4. \A i \in 1 .. Len(queue) - 1 : i + 1 \in 1 .. Len(queue)
    BY <2>1
  <2>5. IsInjective(Tail(queue))
    BY <2>1, <2>2, <2>3, <2>4 DEF IsInjective
  <2> QED  BY <1>5, <2>1, <2>2, <2>3, <2>4, <2>5 DEF TaskDone, GoTo
<1>6. ASSUME Read  PROVE QueueInv'
  <2>1. ReadStep /\ QueueKept
    BY <1>6, ReadSteps
  <2> QED  BY <2>1, QueueGrows DEF ReadStep
<1>7. ASSUME Disconnect  PROVE QueueInv'
  BY <1>7 DEF Disconnect, tasks
<1>8. ASSUME Open  PROVE QueueInv'
  BY <1>8, CandidatesOnce DEF Open, Opened
<1>9. ASSUME UNCHANGED monitorVars  PROVE QueueInv'
  BY <1>9 DEF monitorVars, tasks
<1> QED  BY <1>2, <1>3, <1>4, <1>5, <1>6, <1>7, <1>8, <1>9 DEF MonitorNext

\* Every step keeps what RequestInv says of the request.
LEMMA RequestStep ==
  ASSUME QueueInv, RequestInv, [MonitorNext]_monitorVars
  PROVE  RequestInv'
<1>1. MonitorTypeOK
  BY DEF QueueInv
<1> USE DEF RequestInv
<1>2. ASSUME Refill  PROVE RequestInv'
  BY <1>2 DEF Refill, history
<1>3. ASSUME BeginCycle \/ ResumeSettings \/ NoTaskLeft \/ Hold \/ TurnToZero
      PROVE RequestInv'
  BY <1>1, <1>3 DEF BeginCycle, ResumeSettings, NoTaskLeft, Hold, TurnToZero, GoTo, At, timers,
     history,
       Awaited, MonitorTypeOK
<1>4. ASSUME OneDone \/ ZeroDone \/ TaskDone  PROVE RequestInv'
  <2>1. ~open
    <3>1. \/ ~ (waited < ProbeTimeout)
          \/ (\E k \in {"one", "zero", "settings"} : probeState = Awaited(k) /\ replied[k])
      BY <1>1, <1>4, Bounds DEF OneDone, ZeroDone, TaskDone, At, Awaited, MonitorTypeOK, ProbeOver
    <3> QED  BY <3>1 DEF Awaited
  <2> QED  BY <1>4, <2>1 DEF OneDone, ZeroDone, TaskDone, GoTo, At, history
<1>5. ASSUME RetryZero \/ RetrySettings  PROVE RequestInv'
  <2>1. ~open
    BY SMTT(30), <1>1, <1>5, Bounds DEF RetryZero, RetrySettings, At, MonitorTypeOK, ProbeOver
  <2>2. CASE RetryZero
    BY <1>1, <2>1, <2>2 DEF RetryZero, GoTo, At, history, MonitorTypeOK
  <2>3. CASE RetrySettings
    <3>1. retries'.settings = retries.settings + 1
      BY <1>1, <2>3 DEF RetrySettings, MonitorTypeOK
    <3> QED  BY <2>1, <2>3, <3>1 DEF RetrySettings, GoTo, At, history
  <2> QED  BY <1>5, <2>2, <2>3
<1>6. ASSUME PollOne \/ PollZero  PROVE RequestInv'
  <2>1. CASE PollOne
    <3>1. ~replied["one"] /\ waited' = 0 /\ probeState' = "awaitOne" /\ sent' = "one"
          /\ replied' = replied
      BY <2>1 DEF PollOne, At, Ask, GoTo
    <3> QED  BY <3>1, Bounds DEF Awaited
  <2>2. CASE PollZero
    <3>1. ~replied["zero"] /\ waited' = 0 /\ probeState' = "awaitZero" /\ sent' = "zero"
          /\ replied' = replied
      BY <2>2 DEF PollZero, At, Ask, GoTo
    <3> QED  BY <3>1, Bounds DEF Awaited
  <2> QED  BY <1>6, <2>1, <2>2
<1>7. ASSUME ChooseTask  PROVE RequestInv'
  <2>1. ~open /\ sent # "one"
    BY <1>1, <1>7 DEF ChooseTask, At, Awaited
  <2>2. tries' = 0 /\ retries'.settings = 0 /\ ~replied'["settings"]
    BY <1>1, <1>7 DEF ChooseTask, MonitorTypeOK
  <2> QED  BY <1>7, <2>1, <2>2 DEF ChooseTask, GoTo
<1>8. ASSUME AskSettings  PROVE RequestInv'
  <2>1. probeState' = "settingsWait" /\ sent' = "settings" /\ replied' = replied
        /\ retries' = retries /\ waited' = 0
    BY <1>8 DEF AskSettings, Ask, GoTo
  <2>2. ~replied["settings"] /\ tries' = retries.settings + 1
    BY <1>8 DEF AskSettings, At
  <2>3. probeState' = Awaited("settings")
    BY <2>1 DEF Awaited
  <2> QED  BY <2>1, <2>2, <2>3, Bounds
<1>9. ASSUME Read  PROVE RequestInv'
  BY <1>1, <1>9, ReadSteps DEF ReadStep, Awaited
<1>10. ASSUME Disconnect  PROVE RequestInv'
  <2>1. probeState' = "closed" /\ ~open'
    BY <1>10 DEF Disconnect
  <2> QED  BY <2>1
<1>11. ASSUME Open  PROVE RequestInv'
  <2>1. probeState' = "idle" /\ ~open' /\ sent' = "none"
    BY <1>11 DEF Open, Opened
  <2> QED  BY <2>1
<1>12. ASSUME UNCHANGED monitorVars  PROVE RequestInv'
  BY <1>12 DEF monitorVars, timers, history
<1> QED  BY <1>2, <1>3, <1>4, <1>5, <1>6, <1>7, <1>8, <1>9, <1>10, <1>11, <1>12 DEF MonitorNext,
            SwitchStep

\* The inductive invariant holds of the monitor (bms/interpack/monitor.go) for any addresses,
\* intervals and numbers of retries.
THEOREM MonitorTypeCorrect == MonitorSpec => []MonitorInv
<1>1. MonitorInv /\ [MonitorNext]_monitorVars => MonitorInv'
  BY QueueStep, RequestStep DEF MonitorInv
<1> QED  BY <1>1, MonitorTypesInit, PTL DEF MonitorSpec

\* The queue of settings tasks never has a task twice, and its head is what is being asked.
THEOREM QueueSoundHolds == MonitorSpec => []QueueSound
<1>1. MonitorInv => QueueSound
  BY DEF MonitorInv, QueueInv, QueueSound
<1> QED  BY <1>1, MonitorTypeCorrect, PTL

\* What RequestsTakeTurns says of a step.
LEMMA TurnsTaken ==
  ASSUME MonitorInv, [MonitorNext]_monitorVars
  PROVE  /\ PollOne \/ PollZero \/ AskSettings => ~open
         /\ probeState # "closed" /\ sent = "one" /\ sent' # sent => sent' = "zero"
         /\ probeState = "settingsWait" /\ queue' # queue /\ Len(queue') < Len(queue) =>
              replied["settings"] \/ tries = MaxSettingsRetry + 1
<1>1. MonitorTypeOK /\ QueueInv /\ RequestInv
  BY DEF MonitorInv, QueueInv
<1>2. PollOne \/ PollZero \/ AskSettings => ~open
  BY <1>1 DEF PollOne, PollZero, AskSettings, At, RequestInv, Awaited
<1>3. ASSUME probeState # "closed", sent = "one", sent' # sent  PROVE sent' = "zero"
  <2>1. CASE Read
    BY <1>1, <1>3, <2>1, ReadSteps DEF ReadStep
  <2>2. CASE SwitchStep
    BY <1>1, <1>3, <2>2 DEF SwitchStep, BeginCycle, ResumeSettings, PollOne, OneDone, TurnToZero,
       PollZero, RetryZero,
       ZeroDone, ChooseTask, TaskDone, NoTaskLeft, AskSettings, RetrySettings, Hold, Ask, GoTo, At,
       RequestInv, history
  <2> QED  BY <1>3, <2>1, <2>2 DEF MonitorNext, Refill, Disconnect, Open, monitorVars, history
<1>4. ASSUME probeState = "settingsWait", queue' # queue, Len(queue') < Len(queue)
      PROVE  replied["settings"] \/ tries = MaxSettingsRetry + 1
  <2>1. queue # <<>>
    BY <1>1, <1>4 DEF QueueInv
  <2>2. CASE Read
    <3>1. Len(queue') >= Len(queue)
      BY <1>1, <2>2, ReadSteps, QueueGrows
    <3>2. Len(queue) \in Nat /\ Len(queue') \in Nat
      <4>1. queue' \in Seq(Tasks)
        BY <1>1, <2>2, ReadSteps, QueueGrows
      <4> QED  BY <1>1, <4>1, LenProperties DEF MonitorTypeOK
    <3> QED  BY <1>4, <3>1, <3>2
  <2>3. CASE TaskDone
    BY <1>1, <1>4, <2>3 DEF TaskDone, RequestInv
  <2> QED  BY <1>4, <2>1, <2>2, <2>3 DEF MonitorNext, Refill, SwitchStep, BeginCycle,
              ResumeSettings, PollOne, OneDone,
       TurnToZero, PollZero, RetryZero, ZeroDone, ChooseTask, NoTaskLeft, AskSettings,
       RetrySettings, Hold, At, tasks,
       Disconnect, Open, monitorVars
<1> QED  BY <1>2, <1>3, <1>4

\* One request at a time, address 1 before address 0, and no settings task given up before
\* its last try, for any addresses and retries.
THEOREM RequestsTakeTurnsHolds == MonitorSpec => RequestsTakeTurns
<1>1. MonitorInv /\ [MonitorNext]_monitorVars =>
        [ /\ PollOne \/ PollZero \/ AskSettings => ~open
          /\ probeState # "closed" /\ sent = "one" /\ sent' # sent => sent' = "zero"
          /\ probeState = "settingsWait" /\ queue' # queue /\ Len(queue') < Len(queue) =>
               replied["settings"] \/ tries = MaxSettingsRetry + 1 ]_monitorVars
  BY TurnsTaken
<1> QED  BY <1>1, MonitorTypeCorrect, PTL DEF MonitorSpec, RequestsTakeTurns
-----------------------------------------------------------------------------
\* FramesIn at position i, f being the rest of the recursion, ...
StepAt(t, i, f) ==
  IF i > Len(t) THEN <<>>
  ELSE IF IsFrame(t, i) THEN <<FrameAt(t, i)>> \o f[i + SizeAt(t, i)]
  ELSE f[i + 1]

\* ... and at each position.
From(t) == CHOOSE f : f = [i \in 1..(Len(t) + 1) |-> StepAt(t, i, f)]

\* A frame has one of two sizes.
LEMMA SizeType ==
  ASSUME NEW t, NEW i
  PROVE  SizeAt(t, i) \in {4, 6}
BY DEF SizeAt, TelemetrySize, SettingsSize

\* The recursion has a solution, since it looks ahead only.
LEMMA FromExists ==
  ASSUME NEW t \in Seq(Bytes)
  PROVE  From(t) = [i \in 1..(Len(t) + 1) |-> StepAt(t, i, From(t))]
<1> DEFINE L == Len(t)
           Solves(f, k) == f = [i \in (L + 1 - k)..(L + 1) |-> StepAt(t, i, f)]
           Solved == {k \in Nat : k <= L => \E f : Solves(f, k)}
<1>1. L \in Nat
  BY LenProperties
<1>2. 0 \in Solved
  <2> DEFINE f == [i \in (L + 1 - 0)..(L + 1) |-> <<>>]
  <2>1. \A i \in (L + 1 - 0)..(L + 1) : StepAt(t, i, f) = <<>>
    BY <1>1 DEF StepAt
  <2>2. Solves(f, 0)
    BY <2>1
  <2> QED  BY <2>2
<1>3. ASSUME NEW k \in Nat, k \in Solved  PROVE k + 1 \in Solved
  <2>1. SUFFICES ASSUME k + 1 <= L  PROVE \E f : Solves(f, k + 1)
    OBVIOUS
  <2>2. PICK f : Solves(f, k)
    BY <1>1, <1>3, <2>1
  <2> DEFINE lo == L - k
             g == [i \in lo..(L + 1) |-> IF i = lo THEN StepAt(t, lo, f) ELSE f[i]]
  <2>3. lo \in 1..L /\ L + 1 - k = lo + 1 /\ L + 1 - (k + 1) = lo
    BY <1>1, <2>1
  <2>4. \A i \in lo..(L + 1) : StepAt(t, i, g) = StepAt(t, i, f)
    <3> TAKE i \in lo..(L + 1)
    <3>1. CASE i > L
      BY <3>1 DEF StepAt
    <3>2. CASE i <= L /\ IsFrame(t, i)
      <4>1. i + SizeAt(t, i) \in (lo + 1)..(L + 1)
        BY <1>1, <2>3, <3>2, SizeType DEF IsFrame
      <4>2. g[i + SizeAt(t, i)] = f[i + SizeAt(t, i)]
        BY <2>3, <4>1
      <4> HIDE DEF g
      <4> QED  BY <3>2, <4>2 DEF StepAt
    <3>3. CASE i <= L /\ ~IsFrame(t, i)
      <4>1. g[i + 1] = f[i + 1]
        BY <1>1, <2>3, <3>3
      <4> QED  BY <3>3, <4>1 DEF StepAt
    <3> QED  BY <1>1, <3>1, <3>2, <3>3
  <2>5. \A i \in lo..(L + 1) : g[i] = StepAt(t, i, f)
    <3> TAKE i \in lo..(L + 1)
    <3>1. CASE i = lo
      BY <3>1
    <3>2. CASE i # lo
      <4>1. i \in (L + 1 - k)..(L + 1)
        BY <1>1, <2>3, <3>2
      <4>2. f[i] = StepAt(t, i, f)
        BY <2>2, <4>1
      <4> QED  BY <3>2, <4>2
    <3> QED  BY <3>1, <3>2
  <2>6. g = [i \in lo..(L + 1) |-> StepAt(t, i, g)]
    <3>1. \A i \in lo..(L + 1) : g[i] = StepAt(t, i, g)
      BY <2>4, <2>5
    <3>2. g = [i \in lo..(L + 1) |-> g[i]]
      OBVIOUS
    <3> HIDE DEF g
    <3> QED  BY <3>1, <3>2
  <2> HIDE DEF g
  <2> QED  BY <2>3, <2>6
<1>4. Nat \subseteq Solved
  <2> HIDE DEF Solved
  <2> QED  BY <1>2, <1>3, AllNaturals
<1>5. PICK f : Solves(f, L)
  BY <1>1, <1>4
<1>6. f = [i \in 1..(L + 1) |-> StepAt(t, i, f)]
  BY <1>1, <1>5
<1> QED  BY <1>6 DEF From

\* FramesIn is From at the first position.
LEMMA FramesFrom ==
  ASSUME NEW t
  PROVE  FramesIn(t) = From(t)[1]
BY DEF FramesIn, From, StepAt

\* The frames.
Frame == {f \in Seq(Bytes) : Len(f) \in {4, 6}}

\* The bytes of a frame.
LEMMA FrameType ==
  ASSUME NEW t \in Seq(Bytes), NEW i \in 1..Len(t), i + SizeAt(t, i) - 1 <= Len(t)
  PROVE  FrameAt(t, i) \in Frame
<1> DEFINE j == i + SizeAt(t, i) - 1
<1>1. SizeAt(t, i) \in {4, 6} /\ Len(t) \in Nat
  BY SizeType, LenProperties
<1>2. j \in Int /\ j - i + 1 = SizeAt(t, i) /\ i <= j
  BY <1>1
<1>3. \A k \in i..j : t[k] \in Bytes
  BY <1>1, ElementOfSeq
<1> HIDE DEF j
<1>4. SubSeq(t, i, j) \in Seq(Bytes) /\ Len(SubSeq(t, i, j)) = SizeAt(t, i)
  BY <1>2, <1>3, SubSeqProperties
<1> QED  BY <1>1, <1>4 DEF FrameAt, Frame, j

\* One step of From: at the end, ...
LEMMA FromEnd ==
  ASSUME NEW t \in Seq(Bytes)
  PROVE  From(t)[Len(t) + 1] = <<>>
<1> DEFINE F == From(t)
<1>1. F = [k \in 1..(Len(t) + 1) |-> StepAt(t, k, F)]
  BY FromExists
<1>2. Len(t) \in Nat
  BY LenProperties
<1> HIDE DEF F
<1>3. F[Len(t) + 1] = StepAt(t, Len(t) + 1, F)
  BY <1>1, <1>2
<1> QED  BY <1>2, <1>3 DEF StepAt, F

\* ... where a frame begins, ...
LEMMA FromFrame ==
  ASSUME NEW t \in Seq(Bytes), NEW i \in 1..Len(t), IsFrame(t, i)
  PROVE  /\ From(t)[i] = <<FrameAt(t, i)>> \o From(t)[i + SizeAt(t, i)]
         /\ i + SizeAt(t, i) \in (i + 1)..(Len(t) + 1)
         /\ FrameAt(t, i) \in Frame
<1> DEFINE F == From(t)
<1>1. F = [k \in 1..(Len(t) + 1) |-> StepAt(t, k, F)]
  BY FromExists
<1>2. Len(t) \in Nat /\ SizeAt(t, i) \in {4, 6}
  BY LenProperties, SizeType
<1> HIDE DEF F
<1>3. F[i] = StepAt(t, i, F)
  BY <1>1, <1>2
<1>4. i + SizeAt(t, i) \in (i + 1)..(Len(t) + 1) /\ FrameAt(t, i) \in Frame
  BY <1>2, FrameType DEF IsFrame
<1> QED  BY <1>2, <1>3, <1>4 DEF StepAt, F

\* ... and elsewhere.
LEMMA FromSkip ==
  ASSUME NEW t \in Seq(Bytes), NEW i \in 1..Len(t), ~IsFrame(t, i)
  PROVE  From(t)[i] = From(t)[i + 1]
<1> DEFINE F == From(t)
<1>1. F = [k \in 1..(Len(t) + 1) |-> StepAt(t, k, F)]
  BY FromExists
<1>2. Len(t) \in Nat
  BY LenProperties
<1> HIDE DEF F
<1>3. F[i] = StepAt(t, i, F)
  BY <1>1, <1>2
<1> QED  BY <1>2, <1>3 DEF StepAt, F

\* From gives frames.
LEMMA FromType ==
  ASSUME NEW t \in Seq(Bytes)
  PROVE  \A i \in 1..(Len(t) + 1) : From(t)[i] \in Seq(Frame)
<1> DEFINE T == {i \in 1..(Len(t) + 1) : From(t)[i] \in Seq(Frame)}
<1>1. Len(t) \in Nat
  BY LenProperties
<1>2. Len(t) + 1 \in T
  <2>1. Len(t) + 1 \in 1..(Len(t) + 1)
    BY <1>1
  <2>2. From(t)[Len(t) + 1] \in Seq(Frame)
    BY FromEnd, EmptySeq
  <2> QED  BY <2>1, <2>2
<1>3. ASSUME NEW i \in 1..Len(t), \A j \in (i + 1)..(Len(t) + 1) : j \in T
      PROVE  i \in T
  <2>1. i \in 1..(Len(t) + 1)
    BY <1>1
  <2>2. CASE IsFrame(t, i)
    <3> DEFINE next == i + SizeAt(t, i)
               f == FrameAt(t, i)
    <3>1. From(t)[i] = <<f>> \o From(t)[next] /\ next \in (i + 1)..(Len(t) + 1) /\ f \in Frame
      BY <2>2, FromFrame
    <3> HIDE DEF next, f
    <3>2. From(t)[next] \in Seq(Frame) /\ <<f>> \in Seq(Frame)
      BY <1>3, <3>1
    <3>3. <<f>> \o From(t)[next] \in Seq(Frame)
      BY <3>2, ConcatProperties
    <3> QED  BY <2>1, <3>1, <3>3
  <2>3. CASE ~IsFrame(t, i)
    <3>1. From(t)[i] = From(t)[i + 1] /\ i + 1 \in (i + 1)..(Len(t) + 1)
      BY <1>1, <2>3, FromSkip
    <3> QED  BY <1>3, <2>1, <3>1
  <2> QED  BY <2>2, <2>3
<1>4. 1..(Len(t) + 1) \subseteq T
  <2> HIDE DEF T
  <2> QED  BY <1>1, <1>2, <1>3, Downward
<1> QED  BY <1>4

\* A suffix of bytes.
LEMMA SubSeqType ==
  ASSUME NEW t \in Seq(Bytes), NEW k \in 1..(Len(t) + 1)
  PROVE  /\ SubSeq(t, k, Len(t)) \in Seq(Bytes)
         /\ Len(SubSeq(t, k, Len(t))) = Len(t) + 1 - k
         /\ \A i \in 1..(Len(t) + 1 - k) : SubSeq(t, k, Len(t))[i] = t[k + i - 1]
<1>1. Len(t) \in Nat /\ \A i \in k..Len(t) : t[i] \in Bytes
  BY LenProperties, ElementOfSeq
<1>2. /\ SubSeq(t, k, Len(t)) \in Seq(Bytes)
      /\ Len(SubSeq(t, k, Len(t))) = IF k <= Len(t) THEN Len(t) - k + 1 ELSE 0
      /\ \A i \in 1..(Len(t) - k + 1) : SubSeq(t, k, Len(t))[i] = t[k + i - 1]
  BY <1>1, SubSeqProperties
<1> QED  BY <1>1, <1>2

\* A frame of a suffix is a frame of the whole, where it stands there.
LEMMA SuffixFrames ==
  ASSUME NEW t \in Seq(Bytes), NEW k \in 1..(Len(t) + 1), NEW u, u = SubSeq(t, k, Len(t)),
         NEW i \in 1..Len(u)
  PROVE  /\ HeaderAt(u, i) <=> HeaderAt(t, k + i - 1)
         /\ SizeAt(u, i) = SizeAt(t, k + i - 1)
         /\ IsFrame(u, i) <=> IsFrame(t, k + i - 1)
         /\ IsFrame(u, i) => FrameAt(u, i) = FrameAt(t, k + i - 1)
<1>1. /\ Len(t) \in Nat /\ u \in Seq(Bytes) /\ Len(u) = Len(t) + 1 - k
      /\ \A j \in 1..Len(u) : u[j] = t[k + j - 1]
  BY SubSeqType, LenProperties
<1>2. ASSUME NEW d \in {1, 2}
      PROVE  /\ i + d <= Len(u) <=> k + i - 1 + d <= Len(t)
             /\ i + d <= Len(u) => u[i + d] = t[k + i - 1 + d]
  <2>1. i + d <= Len(u) <=> k + i - 1 + d <= Len(t)
    BY <1>1
  <2>2. ASSUME i + d <= Len(u)  PROVE u[i + d] = t[k + i - 1 + d]
    <3>1. PICK j : j = i + d
      OBVIOUS
    <3>2. j \in 1..Len(u) /\ k + j - 1 = k + i - 1 + d
      BY <1>1, <2>2, <3>1
    <3>3. u[j] = t[k + j - 1]
      BY <1>1, <3>2
    <3> QED  BY <3>1, <3>2, <3>3
  <2> QED  BY <2>1, <2>2
<1>3. TelemetryAt(u, i) <=> TelemetryAt(t, k + i - 1)
  <2>1. i + 2 <= Len(u) => u[i + 2] = t[k + i - 1 + 2] /\ u[i + 1] = t[k + i - 1 + 1]
    <3>1. i + 2 <= Len(u) => i + 1 <= Len(u)
      BY <1>1
    <3> QED  BY <1>2, <3>1
  <2> QED  BY <1>2, <2>1 DEF TelemetryAt
<1>4. SettingsAt(u, i) <=> SettingsAt(t, k + i - 1)
  BY <1>2 DEF SettingsAt
<1>5. HeaderAt(u, i) <=> HeaderAt(t, k + i - 1)
  BY <1>3, <1>4 DEF HeaderAt
<1> DEFINE n == SizeAt(u, i)
<1>6. SizeAt(t, k + i - 1) = n /\ n \in {4, 6}
  BY <1>3, SizeType DEF SizeAt
<1> HIDE DEF n
<1>7. i + n - 1 <= Len(u) <=> k + i - 1 + n - 1 <= Len(t)
  BY <1>1, <1>6
<1>8. ASSUME i + n - 1 <= Len(u)  PROVE FrameAt(u, i) = FrameAt(t, k + i - 1)
  <2>1. k \in 1..Len(t) /\ Len(t) \in 1..Len(t) /\ i \in 1..(Len(t) - k + 1)
        /\ i + n - 1 \in 1..(Len(t) - k + 1)
    BY <1>1, <1>6, <1>8
  <2>2. SubSeq(SubSeq(t, k, Len(t)), i, i + n - 1) = SubSeq(t, k + i - 1, k + (i + n - 1) - 1)
    BY SMTT(30), <2>1, SubSeqOfSubSeq
  <2>3. k + (i + n - 1) - 1 = k + i - 1 + n - 1
    BY <1>1, <1>6
  <2> QED  BY <1>6, <2>2, <2>3 DEF FrameAt, n
<1> QED  BY <1>5, <1>6, <1>7, <1>8 DEF IsFrame, n

\* The frames from a position on are the frames of the suffix that begins there.
LEMMA FromSuffix ==
  ASSUME NEW t \in Seq(Bytes), NEW k \in 1..(Len(t) + 1)
  PROVE  From(t)[k] = FramesIn(SubSeq(t, k, Len(t)))
<1> DEFINE u == SubSeq(t, k, Len(t))
           T == {i \in 1..(Len(u) + 1) : From(u)[i] = From(t)[k + i - 1]}
<1>1. Len(t) \in Nat /\ u \in Seq(Bytes) /\ Len(u) = Len(t) + 1 - k
  BY SubSeqType, LenProperties
<1>2. Len(u) + 1 \in T
  <2>1. From(u)[Len(u) + 1] = <<>> /\ From(t)[Len(t) + 1] = <<>>
    BY <1>1, FromEnd
  <2>2. k + (Len(u) + 1) - 1 = Len(t) + 1 /\ Len(u) + 1 \in 1..(Len(u) + 1)
    BY <1>1
  <2> HIDE DEF u
  <2> QED  BY <2>1, <2>2
<1>3. ASSUME NEW i \in 1..Len(u), \A j \in (i + 1)..(Len(u) + 1) : j \in T
      PROVE  i \in T
  <2> DEFINE m == k + i - 1
  <2>1. i \in 1..(Len(u) + 1) /\ m \in 1..Len(t)
    BY <1>1
  <2>2. /\ SizeAt(u, i) = SizeAt(t, m)
        /\ IsFrame(u, i) <=> IsFrame(t, m)
        /\ IsFrame(u, i) => FrameAt(u, i) = FrameAt(t, m)
    BY ZenonT(30), SuffixFrames
  <2>3. CASE IsFrame(u, i)
    <3> DEFINE n == SizeAt(t, m)
    <3> HIDE DEF u, m
    <3>1. From(u)[i] = <<FrameAt(u, i)>> \o From(u)[i + SizeAt(u, i)]
          /\ i + SizeAt(u, i) \in (i + 1)..(Len(u) + 1)
      BY <1>1, <2>3, FromFrame
    <3>2. From(u)[i] = <<FrameAt(u, i)>> \o From(u)[i + n] /\ i + n \in (i + 1)..(Len(u) + 1)
      BY <2>2, <3>1
    <3>3. IsFrame(t, m)
      BY <2>2, <2>3
    <3>4. From(t)[m] = <<FrameAt(t, m)>> \o From(t)[m + SizeAt(t, m)]
      BY <2>1, <3>3, FromFrame
    <3>5. From(t)[m] = <<FrameAt(u, i)>> \o From(t)[m + n]
      BY <2>2, <2>3, <3>4
    <3>6. n \in {4, 6}
      BY SizeType
    <3> HIDE DEF n
    <3>7. i + n \in T
      BY <1>3, <3>2
    <3>8. k + (i + n) - 1 = m + n
      BY <1>1, <3>6 DEF m
    <3> QED  BY <2>1, <3>2, <3>5, <3>7, <3>8 DEF m
  <2>4. CASE ~IsFrame(u, i)
    <3>1. From(u)[i] = From(u)[i + 1]
      BY <1>1, <2>4, FromSkip
    <3>2. From(t)[m] = From(t)[m + 1]
      BY <2>1, <2>2, <2>4, FromSkip
    <3>3. From(u)[i + 1] = From(t)[k + (i + 1) - 1] /\ k + (i + 1) - 1 = m + 1
      BY <1>1, <1>3
    <3> QED  BY <2>1, <3>1, <3>2, <3>3
  <2> QED  BY <2>3, <2>4
<1>4. 1..(Len(u) + 1) \subseteq T
  <2>1. Len(u) \in Nat
    BY <1>1
  <2> HIDE DEF T, u
  <2> QED  BY <1>2, <1>3, <2>1, Downward
<1>5. From(u)[1] = From(t)[k + 1 - 1] /\ k + 1 - 1 = k
  BY <1>1, <1>4
<1> QED  BY <1>5, FramesFrom

\* The bytes of s where more have come.
LEMMA MoreBytes ==
  ASSUME NEW s \in Seq(Bytes), NEW x \in Seq(Bytes), NEW t, t = s \o x
  PROVE  /\ t \in Seq(Bytes) /\ Len(s) \in Nat /\ Len(x) \in Nat /\ Len(t) = Len(s) + Len(x)
         /\ \A i \in 1..Len(s) : t[i] = s[i]
<1>1. /\ t \in Seq(Bytes) /\ Len(t) = Len(s) + Len(x)
      /\ \A i \in 1..Len(s) + Len(x) : t[i] = IF i <= Len(s) THEN s[i] ELSE x[i - Len(s)]
  BY ConcatProperties
<1>2. Len(s) \in Nat /\ Len(x) \in Nat
  BY LenProperties
<1> QED  BY <1>1, <1>2

\* A header stays a header of the same kind when more bytes come, ...
LEMMA HeaderStays ==
  ASSUME NEW s \in Seq(Bytes), NEW x \in Seq(Bytes), NEW t, t = s \o x,
         NEW i \in 1..Len(s), HeaderAt(s, i)
  PROVE  HeaderAt(t, i) /\ SizeAt(t, i) = SizeAt(s, i)
<1>1. /\ Len(s) \in Nat /\ Len(x) \in Nat /\ Len(t) = Len(s) + Len(x)
      /\ \A j \in 1..Len(s) : t[j] = s[j]
  BY MoreBytes
<1>2. i + 1 <= Len(s) /\ t[i + 1] = s[i + 1]
  BY <1>1 DEF HeaderAt, TelemetryAt, SettingsAt
<1>3. CASE TelemetryAt(s, i)
  <2>1. i + 2 <= Len(s) /\ t[i + 2] = s[i + 2]
    BY <1>1, <1>3 DEF TelemetryAt
  <2>2. TelemetryAt(t, i)
    BY <1>1, <1>2, <1>3, <2>1 DEF TelemetryAt
  <2> QED  BY <1>3, <2>2 DEF HeaderAt, SizeAt
<1>4. CASE ~TelemetryAt(s, i)
  <2>1. s[i + 1] = SettingsCode
    BY <1>4 DEF HeaderAt, SettingsAt
  <2>2. SettingsAt(t, i) /\ ~TelemetryAt(t, i)
    BY <1>1, <1>2, <2>1 DEF SettingsAt, TelemetryAt, SettingsCode, TelemetryCode
  <2> QED  BY <1>4, <2>2 DEF HeaderAt, SizeAt
<1> QED  BY <1>3, <1>4

\* ... no header comes where there are the bytes to see that there is none, ...
LEMMA NoHeaderStays ==
  ASSUME NEW s \in Seq(Bytes), NEW x \in Seq(Bytes), NEW t, t = s \o x,
         NEW i \in 1..Len(s), i + 2 <= Len(s), ~HeaderAt(s, i)
  PROVE  ~IsFrame(t, i)
<1>1. /\ Len(s) \in Nat /\ Len(x) \in Nat /\ Len(t) = Len(s) + Len(x)
      /\ \A j \in 1..Len(s) : t[j] = s[j]
  BY MoreBytes
<1>2. t[i + 1] = s[i + 1] /\ t[i + 2] = s[i + 2] /\ i + 1 <= Len(s)
  BY <1>1
<1> QED  BY <1>1, <1>2 DEF IsFrame, HeaderAt, TelemetryAt, SettingsAt

\* ... and a complete frame stays as it is.
LEMMA FrameStays ==
  ASSUME NEW s \in Seq(Bytes), NEW x \in Seq(Bytes), NEW t, t = s \o x, NEW i \in 1..Len(s),
         HeaderAt(s, i), i + SizeAt(s, i) - 1 <= Len(s)
  PROVE  /\ IsFrame(t, i) <=> Checks(FrameAt(s, i))
         /\ FrameAt(t, i) = FrameAt(s, i)
<1>1. /\ Len(s) \in Nat /\ Len(x) \in Nat /\ Len(t) = Len(s) + Len(x)
  BY MoreBytes
<1>2. HeaderAt(t, i) /\ SizeAt(t, i) = SizeAt(s, i)
  BY ZenonT(30), HeaderStays
<1> DEFINE n == SizeAt(s, i)
<1>3. n \in {4, 6}
  BY SizeType
<1>4. FrameAt(t, i) = FrameAt(s, i)
  <2>1. i + n - 1 \in 1..Len(s)
    BY <1>1, <1>3
  <2>2. SubSeq(s \o x, i, i + n - 1) = SubSeq(s, i, i + n - 1)
    <3> HIDE DEF n
    <3> QED  BY <2>1, SubSeqOfConcat1
  <2> QED  BY <1>2, <2>2 DEF FrameAt
<1>5. i + n - 1 <= Len(t)
  BY <1>1, <1>3
<1> QED  BY <1>2, <1>4, <1>5 DEF IsFrame

-----------------------------------------------------------------------------
\* The headers from p on, ...
Headers(s, p) == {i \in p..Len(s) : HeaderAt(s, i)}
\* ... and the first of them.
First(H) == CHOOSE i \in H : \A j \in H : i <= j

\* The loop of Drained at position p, f being the rest of it, ...
DrainAt(s, p, f) ==
  LET headers == {i \in p..Len(s) : HeaderAt(s, i)}
      i       == CHOOSE i \in headers : \A j \in headers : i <= j
  IN  IF headers = {}
        THEN [out |-> <<>>, rest |-> KeptTail(s, p)]
      ELSE IF i + SizeAt(s, i) - 1 > Len(s)
        THEN [out |-> <<>>, rest |-> SubSeq(s, i, Len(s))]
      ELSE IF Checks(FrameAt(s, i))
        THEN LET next == f[i + SizeAt(s, i)]
             IN  [next EXCEPT !.out = <<FrameAt(s, i)>> \o @]
      ELSE f[AfterBad(s, i)]

\* ... and at each position.
Drain(s) == CHOOSE f : f = [p \in 1..(Len(s) + 1) |-> DrainAt(s, p, f)]

\* Drained begins at the first position.
LEMMA DrainedIsDrain ==
  ASSUME NEW s
  PROVE  Drained(s) = Drain(s)[1]
BY DEF Drained, Drain, DrainAt

\* There is no header before the first.
LEMMA FirstHeader ==
  ASSUME NEW s \in Seq(Bytes), NEW p \in 1..(Len(s) + 1), Headers(s, p) # {}
  PROVE  /\ First(Headers(s, p)) \in p..Len(s)
         /\ HeaderAt(s, First(Headers(s, p)))
         /\ \A j \in p..(First(Headers(s, p)) - 1) : ~HeaderAt(s, j)
<1> DEFINE H == Headers(s, p)
<1>1. H \subseteq Nat /\ Len(s) \in Nat
  BY LenProperties DEF Headers
<1>2. \E i \in H : \A j \in H : i <= j
  <2> HIDE DEF H
  <2> QED  BY <1>1, LeastNatural DEF H
<1>3. First(H) \in H /\ \A j \in H : First(H) <= j
  BY <1>2 DEF First
<1>4. First(H) \in p..Len(s) /\ HeaderAt(s, First(H))
  BY <1>3 DEF Headers
<1>5. ASSUME NEW j \in p..(First(H) - 1), HeaderAt(s, j)  PROVE FALSE
  <2>1. j \in p..Len(s) /\ ~ (First(H) <= j)
    BY <1>1, <1>4
  <2>2. j \in H
    BY <1>5, <2>1 DEF Headers
  <2> QED  BY <1>3, <2>1, <2>2
<1> QED  BY <1>4, <1>5

\* Drain at a position that has no header behind it.
LEMMA DrainNone ==
  ASSUME NEW s, NEW p, NEW f, Headers(s, p) = {}
  PROVE  DrainAt(s, p, f) = [out |-> <<>>, rest |-> KeptTail(s, p)]
BY DEF DrainAt, Headers

\* Drain where the frame of the next header is not complete.
LEMMA DrainWaits ==
  ASSUME NEW s, NEW p, NEW f, Headers(s, p) # {}, NEW i, i = First(Headers(s, p)),
         NEW n, n = SizeAt(s, i), i + n - 1 > Len(s)
  PROVE  DrainAt(s, p, f) = [out |-> <<>>, rest |-> SubSeq(s, i, Len(s))]
BY DEF DrainAt, Headers, First

\* Drain where the frame of the next header checks.
LEMMA DrainTakes ==
  ASSUME NEW s, NEW p, NEW f, Headers(s, p) # {}, NEW i, i = First(Headers(s, p)),
         NEW n, n = SizeAt(s, i), ~ (i + n - 1 > Len(s)), Checks(FrameAt(s, i))
  PROVE  DrainAt(s, p, f) = [f[i + n] EXCEPT !.out = <<FrameAt(s, i)>> \o @]
BY DEF DrainAt, Headers, First

\* Drain where it does not.
LEMMA DrainSkips ==
  ASSUME NEW s, NEW p, NEW f, Headers(s, p) # {}, NEW i, i = First(Headers(s, p)),
         NEW n, n = SizeAt(s, i), ~ (i + n - 1 > Len(s)), ~Checks(FrameAt(s, i))
  PROVE  DrainAt(s, p, f) = f[i + 1]
BY DEF DrainAt, Headers, First, AfterBad

\* The loop looks ahead only, ...
LEMMA DrainLooksAhead ==
  ASSUME NEW s \in Seq(Bytes), NEW p \in 1..(Len(s) + 1), NEW f, NEW g,
         \A i \in (p + 1)..(Len(s) + 1) : f[i] = g[i]
  PROVE  DrainAt(s, p, f) = DrainAt(s, p, g)
<1>1. CASE Headers(s, p) = {}
  BY <1>1, DrainNone
<1>2. CASE Headers(s, p) # {}
  <2>1. PICK i : i = First(Headers(s, p))
    OBVIOUS
  <2>2. PICK n : n = SizeAt(s, i)
    OBVIOUS
  <2>3. i \in p..Len(s) /\ Len(s) \in Nat /\ n \in {4, 6}
    BY <1>2, <2>1, <2>2, FirstHeader, LenProperties, SizeType
  <2>4. CASE i + n - 1 > Len(s)
    BY <1>2, <2>1, <2>2, <2>4, DrainWaits
  <2>5. CASE ~ (i + n - 1 > Len(s)) /\ Checks(FrameAt(s, i))
    <3>1. f[i + n] = g[i + n]
      BY <2>3, <2>5
    <3>2. DrainAt(s, p, f) = [f[i + n] EXCEPT !.out = <<FrameAt(s, i)>> \o @]
      BY <1>2, <2>1, <2>2, <2>5, DrainTakes
    <3>3. DrainAt(s, p, g) = [g[i + n] EXCEPT !.out = <<FrameAt(s, i)>> \o @]
      BY <1>2, <2>1, <2>2, <2>5, DrainTakes
    <3> QED  BY <3>1, <3>2, <3>3
  <2>6. CASE ~ (i + n - 1 > Len(s)) /\ ~Checks(FrameAt(s, i))
    <3>1. f[i + 1] = g[i + 1]
      BY <2>3
    <3>2. DrainAt(s, p, f) = f[i + 1]
      BY <1>2, <2>1, <2>2, <2>6, DrainSkips
    <3>3. DrainAt(s, p, g) = g[i + 1]
      BY <1>2, <2>1, <2>2, <2>6, DrainSkips
    <3> QED  BY <3>1, <3>2, <3>3
  <2> QED  BY <2>4, <2>5, <2>6
<1> QED  BY <1>1, <1>2

\* ... so the recursion has a solution.
LEMMA DrainExists ==
  ASSUME NEW s \in Seq(Bytes)
  PROVE  Drain(s) = [p \in 1..(Len(s) + 1) |-> DrainAt(s, p, Drain(s))]
<1> DEFINE L == Len(s)
           Solves(f, k) == f = [p \in (L + 1 - k)..(L + 1) |-> DrainAt(s, p, f)]
           Solved == {k \in Nat : k <= L => \E f : Solves(f, k)}
<1>1. L \in Nat
  BY LenProperties
<1>2. 0 \in Solved
  <2> DEFINE f == [p \in (L + 1 - 0)..(L + 1) |-> DrainAt(s, p, <<>>)]
  <2>1. \A p \in (L + 1 - 0)..(L + 1) : DrainAt(s, p, f) = DrainAt(s, p, <<>>)
    <3> TAKE p \in (L + 1 - 0)..(L + 1)
    <3> HIDE DEF f
    <3>1. p \in 1..(L + 1) /\ \A i \in (p + 1)..(L + 1) : f[i] = <<>>[i]
      BY <1>1
    <3> QED  BY <3>1, DrainLooksAhead
  <2>2. Solves(f, 0)
    BY <2>1
  <2> HIDE DEF f
  <2> QED  BY <2>2
<1>3. ASSUME NEW k \in Nat, k \in Solved  PROVE k + 1 \in Solved
  <2>1. SUFFICES ASSUME k + 1 <= L  PROVE \E f : Solves(f, k + 1)
    OBVIOUS
  <2>2. PICK f : Solves(f, k)
    BY <1>1, <1>3, <2>1
  <2> DEFINE lo == L - k
             g == [p \in lo..(L + 1) |-> IF p = lo THEN DrainAt(s, lo, f) ELSE f[p]]
  <2>3. lo \in 1..L /\ L + 1 - k = lo + 1 /\ L + 1 - (k + 1) = lo
    BY <1>1, <2>1
  <2>4. \A p \in lo..(L + 1) : DrainAt(s, p, g) = DrainAt(s, p, f)
    <3> TAKE p \in lo..(L + 1)
    <3>1. \A i \in (p + 1)..(L + 1) : g[i] = f[i]
      BY <1>1, <2>3
    <3>2. p \in 1..(L + 1)
      BY <1>1, <2>3
    <3> HIDE DEF g
    <3> QED  BY <3>1, <3>2, DrainLooksAhead
  <2>5. \A p \in lo..(L + 1) : g[p] = DrainAt(s, p, f)
    <3> TAKE p \in lo..(L + 1)
    <3>1. CASE p = lo
      BY <3>1
    <3>2. CASE p # lo
      <4>1. p \in (L + 1 - k)..(L + 1)
        BY <1>1, <2>3, <3>2
      <4>2. f[p] = DrainAt(s, p, f)
        BY <2>2, <4>1
      <4> QED  BY <3>2, <4>2
    <3> QED  BY <3>1, <3>2
  <2>6. g = [p \in lo..(L + 1) |-> DrainAt(s, p, g)]
    <3>1. \A p \in lo..(L + 1) : g[p] = DrainAt(s, p, g)
      BY <2>4, <2>5
    <3>2. g = [p \in lo..(L + 1) |-> g[p]]
      OBVIOUS
    <3> HIDE DEF g
    <3> QED  BY <3>1, <3>2
  <2> HIDE DEF g
  <2> QED  BY <2>3, <2>6
<1>4. Nat \subseteq Solved
  <2> HIDE DEF Solved
  <2> QED  BY <1>2, <1>3, AllNaturals
<1>5. PICK f : Solves(f, L)
  BY <1>1, <1>4
<1>6. f = [p \in 1..(L + 1) |-> DrainAt(s, p, f)]
  BY <1>1, <1>5
<1> QED  BY <1>6 DEF Drain

\* One step of Drain.
LEMMA DrainOf ==
  ASSUME NEW s \in Seq(Bytes), NEW p \in 1..(Len(s) + 1)
  PROVE  Drain(s)[p] = DrainAt(s, p, Drain(s))
<1> DEFINE D == Drain(s)
<1>1. D = [k \in 1..(Len(s) + 1) |-> DrainAt(s, k, D)]
  BY DrainExists
<1> HIDE DEF D
<1>2. D[p] = DrainAt(s, p, D)
  BY <1>1
<1> QED  BY <1>2 DEF D

\* Where there is no header there is no frame, whatever comes.
LEMMA SkipToHeader ==
  ASSUME NEW s \in Seq(Bytes), NEW x \in Seq(Bytes), NEW t, t = s \o x,
         NEW p \in 1..(Len(s) + 1), NEW q \in p..(Len(s) + 1), q <= Len(s) - 1 \/ q = p,
         \A j \in p..(q - 1) : ~HeaderAt(s, j)
  PROVE  From(t)[p] = From(t)[q]
<1>1. /\ t \in Seq(Bytes) /\ Len(s) \in Nat /\ Len(x) \in Nat /\ Len(t) = Len(s) + Len(x)
  BY MoreBytes
<1> DEFINE T == {k \in Nat : k <= q - p => From(t)[q - k] = From(t)[q]}
<1>2. 0 \in T
  BY <1>1
<1>3. ASSUME NEW k \in Nat, k \in T  PROVE k + 1 \in T
  <2>1. SUFFICES ASSUME k + 1 <= q - p  PROVE From(t)[q - (k + 1)] = From(t)[q]
    OBVIOUS
  <2> DEFINE j == q - (k + 1)
  <2>2. j \in p..(q - 1) /\ j \in 1..Len(s) /\ j + 2 <= Len(s) /\ j \in 1..Len(t) /\ j + 1 = q - k
        /\ k <= q - p
    BY <1>1, <2>1
  <2> HIDE DEF j
  <2>3. ~IsFrame(t, j)
    BY <2>2, NoHeaderStays
  <2>4. From(t)[j] = From(t)[j + 1]
    BY <1>1, <2>2, <2>3, FromSkip
  <2> QED  BY <1>3, <2>2, <2>4 DEF j
<1>4. Nat \subseteq T
  <2> HIDE DEF T
  <2> QED  BY <1>2, <1>3, AllNaturals
<1>5. q - p \in Nat /\ q - (q - p) = p
  BY <1>1
<1>6. q - p \in T
  BY <1>4, <1>5
<1> QED  BY <1>5, <1>6

\* No frame begins before the first header.
LEMMA FromFirst ==
  ASSUME NEW s \in Seq(Bytes), NEW x \in Seq(Bytes), NEW p \in 1..(Len(s) + 1), Headers(s, p) # {},
         NEW i, i = First(Headers(s, p))
  PROVE  From(s \o x)[p] = From(s \o x)[i]
<1>1. Len(s) \in Nat
  BY LenProperties
<1>2. i \in p..Len(s) /\ HeaderAt(s, i) /\ \A j \in p..(i - 1) : ~HeaderAt(s, j)
  BY FirstHeader
<1>3. PICK t : t = s \o x
  OBVIOUS
<1>4. i \in p..(Len(s) + 1)
  BY <1>1, <1>2
<1>5. i <= Len(s) - 1 \/ i = p
  BY <1>1, <1>2 DEF HeaderAt, TelemetryAt, SettingsAt
<1>6. \A j \in p..(i - 1) : ~HeaderAt(s, j)
  BY <1>2
<1>7. From(t)[p] = From(t)[i]
  BY <1>3, <1>4, <1>5, <1>6, SkipToHeader, Zenon
<1> QED  BY <1>3, <1>7

\* A frame, those returned after it and those of what is kept.
LEMMA Regroup ==
  ASSUME NEW f \in Frame, NEW o \in Seq(Frame), NEW g \in Seq(Frame)
  PROVE  <<f>> \o (o \o g) = (<<f>> \o o) \o g /\ <<f>> \o o \in Seq(Frame)
<1>1. PICK e : e = <<f>>
  OBVIOUS
<1>2. e \in Seq(Frame)
  BY <1>1
<1>3. (e \o o) \o g = e \o (o \o g)
  BY <1>2, ConcatAssociative
<1>4. e \o o \in Seq(Frame)
  BY <1>2, ConcatProperties
<1> QED  BY <1>1, <1>3, <1>4

\* What is kept is less than a frame.
Partial(b) == Len(b) < SettingsSize /\ (Len(b) > Kept => HeaderAt(b, 1) /\ Len(b) < SizeAt(b, 1))

\* What Drain makes of the bytes of s from p on: whatever x comes after them, the frames
\* from p on are those it returns and those of what it keeps.
Splits(s, x, p) ==
  LET d == Drain(s)[p]
  IN  /\ d.out \in Seq(Frame) /\ d.rest \in Seq(Bytes) /\ d = [out |-> d.out, rest |-> d.rest]
      /\ Partial(d.rest)
      /\ From(s \o x)[p] = d.out \o FramesIn(d.rest \o x)

\* The frames from q on are those of the bytes from q on.
LEMMA RestOfBytes ==
  ASSUME NEW s \in Seq(Bytes), NEW x \in Seq(Bytes), NEW q \in 1..(Len(s) + 1),
         NEW r, r = SubSeq(s, q, Len(s))
  PROVE  /\ r \in Seq(Bytes) /\ Len(r) = Len(s) + 1 - q
         /\ From(s \o x)[q] = FramesIn(r \o x)
         /\ FramesIn(r \o x) \in Seq(Frame)
<1> DEFINE t == s \o x
<1>1. /\ t \in Seq(Bytes) /\ Len(s) \in Nat /\ Len(x) \in Nat /\ Len(t) = Len(s) + Len(x)
      /\ \A i \in 1..Len(s) + Len(x) : t[i] = IF i <= Len(s) THEN s[i] ELSE x[i - Len(s)]
  BY MoreBytes, ConcatProperties
<1>2. /\ r \in Seq(Bytes) /\ Len(r) = Len(s) + 1 - q
      /\ \A i \in 1..(Len(s) + 1 - q) : r[i] = s[q + i - 1]
  BY SubSeqType
<1>3. /\ r \o x \in Seq(Bytes) /\ Len(r \o x) = Len(r) + Len(x)
      /\ \A i \in 1..Len(r) + Len(x) : (r \o x)[i] = IF i <= Len(r) THEN r[i] ELSE x[i - Len(r)]
  BY <1>2, ConcatProperties
<1> DEFINE u == SubSeq(t, q, Len(t))
<1> HIDE DEF t
<1>4. q \in 1..(Len(t) + 1)
  BY <1>1
<1>5. /\ u \in Seq(Bytes) /\ Len(u) = Len(t) + 1 - q
      /\ \A i \in 1..(Len(t) + 1 - q) : u[i] = t[q + i - 1]
  BY <1>1, <1>4, SubSeqType
<1> HIDE DEF u
<1>6. \A i \in 1..Len(u) : u[i] = (r \o x)[i]
  <2> TAKE i \in 1..Len(u)
  <2>1. CASE i <= Len(r)
    <3>1. (r \o x)[i] = s[q + i - 1]
      BY <1>1, <1>2, <1>3, <1>5, <2>1
    <3>2. u[i] = s[q + i - 1]
      <4>1. u[i] = t[q + i - 1] /\ q + i - 1 \in 1..Len(s)
        BY <1>1, <1>2, <1>5, <2>1
      <4> DEFINE k == q + i - 1
      <4> HIDE DEF k
      <4>2. k \in 1..Len(s)
        BY <4>1 DEF k
      <4>3. t[k] = s[k]
        BY <4>2, MoreBytes DEF t
      <4> QED  BY <4>1, <4>3 DEF k
    <3> QED  BY <3>1, <3>2
  <2>2. CASE ~ (i <= Len(r))
    <3>1. (r \o x)[i] = x[i - Len(r)]
      BY <1>1, <1>2, <1>3, <1>5, <2>2
    <3>2. u[i] = x[q + i - 1 - Len(s)]
      <4>1. /\ u[i] = t[q + i - 1] /\ q + i - 1 - Len(s) = i - Len(r)
            /\ q + i - 1 \in 1..Len(s) + Len(x) /\ ~ (q + i - 1 <= Len(s))
        BY <1>1, <1>2, <1>5, <2>2
      <4> DEFINE k == q + i - 1
      <4> HIDE DEF k
      <4>2. t[k] = x[k - Len(s)]
        BY <1>1, <4>1 DEF k
      <4>3. u[i] = t[k]
        BY <4>1 DEF k
      <4>4. u[i] = x[k - Len(s)]
        BY <4>2, <4>3
      <4> QED  BY <4>4 DEF k
    <3>3. q + i - 1 - Len(s) = i - Len(r)
      BY <1>1, <1>2
    <3> QED  BY <3>1, <3>2, <3>3
  <2> QED  BY <2>1, <2>2
<1>7. u = r \o x
  <2>1. Len(u) = Len(r \o x)
    BY <1>1, <1>2, <1>3, <1>5
  <2> QED  BY <1>3, <1>5, <1>6, <2>1, SeqEqual
<1>8. From(t)[q] = FramesIn(u)
  BY <1>1, <1>4, FromSuffix DEF u
<1>9. From(t)[q] \in Seq(Frame)
  BY <1>1, <1>4, FromType
<1> QED  BY <1>2, <1>7, <1>8, <1>9 DEF t

\* The three cases of a header: its frame is not complete, ...
LEMMA SplitsWaits ==
  ASSUME NEW s \in Seq(Bytes), NEW x \in Seq(Bytes), NEW p, NEW i \in 1..Len(s), HeaderAt(s, i),
         NEW n, n = SizeAt(s, i), i + n - 1 > Len(s), From(s \o x)[p] = From(s \o x)[i],
         Drain(s)[p] = [out |-> <<>>, rest |-> SubSeq(s, i, Len(s))]
  PROVE  Splits(s, x, p)
<1>1. i \in 1..(Len(s) + 1) /\ Len(s) \in Nat /\ n \in {4, 6}
  BY LenProperties, SizeType
<1>2. PICK r : r = SubSeq(s, i, Len(s))
  OBVIOUS
<1>3. /\ r \in Seq(Bytes) /\ Len(r) = Len(s) + 1 - i
      /\ From(s \o x)[i] = FramesIn(r \o x)
      /\ FramesIn(r \o x) \in Seq(Frame)
  BY <1>1, <1>2, RestOfBytes
<1>4. HeaderAt(r, 1) /\ SizeAt(r, 1) = n
  <2>1. 1 \in 1..Len(r) /\ i + 1 - 1 = i
    BY <1>1, <1>3
  <2>2. /\ HeaderAt(r, 1) <=> HeaderAt(s, i + 1 - 1)
        /\ SizeAt(r, 1) = SizeAt(s, i + 1 - 1)
    BY <1>1, <1>2, <2>1, SuffixFrames
  <2> QED  BY <2>1, <2>2
<1>5. Partial(r)
  BY <1>1, <1>3, <1>4 DEF Partial, SettingsSize
<1>6. <<>> \o FramesIn(r \o x) = FramesIn(r \o x)
  BY <1>3, ConcatEmptySeq
<1>7. PICK d : d = Drain(s)[p]
  OBVIOUS
<1>8. d = [out |-> <<>>, rest |-> r]
  BY <1>2, <1>7
<1>9. d.out = <<>> /\ d.rest = r /\ <<>> \in Seq(Frame)
  BY <1>8, EmptySeq
<1>10. From(s \o x)[p] = d.out \o FramesIn(d.rest \o x)
  BY <1>3, <1>6, <1>9
<1> QED  BY <1>3, <1>5, <1>7, <1>8, <1>9, <1>10 DEF Splits

\* A frame that is complete and checks is one of the stream's.
LEMMA FrameThere ==
  ASSUME NEW s \in Seq(Bytes), NEW x \in Seq(Bytes), NEW i \in 1..Len(s), HeaderAt(s, i),
         i + SizeAt(s, i) - 1 <= Len(s), Checks(FrameAt(s, i))
  PROVE  /\ FrameAt(s, i) \in Frame
         /\ From(s \o x)[i] = <<FrameAt(s, i)>> \o From(s \o x)[i + SizeAt(s, i)]
<1>1. PICK t : t = s \o x
  OBVIOUS
<1>2. /\ t \in Seq(Bytes) /\ Len(s) \in Nat /\ Len(x) \in Nat /\ Len(t) = Len(s) + Len(x)
  BY <1>1, MoreBytes
<1>3. i \in 1..Len(t)
  BY <1>2
<1>4. HeaderAt(t, i) /\ SizeAt(t, i) = SizeAt(s, i)
  BY ZenonT(30), <1>1, HeaderStays
<1>5. IsFrame(t, i) /\ FrameAt(t, i) = FrameAt(s, i)
  BY <1>1, FrameStays
<1>6. From(t)[i] = <<FrameAt(t, i)>> \o From(t)[i + SizeAt(t, i)] /\ FrameAt(t, i) \in Frame
  BY <1>2, <1>3, <1>5, FromFrame
<1> QED  BY <1>1, <1>4, <1>5, <1>6

\* ... its frame checks, ...
LEMMA SplitsTakes ==
  ASSUME NEW s \in Seq(Bytes), NEW x \in Seq(Bytes), NEW p, NEW i \in 1..Len(s), HeaderAt(s, i),
         NEW n, n = SizeAt(s, i), ~ (i + n - 1 > Len(s)), From(s \o x)[p] = From(s \o x)[i],
         NEW f \in Frame, From(s \o x)[i] = <<f>> \o From(s \o x)[i + n], Splits(s, x, i + n),
         Drain(s)[p] = [Drain(s)[i + n] EXCEPT !.out = <<f>> \o @]
  PROVE  Splits(s, x, p)
<1>1. PICK t : t = s \o x
  OBVIOUS
<1>2. /\ t \in Seq(Bytes) /\ Len(s) \in Nat /\ Len(x) \in Nat /\ Len(t) = Len(s) + Len(x)
      /\ n \in {4, 6} /\ i \in 1..Len(t)
  <2>1. /\ t \in Seq(Bytes) /\ Len(s) \in Nat /\ Len(x) \in Nat /\ Len(t) = Len(s) + Len(x)
    BY <1>1, MoreBytes
  <2> QED  BY <2>1, SizeType
<1>3. PICK d : d = Drain(s)[i + n]
  OBVIOUS
<1>4. PICK o : o = d.out
  OBVIOUS
<1>5. PICK r : r = d.rest
  OBVIOUS
<1>6. /\ o \in Seq(Frame) /\ r \in Seq(Bytes) /\ d = [out |-> o, rest |-> r] /\ Partial(r)
      /\ From(t)[i + n] = o \o FramesIn(r \o x)
  BY <1>1, <1>3, <1>4, <1>5 DEF Splits
<1>7. From(t)[i] = <<f>> \o From(t)[i + n]
  BY <1>1
<1>8. PICK g : g = FramesIn(r \o x)
  OBVIOUS
<1>9. g \in Seq(Frame)
  <2>1. r \o x \in Seq(Bytes)
    BY <1>6, MoreBytes
  <2>2. 1 \in 1..(Len(r \o x) + 1)
    BY <2>1, LenProperties
  <2> QED  BY <1>8, <2>1, <2>2, FromType, FramesFrom
<1>10. (<<f>> \o o) \o g = <<f>> \o (o \o g) /\ <<f>> \o o \in Seq(Frame)
  BY SMTT(30), <1>6, <1>9, Regroup
<1>11. Drain(s)[p] = [out |-> <<f>> \o o, rest |-> r]
  <2>1. Drain(s)[p] = [d EXCEPT !.out = <<f>> \o @]
    BY <1>3
  <2> QED  BY <1>6, <2>1
<1>12. From(t)[p] = (<<f>> \o o) \o g
  BY <1>1, <1>6, <1>7, <1>8, <1>10
<1>13. PICK e : e = Drain(s)[p]
  OBVIOUS
<1>14. e = [out |-> <<f>> \o o, rest |-> r]
  BY <1>11, <1>13
<1>15. e.out = <<f>> \o o /\ e.rest = r
  BY <1>14
<1>16. From(s \o x)[p] = e.out \o FramesIn(e.rest \o x)
  BY <1>1, <1>8, <1>12, <1>15
<1> QED  BY <1>6, <1>10, <1>13, <1>14, <1>15, <1>16 DEF Splits

\* ... or it does not, and no frame begins there.
LEMMA FromBad ==
  ASSUME NEW s \in Seq(Bytes), NEW x \in Seq(Bytes), NEW i \in 1..Len(s), HeaderAt(s, i),
         NEW n, n = SizeAt(s, i), ~ (i + n - 1 > Len(s)), ~Checks(FrameAt(s, i))
  PROVE  From(s \o x)[i] = From(s \o x)[i + 1]
<1>1. PICK t : t = s \o x
  OBVIOUS
<1>2. /\ t \in Seq(Bytes) /\ Len(s) \in Nat /\ Len(x) \in Nat /\ Len(t) = Len(s) + Len(x)
  BY <1>1, MoreBytes
<1>3. ~IsFrame(t, i)
  <2>1. i + SizeAt(s, i) - 1 <= Len(s)
    BY <1>2, SizeType
  <2> QED  BY <1>1, <2>1, FrameStays
<1>4. i \in 1..Len(t)
  BY <1>2
<1> QED  BY <1>1, <1>2, <1>3, <1>4, FromSkip

\* Drain splits the bytes from any position on.
LEMMA DrainSplits ==
  ASSUME NEW s \in Seq(Bytes), NEW x \in Seq(Bytes)
  PROVE  \A p \in 1..(Len(s) + 1) : Splits(s, x, p)
<1> DEFINE T == {p \in 1..(Len(s) + 1) : Splits(s, x, p)}
           t == s \o x
<1>1. Len(s) \in Nat
  BY LenProperties
<1>2. ASSUME NEW p \in 1..(Len(s) + 1), Headers(s, p) = {}  PROVE Splits(s, x, p)
  <2> DEFINE q == IF Len(s) - Kept >= p THEN Len(s) - Kept + 1 ELSE p
             r == SubSeq(s, q, Len(s))
  <2>1. q \in p..(Len(s) + 1) /\ (q <= Len(s) - 1 \/ q = p) /\ Len(s) + 1 - q <= 2
        /\ q \in 1..(Len(s) + 1)
    BY <1>1 DEF Kept
  <2>2. Drain(s)[p] = [out |-> <<>>, rest |-> r]
    BY <1>2, DrainOf, DrainNone DEF KeptTail
  <2>3. \A j \in p..(q - 1) : ~HeaderAt(s, j)
    BY <1>1, <1>2, <2>1 DEF Headers
  <2> HIDE DEF q
  <2>4. From(t)[p] = From(t)[q]
    BY ZenonT(30), <2>1, <2>3, SkipToHeader
  <2>5. /\ r \in Seq(Bytes) /\ Len(r) = Len(s) + 1 - q
        /\ From(t)[q] = FramesIn(r \o x)
        /\ FramesIn(r \o x) \in Seq(Frame)
    BY <2>1, RestOfBytes
  <2> HIDE DEF r
  <2>6. Partial(r)
    BY <1>1, <2>1, <2>5 DEF Partial, Kept, SettingsSize
  <2>7. <<>> \o FramesIn(r \o x) = FramesIn(r \o x)
    BY <2>5, ConcatEmptySeq
  <2> QED  BY <2>2, <2>4, <2>5, <2>6, <2>7, EmptySeq DEF Splits
<1>3. Len(s) + 1 \in T
  <2>1. Headers(s, Len(s) + 1) = {} /\ Len(s) + 1 \in 1..(Len(s) + 1)
    BY <1>1 DEF Headers
  <2> QED  BY <1>2, <2>1
<1>4. ASSUME NEW p \in 1..Len(s), \A j \in (p + 1)..(Len(s) + 1) : j \in T
      PROVE  p \in T
  <2>1. p \in 1..(Len(s) + 1)
    BY <1>1
  <2>2. CASE Headers(s, p) = {}
    BY <1>2, <2>1, <2>2
  <2>3. CASE Headers(s, p) # {}
    <3>1. PICK i : i = First(Headers(s, p))
      OBVIOUS
    <3>2. PICK n : n = SizeAt(s, i)
      OBVIOUS
    <3>3. /\ i \in p..Len(s) /\ HeaderAt(s, i) /\ n \in {4, 6}
          /\ \A j \in p..(i - 1) : ~HeaderAt(s, j)
      BY <2>1, <2>3, <3>1, <3>2, FirstHeader, SizeType
    <3>4. i <= Len(s) - 1 /\ i \in p..(Len(s) + 1) /\ i \in 1..Len(s)
      BY <1>1, <3>3 DEF HeaderAt, TelemetryAt, SettingsAt
    <3>5. From(s \o x)[p] = From(s \o x)[i]
      BY <2>1, <2>3, <3>1, FromFirst
    <3>6. Splits(s, x, p)
      <4>1. CASE i + n - 1 > Len(s)
        <5>1. Drain(s)[p] = [out |-> <<>>, rest |-> SubSeq(s, i, Len(s))]
          BY <2>1, <2>3, <3>1, <3>2, <4>1, DrainOf, DrainWaits
        <5> QED  BY <3>2, <3>3, <3>4, <3>5, <4>1, <5>1, SplitsWaits
      <4>2. CASE ~ (i + n - 1 > Len(s)) /\ Checks(FrameAt(s, i))
        <5>1. Drain(s)[p] = [Drain(s)[i + n] EXCEPT !.out = <<FrameAt(s, i)>> \o @]
          <6>1. PICK D : D = Drain(s)
            OBVIOUS
          <6>2. DrainAt(s, p, D) = [D[i + n] EXCEPT !.out = <<FrameAt(s, i)>> \o @]
            BY <2>3, <3>1, <3>2, <4>2, DrainTakes
          <6>3. Drain(s)[p] = DrainAt(s, p, Drain(s))
            BY <2>1, DrainOf
          <6> QED  BY <6>1, <6>2, <6>3
        <5>2. i + n \in (p + 1)..(Len(s) + 1)
          BY <1>1, <3>3, <4>2
        <5>3. Splits(s, x, i + n)
          BY <1>4, <5>2
        <5>4. PICK f : f = FrameAt(s, i)
          OBVIOUS
        <5>5. f \in Frame /\ From(s \o x)[i] = <<f>> \o From(s \o x)[i + n]
          <6>1. i \in 1..Len(s) /\ HeaderAt(s, i) /\ Checks(FrameAt(s, i))
                /\ i + SizeAt(s, i) - 1 <= Len(s)
            BY <1>1, <3>2, <3>3, <3>4, <4>2
          <6>2. FrameAt(s, i) \in Frame
                /\ From(s \o x)[i] = <<FrameAt(s, i)>> \o From(s \o x)[i + SizeAt(s, i)]
            BY <6>1, FrameThere
          <6> QED  BY <3>2, <5>4, <6>2
        <5> QED  BY <3>2, <3>3, <3>4, <3>5, <4>2, <5>1, <5>3, <5>4, <5>5, SplitsTakes
      <4>3. CASE ~ (i + n - 1 > Len(s)) /\ ~Checks(FrameAt(s, i))
        <5>1. Drain(s)[p] = Drain(s)[i + 1]
          BY <2>1, <2>3, <3>1, <3>2, <4>3, DrainOf, DrainSkips
        <5>2. i + 1 \in (p + 1)..(Len(s) + 1)
          BY <1>1, <3>3
        <5>3. Splits(s, x, i + 1)
          BY <1>4, <5>2
        <5>4. From(s \o x)[i] = From(s \o x)[i + 1]
          BY <3>2, <3>3, <3>4, <4>3, FromBad
        <5> QED  BY <3>5, <5>1, <5>3, <5>4 DEF Splits
      <4> QED  BY <4>1, <4>2, <4>3
    <3> QED  BY <2>1, <3>6
  <2> QED  BY <2>2, <2>3
<1>5. 1..(Len(s) + 1) \subseteq T
  <2> HIDE DEF T
  <2> QED  BY <1>1, <1>3, <1>4, Downward
<1> QED  BY <1>5
-----------------------------------------------------------------------------
\* The inductive invariant: whatever bytes come next, what was returned and what the
\* buffer makes of them are the frames of the whole stream.
DecoderInv ==
  /\ DecoderTypeOK /\ frames \in Seq(Frame) /\ Partial(buffer)
  /\ \A x \in Seq(Bytes) : FramesIn(stream \o x) = frames \o FramesIn(buffer \o x)

\* No bytes, no frames.
LEMMA NoFrames == FramesIn(<<>>) = <<>>
<1>1. <<>> \in Seq(Bytes) /\ Len(<<>>) + 1 = 1
  BY EmptySeq
<1>2. From(<<>>)[Len(<<>>) + 1] = <<>>
  BY <1>1, FromEnd
<1> QED  BY <1>1, <1>2, FramesFrom

\* FramesIn gives frames.
LEMMA FramesType ==
  ASSUME NEW s \in Seq(Bytes)
  PROVE  FramesIn(s) \in Seq(Frame)
<1>1. 1 \in 1..(Len(s) + 1)
  BY LenProperties
<1> QED  BY <1>1, FromType, FramesFrom

\* A chunk is a sequence of bytes.
LEMMA ChunkType ==
  ASSUME NEW c \in Chunks
  PROVE  c \in Seq(Bytes)
<1>1. PICK n \in 0..MaxChunk : c \in [1..n -> Bytes]
  BY DEF Chunks
<1>2. n \in Nat
  BY StreamAssumption
<1> QED  BY <1>1, <1>2, SeqDef

\* Whatever x comes after the chunk c, the frames of the buffer b and of all
\* that came are those that d returns and those of what d keeps.
Continues(b, c, d, x) == FramesIn(b \o (c \o x)) = d.out \o FramesIn(d.rest \o x)

\* What FeedAll returns and keeps of a buffer and a chunk.
LEMMA FeedSplits ==
  ASSUME NEW b \in Seq(Bytes), NEW c \in Seq(Bytes), NEW d, d = Drained(b \o c),
         NEW x \in Seq(Bytes)
  PROVE  /\ d.out \in Seq(Frame) /\ d.rest \in Seq(Bytes) /\ Partial(d.rest)
         /\ Continues(b, c, d, x)
<1>1. PICK s : s = b \o c
  OBVIOUS
<1>2. s \in Seq(Bytes)
  BY <1>1, MoreBytes
<1>3. 1 \in 1..(Len(s) + 1)
  BY <1>2, LenProperties
<1>4. d = Drain(s)[1]
  BY <1>1, DrainedIsDrain
<1>5. Splits(s, x, 1)
  BY <1>2, <1>3, DrainSplits
<1>6. d.out \in Seq(Frame) /\ d.rest \in Seq(Bytes) /\ Partial(d.rest)
  BY <1>4, <1>5 DEF Splits
<1>7. From(s \o x)[1] = d.out \o FramesIn(d.rest \o x)
  BY <1>4, <1>5 DEF Splits
<1>8. FramesIn(s \o x) = d.out \o FramesIn(d.rest \o x)
  BY <1>7, FramesFrom
<1>9. s \o x = b \o (c \o x)
  BY <1>1, ConcatAssociative
<1> QED  BY <1>6, <1>8, <1>9 DEF Continues

\* The invariant holds before anything came.
LEMMA DecoderStart ==
  ASSUME DecoderInit
  PROVE  DecoderInv
<1>1. <<>> \in Seq(Bytes) /\ <<>> \in Seq(Frame) /\ Len(<<>>) = 0 /\ DOMAIN <<>> = {}
  BY EmptySeq
<1>2. buffer = <<>> /\ frames = <<>> /\ stream = <<>>
  BY DEF DecoderInit
<1>3. DecoderTypeOK
  BY <1>1, <1>2, StreamAssumption DEF DecoderTypeOK
<1>4. Partial(buffer)
  BY <1>1, <1>2 DEF Partial, SettingsSize, Kept
<1>5. ASSUME NEW x \in Seq(Bytes)  PROVE FramesIn(stream \o x) = frames \o FramesIn(buffer \o x)
  <2>1. <<>> \o x = x
    BY ConcatEmptySeq
  <2>2. FramesIn(x) \in Seq(Frame)
    BY FramesType
  <2>3. <<>> \o FramesIn(x) = FramesIn(x)
    BY <2>2, ConcatEmptySeq
  <2> QED  BY <1>2, <2>1, <2>3
<1> QED  BY <1>1, <1>2, <1>3, <1>4, <1>5 DEF DecoderInv

\* Every chunk keeps it.
LEMMA DecoderStep ==
  ASSUME DecoderInv, DecoderNext
  PROVE  DecoderInv'
<1>1. PICK c \in Chunks : Len(stream \o c) <= MaxLength /\ FeedAll(c)
  BY DEF DecoderNext
<1>2. c \in Seq(Bytes)
  BY <1>1, ChunkType
<1>3. PICK b : b = buffer
  OBVIOUS
<1>4. PICK d : d = Drained(b \o c)
  OBVIOUS
<1>5. buffer' = d.rest /\ frames' = frames \o d.out /\ stream' = stream \o c
  BY <1>1, <1>3, <1>4 DEF FeedAll
<1>6. b \in Seq(Bytes) /\ stream \in Seq(Bytes) /\ frames \in Seq(Frame)
  BY <1>3 DEF DecoderInv, DecoderTypeOK
<1>7. /\ d.out \in Seq(Frame) /\ d.rest \in Seq(Bytes) /\ Partial(d.rest)
      /\ \A x \in Seq(Bytes) : Continues(b, c, d, x)
  <2>1. <<>> \in Seq(Bytes)
    BY EmptySeq
  <2>2. \A x \in Seq(Bytes) :
          /\ d.out \in Seq(Frame) /\ d.rest \in Seq(Bytes) /\ Partial(d.rest)
          /\ Continues(b, c, d, x)
    BY <1>2, <1>4, <1>6, FeedSplits
  <2> QED  BY <2>1, <2>2
<1>8. stream' \in Seq(Bytes) /\ Len(stream') <= MaxLength
  BY <1>1, <1>2, <1>5, <1>6, MoreBytes
<1>9. frames' \in Seq(Frame)
  BY <1>5, <1>6, <1>7, ConcatProperties
<1>10. ASSUME NEW x \in Seq(Bytes)  PROVE FramesIn(stream' \o x) = frames' \o FramesIn(buffer' \o x)
  <2>1. c \o x \in Seq(Bytes)
    BY <1>2, MoreBytes
  <2>2. stream' \o x = stream \o (c \o x)
    <3>1. (stream \o c) \o x = stream \o (c \o x)
      BY SMTT(30), <1>2, <1>6, ConcatAssociative
    <3> QED  BY <1>5, <3>1
  <2>3. FramesIn(stream \o (c \o x)) = frames \o FramesIn(b \o (c \o x))
    BY <1>3, <2>1 DEF DecoderInv
  <2>4. PICK g : g = FramesIn(d.rest \o x)
    OBVIOUS
  <2>5. g \in Seq(Frame)
    <3>1. d.rest \o x \in Seq(Bytes)
      BY <1>7, MoreBytes
    <3> QED  BY <2>4, <3>1, FramesType
  <2>6. PICK o : o = d.out
    OBVIOUS
  <2>7. PICK h : h = frames
    OBVIOUS
  <2>8. h \in Seq(Frame) /\ o \in Seq(Frame)
    BY <1>6, <1>7, <2>6, <2>7
  <2>9. (h \o o) \o g = h \o (o \o g)
    BY <2>5, <2>8, ConcatAssociative
  <2>10. FramesIn(b \o (c \o x)) = o \o g
    BY <1>7, <2>4, <2>6 DEF Continues
  <2>11. FramesIn(stream' \o x) = h \o (o \o g)
    BY <2>2, <2>3, <2>7, <2>10
  <2>12. frames' \o FramesIn(buffer' \o x) = (h \o o) \o g
    BY <1>5, <2>4, <2>6, <2>7
  <2> QED  BY <2>9, <2>11, <2>12
<1>11. DecoderTypeOK'
  <2>1. \A i \in DOMAIN frames' : frames'[i] \in Frame
    BY <1>9, ElementOfSeq, LenProperties
  <2> QED  BY <1>5, <1>7, <1>8, <2>1 DEF DecoderTypeOK, Frame, TelemetrySize, SettingsSize
<1> QED  BY <1>5, <1>7, <1>9, <1>10, <1>11 DEF DecoderInv

\* However the stream is cut into chunks, every frame of it is returned once and in its order,
\* and less than a frame is kept (bms/interpack/stream.go), for any bytes and lengths.
THEOREM DecoderSoundHolds == DecoderSpec => []DecoderSound
<1>1. DecoderInv /\ UNCHANGED decoderVars => DecoderInv'
  BY DEF decoderVars, DecoderInv, DecoderTypeOK, Partial
<1>2. DecoderInv => DecoderSound
  <2> SUFFICES ASSUME DecoderInv  PROVE DecoderSound
    OBVIOUS
  <2>1. <<>> \in Seq(Bytes) /\ buffer \in Seq(Bytes) /\ stream \in Seq(Bytes)
    BY EmptySeq DEF DecoderInv, DecoderTypeOK
  <2>2. buffer \o <<>> = buffer /\ stream \o <<>> = stream
    BY <2>1, ConcatEmptySeq
  <2>3. FramesIn(stream \o <<>>) = frames \o FramesIn(buffer \o <<>>)
    BY <2>1 DEF DecoderInv
  <2>4. NothingLost
    BY <2>2, <2>3 DEF NothingLost
  <2>5. PartialFrameKept
    BY DEF DecoderInv, Partial, PartialFrameKept
  <2> QED  BY <2>4, <2>5 DEF DecoderSound, DecoderInv
<1> QED  BY <1>1, <1>2, DecoderStart, DecoderStep, PTL DEF DecoderSpec
=============================================================================
