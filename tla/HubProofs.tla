------------------------------ MODULE HubProofs ------------------------------
(***************************************************************************)
(* The process around the inverters, and what it shows: the serve process, *)
(* for any number of requests (ServeProcess); the run loop of its hub, for *)
(* any calls and any capacities (HubRequests); what the hub shows and how  *)
(* it is set, for any units, fields, values, subscribers and commands      *)
(* (UnitSnapshots, PackedWrites, SnapshotFanout, MainsToggle).             *)
(***************************************************************************)
EXTENDS ServeProcess, HubRequests, UnitSnapshots, PackedWrites, SnapshotFanout, MainsToggle,
        SequenceTheorems, TLAPS

-----------------------------------------------------------------------------
(***************************************************************************)
(* ServeProcess.                                                           *)
(***************************************************************************)

\* The sessions that the model names are sessions.
LEMMA SessionsTyped == {NoSession, Active, Pending} \subseteq [active : BOOLEAN, recovery : BOOLEAN]
<1>1. NoSession \in [active : BOOLEAN, recovery : BOOLEAN]
  BY DEF NoSession
<1>2. Active \in [active : BOOLEAN, recovery : BOOLEAN]
  BY DEF Active
<1>3. Pending \in [active : BOOLEAN, recovery : BOOLEAN]
  BY DEF Pending
<1> QED
  BY <1>1, <1>2, <1>3

\* Every variable of the process stays in its type.
LEMMA ServeInitTypeOK == ServeInit => ServeTypeOK
<1> SUFFICES ASSUME ServeInit PROVE ServeTypeOK
  OBVIOUS
<1>1. session \in [active : BOOLEAN, recovery : BOOLEAN]
  BY SessionsTyped DEF ServeInit, AtRest
<1>2. NoRequest \in [at : {"none", "new", "busy", "done", "ignored"}, what : {"ON", "OFF"},
                     mqtt : BOOLEAN, retained : BOOLEAN]
  BY DEF NoRequest
<1> QED
  BY <1>1, <1>2 DEF ServeInit, AtRest, ServeTypeOK

LEMMA ServeOutcomes ==
  ASSUME ServeTypeOK
  PROVE  /\ Started \subseteq [active : BOOLEAN, recovery : BOOLEAN]
         /\ Stopped \subseteq [active : BOOLEAN, recovery : BOOLEAN]
         /\ Recovered \subseteq [active : BOOLEAN, recovery : BOOLEAN]
         /\ Ticked \subseteq [active : BOOLEAN, recovery : BOOLEAN]
<1>1. session \in [active : BOOLEAN, recovery : BOOLEAN]
  BY DEF ServeTypeOK
<1>2. session.active \in BOOLEAN
  BY <1>1
<1>3. Recovered \subseteq [active : BOOLEAN, recovery : BOOLEAN]
  BY <1>1, <1>2 DEF Recovered
<1> QED
  BY <1>1, <1>3, SessionsTyped DEF Started, Stopped, Ticked

LEMMA MainTypeOK == ServeTypeOK /\ MainNext => ServeTypeOK'
<1> SUFFICES ASSUME ServeTypeOK, MainNext PROVE ServeTypeOK'
  OBVIOUS
<1> USE ServeAssumption DEF ServeTypeOK, Proceed, Requests
<1>1. CASE InitFails \/ SystemInit \/ TokenComplete \/ Exit
  BY <1>1 DEF InitFails, SystemInit, TokenComplete, Exit
<1>2. CASE RecoverBegins
  BY <1>2 DEF RecoverBegins, Lock
<1>3. CASE RecoverReturns
  BY <1>3, ServeOutcomes DEF RecoverReturns, Operate
<1>4. CASE StartTicks \/ CancelTicks
  BY <1>4 DEF StartTicks, CancelTicks
<1>5. CASE StopBegins
  BY <1>5 DEF StopBegins, StopLocks, Lock
<1>6. CASE StopReturns
  BY <1>6, ServeOutcomes DEF StopReturns, StopOnce, Operate
<1> QED
  BY <1>1, <1>2, <1>3, <1>4, <1>5, <1>6 DEF MainNext

LEMMA RequestTypeOK ==
  ASSUME ServeTypeOK, NEW r \in Requests,
         RequestIgnored(r) \/ RequestBegins(r) \/ RequestReturns(r)
  PROVE  ServeTypeOK'
<1> USE DEF ServeTypeOK
<1>1. CASE RequestIgnored(r)
  BY <1>1 DEF RequestIgnored
<1>2. CASE RequestBegins(r)
  BY <1>2 DEF RequestBegins, Lock
<1>3. CASE RequestReturns(r)
  <2>1. session' \in [active : BOOLEAN, recovery : BOOLEAN]
    BY <1>3, ServeOutcomes DEF RequestReturns, Operate
  <2> QED
    BY <1>3, <2>1 DEF RequestReturns, Operate
<1> QED
  BY <1>1, <1>2, <1>3

LEMMA ArrivalTypeOK ==
  ASSUME ServeTypeOK, NEW what \in {"ON", "OFF"}, NEW mqtt \in BOOLEAN, NEW old \in BOOLEAN,
         Arrives(what, mqtt, old)
  PROVE  ServeTypeOK'
  BY DEF Arrives, ServeTypeOK

LEMMA ServeNextTypeOK == ServeTypeOK /\ [ServeNext]_procVars => ServeTypeOK'
<1> SUFFICES ASSUME ServeTypeOK, [ServeNext]_procVars PROVE ServeTypeOK'
  OBVIOUS
<1>1. CASE Signal \/ BrokerAccepts \/ PublisherFails
  BY <1>1 DEF Signal, BrokerAccepts, PublisherFails, Proceed, ServeTypeOK
<1>2. CASE MainNext
  BY <1>2, MainTypeOK
<1>3. CASE TickLooks
  BY <1>3 DEF TickLooks, ServeTypeOK
<1>4. CASE TickBegins
  BY <1>4 DEF TickBegins, Lock, ServeTypeOK
<1>5. CASE TickReturns
  <2>1. session' \in [active : BOOLEAN, recovery : BOOLEAN]
    BY <1>5, ServeOutcomes DEF TickReturns, Operate
  <2> QED
    BY <1>5, <2>1 DEF TickReturns, Operate, ServeTypeOK
<1>6. CASE \E what \in {"ON", "OFF"} :
             Arrives(what, FALSE, FALSE) \/ \E old \in BOOLEAN : Arrives(what, TRUE, old)
  BY <1>6, ArrivalTypeOK
<1>7. CASE \E r \in Requests : RequestIgnored(r) \/ RequestBegins(r) \/ RequestReturns(r)
  BY <1>7, RequestTypeOK
<1>8. CASE UNCHANGED procVars
  BY <1>8 DEF procVars, ServeTypeOK
<1> QED
  BY <1>1, <1>2, <1>3, <1>4, <1>5, <1>6, <1>7, <1>8 DEF ServeNext

THEOREM ServeTypeCorrect == ServeSpec => []ServeTypeOK
  BY ServeInitTypeOK, ServeNextTypeOK, PTL DEF ServeSpec

\* Before the hub runs, nothing a request does makes a session active.
NoneBefore == phase = "starting" => ~session.active

LEMMA ServeNextNoneBefore == ServeTypeOK /\ NoneBefore /\ [ServeNext]_procVars => NoneBefore'
<1> SUFFICES ASSUME ServeTypeOK, NoneBefore, [ServeNext]_procVars, phase' = "starting"
             PROVE  ~session'.active
  BY DEF NoneBefore
<1>1. phase = "starting" /\ ~session.active
  <2>1. phase = "starting"
    BY DEF ServeNext, procVars, Signal, BrokerAccepts, PublisherFails, MainNext, Proceed,
           InitFails, SystemInit, RecoverBegins, RecoverReturns, StartTicks, TokenComplete, CancelTicks, StopBegins,
           StopLocks, StopReturns, StopOnce, Exit, TickLooks, TickBegins, TickReturns, Arrives,
           RequestIgnored, RequestBegins, RequestReturns
  <2> QED
    BY <2>1 DEF NoneBefore
<1>2. CASE MainNext
  BY <1>1, <1>2
  DEF MainNext, Proceed, InitFails, SystemInit, RecoverBegins, RecoverReturns, StartTicks,
      TokenComplete, CancelTicks, StopBegins, StopReturns, Exit
<1>3. CASE TickReturns
  BY <1>1, <1>3 DEF TickReturns, Operate, Ticked, Recovered, ServeTypeOK
<1>4. ASSUME NEW r \in Requests, RequestReturns(r) PROVE ~session'.active
  BY <1>1, <1>4 DEF RequestReturns, Operate, HubRuns
<1>5. CASE session' = session
  BY <1>1, <1>5
<1> QED
  BY <1>2, <1>3, <1>4, <1>5
  DEF ServeNext, procVars, Signal, BrokerAccepts, PublisherFails, TickLooks, TickBegins, Arrives,
      RequestIgnored, RequestBegins

LEMMA NobodyLeft ==
  ASSUME ServeTypeOK, NoneBefore, [ServeNext]_procVars,
         phase' \in Ending, phase \notin Ending, ~PublisherFails
  PROVE  ~session'.active /\ (phase' = "stopping" => opMu' = Unlocked)
<1>1. CASE InitFails
  BY <1>1 DEF InitFails, Proceed, NoneBefore
<1>2. CASE StopReturns
  BY <1>2 DEF StopReturns, StopOnce, Operate, Stopped, NoSession, Pending
<1>3. InitFails \/ StopReturns
  BY DEF ServeNext, procVars, Signal, BrokerAccepts, MainNext, Proceed, SystemInit,
         RecoverBegins, RecoverReturns, StartTicks, TokenComplete, CancelTicks, StopBegins,
         StopLocks, Exit, TickLooks, TickBegins, TickReturns, Arrives,
         RequestIgnored, RequestBegins, RequestReturns, Ending
<1> QED
  BY <1>1, <1>2, <1>3

\* When main comes to its end otherwise than by an error of NewMQTTPublisher, no session is
\* active when it has seen to it, and nobody is at work on one (serve.go:179-192).
THEOREM ServeExitRestores == ServeSpec => ExitRestores
<1>1. ServeInit => NoneBefore
  BY DEF ServeInit, AtRest, NoneBefore, NoSession, Pending
<1>2. ServeTypeOK /\ NoneBefore /\ [ServeNext]_procVars
        => [phase' \in Ending /\ phase \notin Ending /\ ~PublisherFails
              => ~session'.active /\ (phase' = "stopping" => opMu' = Unlocked)]_procVars
  BY NobodyLeft
<1> QED
  BY <1>1, <1>2, ServeTypeCorrect, ServeNextNoneBefore, PTL DEF ServeSpec, ExitRestores
-----------------------------------------------------------------------------
(***************************************************************************)
(* HubRequests.  A call is in one place only: with its caller, in its      *)
(* queue, with the run loop, or answered in its box.  Placed says so, and  *)
(* what each place means for the number of times the call has been run;    *)
(* the properties follow from it.                                          *)
(***************************************************************************)

Elements(q) == {q[i] : i \in 1..Len(q)}

Distinct(q) == \A i, j \in 1..Len(q) : q[i] = q[j] => i = j

\* What a queue holds after its head is taken.
LEMMA TakenFromQueue ==
  ASSUME NEW S, NEW q \in Seq(S), q # <<>>, Distinct(q)
  PROVE  /\ Head(q) \in S /\ Head(q) \in Elements(q)
         /\ Tail(q) \in Seq(S) /\ Len(Tail(q)) = Len(q) - 1 /\ Distinct(Tail(q))
         /\ Elements(Tail(q)) \subseteq Elements(q)
         /\ Head(q) \notin Elements(Tail(q))
<1>1. Len(q) \in Nat /\ Len(q) > 0
  OBVIOUS
<1>2. Tail(q) \in Seq(S) /\ Len(Tail(q)) = Len(q) - 1 /\ Head(q) = q[1] /\ Head(q) \in S
  BY <1>1
<1>3. \A i \in 1..(Len(q) - 1) : Tail(q)[i] = q[i + 1]
  BY <1>1
<1> QED
  BY <1>1, <1>2, <1>3 DEF Elements, Distinct

\* What a queue holds after a call is put at its end.
LEMMA PutInQueue ==
  ASSUME NEW S, NEW q \in Seq(S), NEW c \in S, c \notin Elements(q), Distinct(q)
  PROVE  /\ Append(q, c) \in Seq(S) /\ Len(Append(q, c)) = Len(q) + 1
         /\ Distinct(Append(q, c))
         /\ Elements(Append(q, c)) = Elements(q) \cup {c}
<1>1. Append(q, c) \in Seq(S) /\ Len(Append(q, c)) = Len(q) + 1 /\ Len(q) \in Nat
  OBVIOUS
<1>2. /\ \A i \in 1..Len(q) : Append(q, c)[i] = q[i]
      /\ Append(q, c)[Len(q) + 1] = c
  OBVIOUS
<1>3. 1..(Len(q) + 1) = 1..Len(q) \cup {Len(q) + 1}
  BY <1>1
<1>4. Elements(Append(q, c)) = Elements(q) \cup {c}
  BY <1>1, <1>2, <1>3 DEF Elements
<1>5. Distinct(Append(q, c))
  BY <1>1, <1>2, <1>3 DEF Elements, Distinct
<1> QED
  BY <1>1, <1>4, <1>5

-----------------------------------------------------------------------------
Queued == Elements(writeCh) \cup Elements(conditioningCh)

Queues ==
  /\ Elements(writeCh) \subseteq Writes /\ Distinct(writeCh)
  /\ Elements(conditioningCh) \subseteq Callbacks /\ Distinct(conditioningCh)

\* A call that is queued or about to be claimed has not been run.
Waiting(c) ==
  /\ at[c] \in {"wait", "done"} /\ box[c] = "none" /\ ran[c] = 0
  /\ at[c] = "done" => answer[c] = "late"

Placed ==
  /\ \A c \in Calls : at[c] \in {"ready", "send"} =>
       c \notin Queued /\ serving # c /\ box[c] = "none" /\ ran[c] = 0
  /\ \A c \in Queued : Waiting(c) /\ serving # c

Loop ==
  /\ loop \notin {"claim", "checked", "work"} => serving = NoCall
  /\ loop = "claim" =>
       serving \in Callbacks /\ Waiting(serving) /\ (at[serving] = "wait" => reserved)
  /\ loop = "checked" => serving \in Writes /\ Waiting(serving)
  /\ loop = "work" =>
       /\ serving \in Calls /\ box[serving] = "none" /\ ran[serving] = 1
       /\ serving \in Writes => at[serving] \in {"wait", "done"}
       /\ serving \in Callbacks => at[serving] = "held" /\ reserved

Answered ==
  \A c \in Calls :
    /\ at[c] # "done" => answer[c] = "none"
    /\ at[c] = "held" => c \in Callbacks
    /\ at[c] = "wait" /\ c \in Callbacks => ran[c] = 0
    /\ ran[c] <= 1
    /\ box[c] = "ok" => ran[c] = 1
    /\ answer[c] = "ok" => ran[c] = 1
    /\ answer[c] = "late" /\ c \in Callbacks => ran[c] = 0

RequestInv == RequestsTypeOK /\ Queues /\ Placed /\ Loop /\ Answered /\ CallbacksUndisturbed

LEMMA RequestInvInit == RequestsInit => RequestInv
<1> SUFFICES ASSUME RequestsInit PROVE RequestInv
  OBVIOUS
<1>1. /\ writeCh \in Seq(Writes) /\ conditioningCh \in Seq(Callbacks)
      /\ Len(writeCh) = 0 /\ Len(conditioningCh) = 0
  BY DEF RequestsInit
<1>2. Elements(writeCh) = {} /\ Elements(conditioningCh) = {}
      /\ Distinct(writeCh) /\ Distinct(conditioningCh)
  BY <1>1 DEF Elements, Distinct
<1>3. RequestsTypeOK
  <2>1. 0 <= WriteCap /\ 0 <= CallbackCap
    BY CallsAssumption
  <2>2. /\ stopping \in BOOLEAN /\ reserved \in BOOLEAN /\ entered \in BOOLEAN
        /\ expired \in [Calls -> BOOLEAN]
    BY Zenon DEF RequestsInit
  <2>3. /\ at \in [Calls -> {"ready", "send", "wait", "held", "done"}]
        /\ box \in [Calls -> Answers \ {"late"}] /\ answer \in [Calls -> Answers]
        /\ ran \in [Calls -> Nat]
    BY DEF RequestsInit, Answers
  <2> QED
    BY <1>1, <2>1, <2>2, <2>3 DEF RequestsInit, RequestsTypeOK
<1>4. Queues /\ Placed
  BY <1>2, CallsAssumption DEF RequestsInit, Queues, Queued, Placed
<1>5. Loop /\ Answered /\ CallbacksUndisturbed
  BY DEF RequestsInit, Loop, Answered, CallbacksUndisturbed
<1> QED
  BY <1>3, <1>4, <1>5 DEF RequestInv

-----------------------------------------------------------------------------
\* The reservation changes only while no callback's caller is inside its call,
\* and the loop's own steps move no call.
LEMMA LoopKeeps ==
  ASSUME RequestInv, Reserve \/ Release \/ Cancel \/ Run \/ Tick \/ Polled \/ Quit
  PROVE  RequestInv'
<1>1. UNCHANGED <<at, expired, answer, box, writeCh, conditioningCh, serving, ran>>
  BY DEF Reserve, Release, Cancel, Run, Tick, Polled, Quit, caller, queues
<1>2. \/ loop' = loop
      \/ loop \notin {"claim", "checked", "work"} /\ loop' \in {"poll", "select", "stopped"}
  BY DEF Reserve, Release, Cancel, Run, Tick, Polled, Quit
<1>3. RequestsTypeOK'
  <2>1. stopping' \in BOOLEAN /\ reserved' \in BOOLEAN /\ entered' \in BOOLEAN
    BY Zenon DEF RequestInv, RequestsTypeOK, Reserve, Release, Cancel, Run, Tick, Polled, Quit
  <2> QED
    BY <1>1, <1>2, <2>1 DEF RequestInv, RequestsTypeOK
<1>4. Queues' /\ Placed' /\ Answered'
  BY <1>1 DEF RequestInv, Queues, Queued, Placed, Waiting, Answered, Elements, Distinct
<1>5. loop \in {"claim", "work"} /\ serving \in Callbacks /\ at[serving] \in {"wait", "held"}
      => (reserved <=> reserved')
  BY DEF RequestInv, Loop, Reserve, Release, InCallback, Cancel, Run, Tick, Polled, Quit
<1>6. Loop'
  BY <1>1, <1>2, <1>5 DEF RequestInv, Loop, Waiting
<1>7. CallbacksUndisturbed'
  <2>1. \/ reserved' = reserved /\ entered' = entered
        \/ entered' = FALSE
    BY DEF Reserve, Release, Cancel, Run, Tick, Polled, Quit
  <2> QED
    BY <1>1, <1>2, <2>1 DEF RequestInv, CallbacksUndisturbed
<1> QED
  BY <1>3, <1>4, <1>6, <1>7 DEF RequestInv

\* Callers move themselves only.
LEMMA CallerKeeps ==
  ASSUME RequestInv, NEW c \in Calls, BeginCall(c) \/ Expire(c) \/ GiveUp(c) \/ ReceiveAnswer(c)
  PROVE  RequestInv'
<1> USE CallsAssumption DEF RequestInv, RequestsTypeOK, Queues, Queued, Placed, Waiting, Loop,
     Answered, Answers, CallbacksUndisturbed, caller, queues, Calls
<1>1. CASE BeginCall(c)
  BY <1>1 DEF BeginCall
<1>2. CASE Expire(c)
  BY <1>2 DEF Expire
<1>3. CASE GiveUp(c)
  BY <1>3 DEF GiveUp, ReturnWith
<1>4. CASE ReceiveAnswer(c)
  BY <1>4 DEF ReceiveAnswer, ReturnWith
<1> QED
  BY <1>1, <1>2, <1>3, <1>4

\* A call enters its queue as its caller begins to wait.
LEMMA EnqueueKeeps ==
  ASSUME RequestInv, NEW c \in Calls, Enqueue(c)
  PROVE  RequestInv'
<1> USE CallsAssumption DEF RequestInv, RequestsTypeOK, Placed, Calls, Enqueue
<1>1. c \notin Queued /\ serving # c /\ box[c] = "none" /\ ran[c] = 0 /\ at[c] = "send"
  OBVIOUS
<1>2. /\ at' = [at EXCEPT ![c] = "wait"]
      /\ UNCHANGED <<expired, answer, box, loop, serving, stopping, reserved, ran, entered>>
  OBVIOUS
<1>3. /\ writeCh' \in Seq(Writes) /\ Len(writeCh') <= WriteCap
      /\ conditioningCh' \in Seq(Callbacks) /\ Len(conditioningCh') <= CallbackCap
      /\ Queues' /\ Queued' = Queued \cup {c}
  <2>1. CASE c \in Writes /\ Len(writeCh) < WriteCap
             /\ writeCh' = Append(writeCh, c) /\ UNCHANGED conditioningCh
    <3>1. c \notin Elements(writeCh)
      BY <1>1 DEF Queued
    <3> QED
      BY <2>1, <3>1, PutInQueue DEF Queues, Queued
  <2>2. CASE c \in Callbacks /\ Len(conditioningCh) < CallbackCap
             /\ conditioningCh' = Append(conditioningCh, c) /\ UNCHANGED writeCh
    <3>1. c \notin Elements(conditioningCh)
      BY <1>1 DEF Queued
    <3> QED
      BY <2>2, <3>1, PutInQueue DEF Queues, Queued
  <2> QED
    BY <2>1, <2>2
<1>4. RequestsTypeOK' /\ Loop' /\ Answered' /\ CallbacksUndisturbed'
  BY <1>1, <1>2, <1>3 DEF Loop, Waiting, Answered, Answers, CallbacksUndisturbed
<1>5. Placed'
  BY <1>1, <1>2, <1>3 DEF Waiting
<1> QED
  BY <1>3, <1>4, <1>5

\* The run loop takes a write off its queue: it answers it or goes on to its work,
\* and does so only while the reservation is not held.
LEMMA TakeWriteKeeps ==
  ASSUME RequestInv, TakeWrite
  PROVE  RequestInv'
<1> USE CallsAssumption DEF RequestInv, RequestsTypeOK, Calls, TakeWrite
<1> DEFINE c == Head(writeCh)
<1>1. /\ c \in Writes /\ c \in Queued /\ Waiting(c)
      /\ writeCh' \in Seq(Writes) /\ Len(writeCh') <= WriteCap
      /\ UNCHANGED conditioningCh /\ Queues'
      /\ Queued' \subseteq Queued /\ c \notin Queued'
  BY SMTT(30), TakenFromQueue DEF Queues, Queued, Placed
<1>2. UNCHANGED <<at, expired, answer, stopping, reserved, ran, entered>> /\ serving = NoCall
      /\ loop = "select"
  BY DEF caller, Loop
<1>3. CASE box' = [box EXCEPT ![c] = "error"] /\ UNCHANGED <<loop, serving>>
  BY <1>1, <1>2, <1>3 DEF Placed, Waiting, Loop, Answered, Answers, CallbacksUndisturbed
<1>4. CASE ~reserved /\ loop' = "checked" /\ serving' = c /\ UNCHANGED box
  BY <1>1, <1>2, <1>4 DEF Placed, Waiting, Loop, Answered, CallbacksUndisturbed
<1> QED
  BY <1>3, <1>4 DEF Reply, Check

\* The run loop takes a callback off its queue: it answers it or offers to claim it.
LEMMA TakeCallbackKeeps ==
  ASSUME RequestInv, TakeCallback
  PROVE  RequestInv'
<1> USE CallsAssumption DEF RequestInv, RequestsTypeOK, Calls, TakeCallback
<1> DEFINE c == Head(conditioningCh)
<1>1. /\ c \in Callbacks /\ c \in Queued /\ Waiting(c)
      /\ conditioningCh' \in Seq(Callbacks) /\ Len(conditioningCh') <= CallbackCap
      /\ UNCHANGED writeCh /\ Queues'
      /\ Queued' \subseteq Queued /\ c \notin Queued'
  BY TakenFromQueue DEF Queues, Queued, Placed
<1>2. UNCHANGED <<at, expired, answer, stopping, reserved, ran, entered>> /\ serving = NoCall
      /\ loop = "select"
  BY DEF caller, Loop
<1>3. CASE box' = [box EXCEPT ![c] = "error"] /\ UNCHANGED <<loop, serving>>
  BY <1>1, <1>2, <1>3 DEF Placed, Waiting, Loop, Answered, Answers, CallbacksUndisturbed
<1>4. CASE loop' = "claim" /\ serving' = c /\ UNCHANGED box
  BY <1>1, <1>2, <1>4 DEF Placed, Waiting, Loop, Answered, CallbacksUndisturbed
<1> QED
  BY <1>3, <1>4 DEF Reply

\* The run loop performs its write, claims its callback, gives it up, or answers
\* what it has done.
LEMMA ServingKeeps ==
  ASSUME RequestInv, PerformWrite \/ Claim \/ Discard \/ Finish
  PROVE  RequestInv'
<1> USE CallsAssumption DEF RequestInv, RequestsTypeOK, Queues, Queued, Placed, Waiting, Loop,
     Answered, Answers, CallbacksUndisturbed, Calls, caller, queues
<1>1. CASE Claim
  <2>1. /\ serving \in Callbacks /\ at[serving] = "wait" /\ loop = "claim" /\ loop' = "work"
        /\ box[serving] = "none" /\ ran[serving] = 0 /\ serving' = serving
        /\ at' = [at EXCEPT ![serving] = "held"]
        /\ ran' = [ran EXCEPT ![serving] = 1]
        /\ entered' = TRUE
        /\ UNCHANGED <<expired, answer, box, writeCh, conditioningCh, stopping, reserved>>
    BY <1>1 DEF Claim, Start
  <2>2. reserved
    BY <2>1
  <2> QED
    BY <2>1, <2>2
<1>2. CASE Discard
  BY <1>2 DEF Discard, Reply
<1>3. CASE Finish
  BY <1>3 DEF Finish, Reply
<1>4. CASE PerformWrite
  <2>1. /\ serving \in Writes /\ serving \in Calls /\ box[serving] = "none" /\ ran[serving] = 0
        /\ at[serving] \in {"wait", "done"} /\ loop = "checked" /\ loop' = "work"
        /\ serving' = serving /\ ran' = [ran EXCEPT ![serving] = 1]
        /\ at[serving] = "done" => answer[serving] = "late"
        /\ UNCHANGED <<at, expired, answer, box, writeCh, conditioningCh, stopping, reserved,
                       entered>>
    BY <1>4 DEF PerformWrite, Start
  <2> QED
    BY <2>1
<1> QED
  BY <1>1, <1>2, <1>3, <1>4

LEMMA RequestInvInductive == RequestInv /\ [RequestsNext]_hubVars => RequestInv'
<1> SUFFICES ASSUME RequestInv, [RequestsNext]_hubVars PROVE RequestInv'
  OBVIOUS
<1>1. CASE UNCHANGED hubVars
  BY <1>1 DEF hubVars, caller, queues, RequestInv, RequestsTypeOK, Queues, Queued, Placed, Waiting,
     Loop, Answered, CallbacksUndisturbed, Elements, Distinct
<1>2. CASE RequestsNext
  <2>1. CASE \E c \in Calls : BeginCall(c) \/ Expire(c) \/ GiveUp(c) \/ ReceiveAnswer(c)
    BY <2>1, CallerKeeps
  <2>2. CASE \E c \in Calls : Enqueue(c)
    BY <2>2, EnqueueKeeps
  <2> QED
    BY <1>2, <2>1, <2>2, LoopKeeps, TakeWriteKeeps, TakeCallbackKeeps, ServingKeeps DEF RequestsNext
<1> QED
  BY <1>1, <1>2

LEMMA RequestInvHolds == RequestsSpec => []RequestInv
BY RequestInvInit, RequestInvInductive, PTL DEF RequestsSpec

-----------------------------------------------------------------------------
\* Queues never overflow and hold calls of their own kind, callers and run loop
\* are always where the code can stand (hub.go:122-143, 227-244, 263-371).
THEOREM HubTypeCorrect == RequestsSpec => []RequestsTypeOK
<1>1. RequestInv => RequestsTypeOK
  BY DEF RequestInv
<1> QED
  BY <1>1, RequestInvHolds, PTL

\* While a callback runs, its caller is waiting for it and its reservation is
\* held, whatever contexts expired on the way (hub.go:122-143, 294-325).
THEOREM CallbackIsAwaitedHolds == RequestsSpec => []CallbackIsAwaited
<1>1. RequestInv => CallbackIsAwaited
  BY CallsAssumption DEF RequestInv, Loop, CallbackIsAwaited, Working, Calls
<1> QED
  BY <1>1, RequestInvHolds, PTL

\* What a call returned is true of what the hub did for it: "ok" after exactly
\* one execution, and a conditioning call given up is never executed.
THEOREM AnswersAreTrueHolds == RequestsSpec => []AnswersAreTrue
<1>1. RequestInv => AnswersAreTrue
  BY DEF RequestInv, Answered, AnswersAreTrue
<1> QED
  BY <1>1, RequestInvHolds, PTL

\* From the first callback of a reservation to its release no owner's write is
\* performed or about to be, although the reservation may be made between a
\* write's look at it and the write (hub.go:96-107, 117-121, 341-359).
THEOREM CallbacksUndisturbedHolds == RequestsSpec => []CallbacksUndisturbed
<1>1. RequestInv => CallbacksUndisturbed
  BY DEF RequestInv
<1> QED
  BY <1>1, RequestInvHolds, PTL

-----------------------------------------------------------------------------
(***************************************************************************)
(* UnitSnapshots.  What ties the flag of a unit to the age of its data is  *)
(* that failCount is that age, which a poll keeps and nothing else touches.*)
(***************************************************************************)

\* The failures counted are the polls since the reading that is shown.
CountIsAge == \A u \in Units : age[u] # Never => failCount[u] = age[u]

FlagsFollow ==
  latest # <<>> => \A u \in Units : latest[u] <=> failCount[u] = MaxStaleSnapshots

SnapshotInv == TypeOK /\ CountIsAge /\ FlagsFollow

LEMMA SnapshotInvInit == Init => SnapshotInv
  BY SnapshotAssumption DEF Init, SnapshotInv, TypeOK, CountIsAge, FlagsFollow, Never, Units

\* Only a poll changes counts, ages and flags, for each unit by itself.
LEMMA PollKeeps == SnapshotInv /\ Poll => SnapshotInv'
<1> SUFFICES ASSUME SnapshotInv, Poll PROVE SnapshotInv'
  OBVIOUS
<1> USE SnapshotAssumption DEF SnapshotInv, TypeOK, Never
<1>1. PICK good \in [Units -> BOOLEAN] :
        /\ failCount' = [u \in Units |-> Counted(u, good[u])]
        /\ age' = [u \in Units |-> Older(age[u], good[u])]
        /\ latest' = [u \in Units |-> Shown(u, good[u])]
        /\ UNCHANGED <<up, stored, settings, outages>>
  BY DEF Poll
<1>2. ASSUME NEW u \in Units
      PROVE  /\ Counted(u, good[u]) \in 0..MaxStaleSnapshots
             /\ Older(age[u], good[u]) \in 0..MaxStaleSnapshots \cup {Never}
             /\ Older(age[u], good[u]) # Never => Counted(u, good[u]) = Older(age[u], good[u])
             /\ good[u] => Counted(u, good[u]) = 0 /\ Older(age[u], good[u]) = 0
  BY DEF Counted, Older, CountIsAge
<1>3. /\ failCount' \in [Units -> 0..MaxStaleSnapshots]
      /\ age' \in [Units -> 0..MaxStaleSnapshots \cup {Never}]
      /\ CountIsAge'
  BY <1>1, <1>2 DEF CountIsAge
<1>4. latest' \in [Units -> BOOLEAN]
  <2>1. ASSUME NEW u \in Units PROVE Shown(u, good[u]) \in BOOLEAN
    BY <1>1 DEF Shown
  <2> QED
    BY <1>1, <2>1
<1>5. ASSUME NEW u \in Units
      PROVE  latest'[u] <=> failCount'[u] = MaxStaleSnapshots
  <2>1. latest'[u] = (~good[u] /\ failCount'[u] >= MaxStaleSnapshots)
    BY <1>1 DEF Shown
  <2>2. failCount'[u] >= MaxStaleSnapshots <=> failCount'[u] = MaxStaleSnapshots
    BY <1>3
  <2>3. good[u] => failCount'[u] # MaxStaleSnapshots
    BY <1>1, <1>2
  <2> QED
    BY <2>1, <2>2, <2>3, Zenon
<1> QED
  BY <1>1, <1>3, <1>4, <1>5 DEF FlagsFollow

LEMMA SnapshotInvInductive == SnapshotInv /\ [Next]_vars => SnapshotInv'
<1> SUFFICES ASSUME SnapshotInv, [Next]_vars PROVE SnapshotInv'
  OBVIOUS
<1>1. CASE Poll
  BY <1>1, PollKeeps
<1>2. CASE UNCHANGED vars
  BY <1>2 DEF vars, SnapshotInv, TypeOK, CountIsAge, FlagsFollow
<1> USE SnapshotAssumption DEF SnapshotInv, TypeOK, CountIsAge, FlagsFollow, Never, Units
<1>3. CASE Refresh
  BY <1>3 DEF Refresh
<1>4. CASE Write \/ WriteFails
  BY <1>4 DEF Write, WriteFails
<1>5. CASE Disappear
  BY <1>5 DEF Disappear
<1>6. CASE Return
  BY <1>6 DEF Return
<1> QED
  BY <1>1, <1>2, <1>3, <1>4, <1>5, <1>6 DEF Next

LEMMA SnapshotInvariant == Spec => []SnapshotInv
  BY SnapshotInvInit, SnapshotInvInductive, PTL DEF Spec

\* The variables of the snapshots have their types.
THEOREM SnapshotTypeCorrect == Spec => []TypeOK
<1>1. SnapshotInv => TypeOK
  BY DEF SnapshotInv
<1> QED
  BY <1>1, SnapshotInvariant, PTL

\* Of a unit once read, Stale says exactly that MaxStaleSnapshots polls or more
\* have failed since (inverter/system.go:127-147).
THEOREM StaleWhenOldHolds == Spec => []StaleWhenOld
<1>1. SnapshotInv => StaleWhenOld
  BY DEF SnapshotInv, CountIsAge, FlagsFollow, StaleWhenOld, Known
<1> QED
  BY <1>1, SnapshotInvariant, PTL

-----------------------------------------------------------------------------
(***************************************************************************)
(* PackedWrites.  A write preserves the other fields because the command   *)
(* merged from what the master holds (MergedFromMaster), which it did      *)
(* because the cache is coherent but for what is unheard.  A success leaves*)
(* all units alike because the units before the current one have been      *)
(* written (WrittenSoFar).                                                 *)
(***************************************************************************)

WrittenSoFar ==
  op.on = "write" /\ op.alone => \A u \in 1..NumUnits : u < op.unit => reg[u] = op.raw

MergedFromMaster ==
  op.on = "write" /\ op.unit = 1 /\ op.sure => \A f \in PackedFields : f # op.field => op.raw[f] = reg[1][f]

WriteInv == PackedTypeOK /\ WrittenSoFar

CacheInv == CacheCoherent /\ MergedFromMaster

\* What a command writes is a value of the register.
LEMMA MergedIsPacked ==
  ASSUME NEW p \in Packed, NEW f \in PackedFields, NEW v \in FieldValues
  PROVE  /\ Merged(p, f, v) \in Packed
         /\ \A g \in PackedFields : g # f => Merged(p, f, v)[g] = p[g]
  BY DEF Merged, Packed

\* The variables have their types, and the units before a command's current one
\* carry its value (inverter/system.go:181-189).
LEMMA WriteInvInductive == WriteInv /\ [PackedNext]_packedVars => WriteInv'
<1> SUFFICES ASSUME WriteInv, [PackedNext]_packedVars PROVE WriteInv'
  OBVIOUS
<1> USE PackedAssumption, NoValueAssumption DEF WriteInv, PackedTypeOK, WrittenSoFar, Idle, Command
<1>1. CASE UNCHANGED packedVars
  BY <1>1 DEF packedVars
<1>2. ASSUME NEW f \in PackedFields, NEW v \in FieldValues, BeginPacked(f, v) PROVE WriteInv'
  <2> DEFINE current == IF cache # NoValue THEN cache ELSE reg[1]
  <2>1. current \in Packed
    OBVIOUS
  <2>2. Merged(current, f, v) \in Packed
    BY <2>1, MergedIsPacked
  <2>3. op' = [on |-> "write", field |-> f, raw |-> Merged(current, f, v), unit |-> 1,
                sure |-> ~unheard, alone |-> TRUE]
        /\ cache' = current /\ reg' = reg /\ unheard' = unheard
    BY <1>2 DEF BeginPacked
  <2> HIDE DEF current
  <2> QED
    BY <2>1, <2>2, <2>3
<1>3. CASE WriteUnit
  <2>1. op \in Command /\ reg' = [reg EXCEPT ![op.unit] = op.raw]
    BY <1>3 DEF WriteUnit
  <2>2. /\ reg' \in [1..NumUnits -> Packed]
        /\ op.alone => \A u \in 1..NumUnits : u < op.unit + 1 => reg'[u] = op.raw
    <3>1. PICK k \in 1..NumUnits, raw \in Packed : k = op.unit /\ raw = op.raw
      BY <2>1
    <3>2. reg' = [reg EXCEPT ![k] = raw]
      BY <2>1, <3>1
    <3>3. reg' \in [1..NumUnits -> Packed]
      BY <3>2
    <3>4. \A u \in 1..NumUnits : reg'[u] = IF u = k THEN raw ELSE reg[u]
      BY <3>2
    <3>5. op.alone => \A u \in 1..NumUnits : u < k => reg[u] = raw
      BY <1>3, <3>1 DEF WriteUnit
    <3> QED
      BY <3>1, <3>3, <3>4, <3>5
  <2>3. cache' \in Packed \cup {NoValue} /\ unheard' \in BOOLEAN
    BY <1>3 DEF WriteUnit, Invalidated
  <2>4. CASE op.unit = NumUnits
    BY <1>3, <2>2, <2>3, <2>4 DEF WriteUnit, AfterUnit
  <2>5. CASE op.unit # NumUnits
    <3>1. /\ op'.on = "write" /\ op'.field = op.field /\ op'.raw = op.raw /\ op'.sure = op.sure
          /\ op'.alone = op.alone /\ op'.unit = op.unit + 1 /\ op' \in Command
      BY <1>3, <2>1, <2>5 DEF WriteUnit, AfterUnit
    <3> QED
      BY <2>2, <2>3, <3>1
  <2> QED
    BY <2>4, <2>5
<1>4. CASE UnitWriteFails
  <2>1. op' = Idle /\ cache' = cache /\ (reg' = reg \/ reg' = [reg EXCEPT ![op.unit] = op.raw])
        /\ op \in Command
    BY <1>4 DEF UnitWriteFails
  <2>2. unheard' \in BOOLEAN
    BY <1>4, Zenon DEF UnitWriteFails
  <2> QED
    BY <2>1, <2>2
<1>5. CASE RefreshCache \/ OtherWrite
  <2>1. /\ op' \in {Idle, [on |-> "refresh"]} /\ reg' = reg
        /\ cache' \in {cache, reg[1], NoValue}
    BY <1>5 DEF RefreshCache, OtherWrite
  <2>2. unheard' \in BOOLEAN
    BY <1>5, Zenon DEF RefreshCache, OtherWrite
  <2> QED
    BY <2>1, <2>2
<1>6. ASSUME NEW u \in 1..NumUnits, NEW p \in Packed, ChangedElsewhere(u, p) PROVE WriteInv'
  <2>1. reg' \in [1..NumUnits -> Packed] /\ cache' = cache
    BY <1>6 DEF ChangedElsewhere
  <2>2. unheard' \in BOOLEAN
    BY <1>6, Zenon DEF ChangedElsewhere
  <2>3. CASE op.on # "write" /\ op' = op
    BY <2>1, <2>2, <2>3
  <2>4. CASE op.on = "write" /\ op' = [op EXCEPT !.sure = @ /\ u # 1, !.alone = FALSE]
    <3>1. op \in Command
      BY <2>4
    <3>2. op' \in Command /\ ~op'.alone
      BY <2>4, <3>1
    <3> QED
      BY <2>1, <2>2, <3>2
  <2> QED
    BY <1>6, <2>3, <2>4 DEF ChangedElsewhere
<1> QED
  BY <1>1, <1>2, <1>3, <1>4, <1>5, <1>6 DEF PackedNext, Elsewhere

LEMMA WriteInvInit == PackedInit => WriteInv
<1> SUFFICES ASSUME PackedInit PROVE WriteInv
  OBVIOUS
<1>1. unheard \in BOOLEAN
  BY Zenon DEF PackedInit
<1> QED
  BY <1>1, PackedAssumption DEF PackedInit, WriteInv, PackedTypeOK, WrittenSoFar, Idle

\* The variables of the read-modify-write have their types.
THEOREM PackedTypeCorrect == PackedSpec => []PackedTypeOK
<1>1. WriteInv => PackedTypeOK
  BY DEF WriteInv
<1> QED
  BY <1>1, WriteInvInit, WriteInvInductive, PTL DEF PackedSpec

\* A command that succeeds leaves every unit with the same register, whatever failures and
\* other writers before it had left, unless somebody else writes one meanwhile
\* (inverter/system.go:179-189).
THEOREM SuccessSynchronizesHolds == PackedSpec => SuccessSynchronizes
<1>1. WriteInv /\ [PackedNext]_packedVars
        => [op.on = "write" /\ op.alone /\ op'.on = "refresh"
              => \A u \in 1..NumUnits : reg'[u] = reg'[1]]_packedVars
  <2> SUFFICES ASSUME WriteInv, PackedNext, op.on = "write", op.alone, op'.on = "refresh"
               PROVE  \A u \in 1..NumUnits : reg'[u] = reg'[1]
    BY DEF packedVars
  <2> USE PackedAssumption DEF WriteInv, PackedTypeOK, WrittenSoFar, Idle, Command
  <2>1. WriteUnit
    <3>1. ~Elsewhere
      BY DEF Elsewhere, ChangedElsewhere
    <3> QED
      BY <3>1 DEF PackedNext, BeginPacked, UnitWriteFails, RefreshCache, OtherWrite
  <2>2. op \in Command
    OBVIOUS
  <2>3. op.unit = NumUnits
    BY <2>1, <2>2 DEF WriteUnit, AfterUnit
  <2>4. reg' = [reg EXCEPT ![NumUnits] = op.raw]
    BY <2>1, <2>3 DEF WriteUnit
  <2> QED
    BY <2>2, <2>3, <2>4
<1> QED
  BY <1>1, WriteInvInit, WriteInvInductive, PTL DEF PackedSpec, SuccessSynchronizes

\* Unless something is unheard, the cache is coherent and every command merges
\* from what the master holds (modbus/client.go:103-111,
\* inverter/settings_write.go:233-243).
LEMMA CacheInvInductive == WriteInv /\ CacheInv /\ [PackedNext]_packedVars => CacheInv'
<1> SUFFICES ASSUME WriteInv, CacheInv, [PackedNext]_packedVars PROVE CacheInv'
  OBVIOUS
<1> USE PackedAssumption, NoValueAssumption
    DEF WriteInv, PackedTypeOK, CacheInv, CacheCoherent, MergedFromMaster, Idle, Command
<1>1. CASE UNCHANGED packedVars
  BY <1>1 DEF packedVars
<1>2. ASSUME NEW f \in PackedFields, NEW v \in FieldValues, BeginPacked(f, v) PROVE CacheInv'
  <2>1. op'.field = f /\ op'.unit = 1 /\ reg' = reg /\ unheard' = unheard
        /\ (op'.sure <=> ~unheard)
    BY <1>2 DEF BeginPacked
  <2>3. ~unheard => cache' = reg[1] /\ op'.raw = Merged(reg[1], f, v)
    BY <1>2 DEF BeginPacked
  <2>2. \A g \in PackedFields : g # f => Merged(reg[1], f, v)[g] = reg[1][g]
    BY MergedIsPacked
  <2>4. CacheCoherent'
    BY <1>2, <2>1, <2>3 DEF BeginPacked
  <2>5. MergedFromMaster'
    BY <2>1, <2>2, <2>3
  <2> QED
    BY <2>4, <2>5
<1>3. CASE WriteUnit
  <2>1. op \in Command /\ reg' = [reg EXCEPT ![op.unit] = op.raw] /\ cache' = Invalidated(op.unit)
        /\ unheard' = (unheard /\ op.unit # 1)
    BY <1>3 DEF WriteUnit
  <2>2. CacheCoherent'
    BY <2>1 DEF Invalidated
  <2>3. ~(op'.on = "write" /\ op'.unit = 1)
    <3>1. CASE op.unit = NumUnits
      BY <1>3, <3>1 DEF WriteUnit, AfterUnit
    <3>2. CASE op.unit # NumUnits
      <4>1. op'.unit = op.unit + 1
        BY <1>3, <2>1, <3>2 DEF WriteUnit, AfterUnit
      <4> QED
        BY <2>1, <4>1
    <3> QED
      BY <3>1, <3>2
  <2> QED
    BY <2>2, <2>3
<1>4. CASE UnitWriteFails
  <2>1. op \in Command /\ op' = Idle /\ cache' = cache
    BY <1>4 DEF UnitWriteFails
  <2>2. (reg' = reg /\ unheard' = unheard)
         \/ (reg' = [reg EXCEPT ![op.unit] = op.raw] /\ (unheard' <=> unheard \/ op.unit = 1))
    BY <1>4 DEF UnitWriteFails
  <2>3. ~unheard' => ~unheard /\ reg'[1] = reg[1]
    BY <2>1, <2>2
  <2> QED
    BY <2>1, <2>3
<1>5. CASE RefreshCache
  BY <1>5 DEF RefreshCache
<1>6. CASE OtherWrite
  BY <1>6 DEF OtherWrite
<1>7. ASSUME NEW u \in 1..NumUnits, NEW p \in Packed, ChangedElsewhere(u, p) PROVE CacheInv'
  <2>1. cache' = cache /\ (u # 1 => reg'[1] = reg[1])
    BY <1>7 DEF ChangedElsewhere
  <2>5. unheard' <=> unheard \/ (u = 1 /\ cache # NoValue)
    BY <1>7, Zenon DEF ChangedElsewhere
  <2>2. CacheCoherent'
    BY <2>1, <2>5
  <2>3. CASE op.on # "write" /\ op' = op
    BY <2>2, <2>3
  <2>4. CASE op.on = "write" /\ op' = [op EXCEPT !.sure = @ /\ u # 1, !.alone = FALSE]
    <3>1. op \in Command
      BY <2>4
    <3>2. /\ op'.on = "write" /\ op'.field = op.field /\ op'.raw = op.raw
          /\ op'.unit = op.unit /\ (op'.sure <=> op.sure /\ u # 1)
      BY <2>4, <3>1
    <3>3. MergedFromMaster'
      BY <2>1, <2>4, <3>1, <3>2
    <3> QED
      BY <2>2, <3>3
  <2> QED
    BY <1>7, <2>3, <2>4 DEF ChangedElsewhere
<1> QED
  BY <1>1, <1>2, <1>3, <1>4, <1>5, <1>6, <1>7 DEF PackedNext, Elsewhere

LEMMA CacheInvInit == PackedInit => CacheInv
  BY DEF PackedInit, CacheInv, CacheCoherent, MergedFromMaster, Idle

\* The session's copy of the master's register is what the master holds, unless a
\* write that was reported as failed, or somebody else, has changed it since.
THEOREM CacheCoherentHolds == PackedSpec => []CacheCoherent
<1>1. CacheInv => CacheCoherent
  BY DEF CacheInv
<1> QED
  BY <1>1, WriteInvInit, WriteInvInductive, CacheInvInit, CacheInvInductive, PTL DEF PackedSpec

\* A write of the program to the master preserves the fields it does not name, if its
\* command began with nothing unheard and nobody else has written the master since.
THEOREM OthersPreservedHolds == PackedSpec => OthersPreserved
<1>1. WriteInv /\ CacheInv /\ [PackedNext]_packedVars
        => [\A f \in PackedFields :
              reg'[1][f] # reg[1][f] /\ ~Elsewhere
                => op.on = "write" /\ (op.field = f \/ ~op.sure)]_packedVars
  <2> SUFFICES ASSUME WriteInv, CacheInv, PackedNext, NEW f \in PackedFields,
                      reg'[1][f] # reg[1][f], ~Elsewhere
               PROVE  op.on = "write" /\ (op.field = f \/ ~op.sure)
    BY DEF packedVars
  <2> USE PackedAssumption DEF WriteInv, PackedTypeOK, CacheInv, MergedFromMaster, Idle, Command
  <2>1. WriteUnit \/ UnitWriteFails
    BY DEF PackedNext, BeginPacked, RefreshCache, OtherWrite
  <2>2. op \in Command /\ reg' = [reg EXCEPT ![op.unit] = op.raw]
    BY <2>1 DEF WriteUnit, UnitWriteFails
  <2>3. op.unit = 1
    BY <2>2
  <2> QED
    BY <2>2, <2>3
<1> QED
  BY <1>1, WriteInvInit, WriteInvInductive, CacheInvInit, CacheInvInductive, PTL
     DEF PackedSpec, OthersPreserved

-----------------------------------------------------------------------------
(***************************************************************************)
(* SnapshotFanout.                                                         *)
(***************************************************************************)

\* The poll in progress has yet to serve these.
Unserved == pending \cup step.to

\* What a client has been shown and what waits for it, oldest first, and none of it
\* newer than the latest.
Line(s) ==
  /\ seen[s] <= newest
  /\ \A i \in 1 .. Len(ch[s]) : seen[s] < ch[s][i] /\ ch[s][i] <= newest
  /\ \A i, j \in 1 .. Len(ch[s]) : i < j => ch[s][i] < ch[s][j]

\* The newest snapshot has not been offered to an unserved client, and the second
\* offer finds room.
Serving ==
  /\ pending \cap step.to = {}
  /\ \A s \in Unserved : seen[s] < newest /\ \A i \in 1 .. Len(ch[s]) : ch[s][i] < newest
  /\ step.at = "again" => \A s \in step.to : Len(ch[s]) < ChanCap

\* Everybody else has it.
Has(s) == \/ since[s] = newest \/ seen[s] = newest
          \/ ch[s] # <<>> /\ ch[s][Len(ch[s])] = newest

FanoutInv ==
  /\ FanoutTypeOK /\ Serving
  /\ \A s \in Clients : Line(s)
  /\ \A s \in subscribed : s \in Unserved \/ Has(s)

LEMMA FanoutInitInv == FanoutInit => FanoutInv
<1> SUFFICES ASSUME FanoutInit PROVE FanoutInv
  OBVIOUS
<1>1. Nobody.to = {} /\ Nobody.at = "idle"
      /\ Nobody \in [to : {{}} \cup {{s} : s \in Clients}, at : {"idle", "offer", "room", "again"}]
  BY DEF Nobody
<1>2. FanoutTypeOK
  BY <1>1, FanoutAssumption DEF FanoutInit, FanoutTypeOK, Numbers
<1>3. Serving /\ (\A s \in Clients : Line(s)) /\ \A s \in subscribed : s \in Unserved \/ Has(s)
  BY <1>1 DEF FanoutInit, Serving, Unserved, Line
<1> QED
  BY <1>2, <1>3 DEF FanoutInv

LEMMA AppendIs ==
  ASSUME NEW q \in Seq(Numbers), NEW n \in Numbers
  PROVE  /\ Append(q, n) \in Seq(Numbers) /\ Len(Append(q, n)) = Len(q) + 1
         /\ Append(q, n)[Len(q) + 1] = n /\ Append(q, n) # <<>>
         /\ \A i \in 1 .. Len(q) : Append(q, n)[i] = q[i]
  OBVIOUS

LEMMA TailIs ==
  ASSUME NEW q \in Seq(Numbers), q # <<>>
  PROVE  /\ Tail(q) \in Seq(Numbers) /\ Len(q) \in Nat \ {0} /\ Len(Tail(q)) = Len(q) - 1
         /\ Head(q) \in Numbers /\ Head(q) = q[1]
         /\ \A i \in 1 .. Len(Tail(q)) : Tail(q)[i] = q[i + 1]
  OBVIOUS

\* A subscription begins with the latest snapshot.
LEMMA SubscribeInv ==
  ASSUME FanoutInv, NEW s \in Clients, Subscribe(s)
  PROVE  FanoutInv'
<1> USE DEF FanoutInv, Subscribe
<1>1. /\ ch' = [ch EXCEPT ![s] = <<>>] /\ seen' = [seen EXCEPT ![s] = newest]
      /\ since' = [since EXCEPT ![s] = newest] /\ UNCHANGED <<newest, pending, step>>
      /\ s \notin Unserved /\ Unserved' = Unserved /\ subscribed' = subscribed \cup {s}
  BY DEF Unserved
<1>2. FanoutTypeOK'
  BY <1>1, FanoutAssumption DEF FanoutTypeOK
<1>3. \A t \in Clients : t # s => ch'[t] = ch[t] /\ seen'[t] = seen[t] /\ since'[t] = since[t]
  BY <1>1 DEF FanoutTypeOK
<1>4. ch'[s] = <<>> /\ seen'[s] = newest /\ since'[s] = newest /\ newest \in Nat
  BY <1>1 DEF FanoutTypeOK, Numbers
<1>5. \A t \in Clients : Line(t)'
  BY <1>1, <1>3, <1>4 DEF Line
<1>6. Unserved \subseteq Clients /\ step.to \subseteq Clients
  BY DEF Unserved, FanoutTypeOK
<1>7. Serving'
  BY <1>1, <1>3, <1>6 DEF Serving, Unserved
<1>8. \A t \in subscribed' : t \in Unserved' \/ Has(t)'
  BY <1>1, <1>3, <1>4 DEF Has, FanoutTypeOK
<1> QED
  BY <1>2, <1>5, <1>7, <1>8

\* A client takes the oldest that waits.
LEMMA ReceiveInv ==
  ASSUME FanoutInv, NEW s \in Clients, Receive(s)
  PROVE  FanoutInv'
<1> USE DEF FanoutInv, Receive
<1>1. /\ ch' = [ch EXCEPT ![s] = Tail(ch[s])] /\ seen' = [seen EXCEPT ![s] = Head(ch[s])]
      /\ UNCHANGED <<newest, subscribed, since, pending, step>> /\ ch[s] # <<>>
      /\ ch[s] \in Seq(Numbers) /\ newest \in Nat
      /\ Unserved' = Unserved
  BY DEF FanoutTypeOK, Numbers, Unserved
<1>2. /\ Tail(ch[s]) \in Seq(Numbers) /\ Len(ch[s]) \in Nat \ {0}
      /\ Len(Tail(ch[s])) = Len(ch[s]) - 1
      /\ Head(ch[s]) \in Numbers /\ Head(ch[s]) = ch[s][1]
      /\ \A i \in 1 .. Len(Tail(ch[s])) : Tail(ch[s])[i] = ch[s][i + 1]
  BY <1>1, TailIs
<1>3. \A t \in Clients : t # s => ch'[t] = ch[t] /\ seen'[t] = seen[t]
  BY <1>1 DEF FanoutTypeOK
<1> DEFINE q == Tail(ch[s])
           n == Len(q)
<1>4. ch'[s] = q /\ seen'[s] = ch[s][1]
  BY <1>1, <1>2 DEF FanoutTypeOK
<1>13. /\ n \in Nat /\ Len(ch[s]) = n + 1 /\ Len(ch'[s]) = n /\ q \in Seq(Numbers)
       /\ \A i \in 1 .. n : i + 1 \in 1 .. (n + 1) /\ ch'[s][i] = ch[s][i + 1]
  <2>1. n = Len(ch[s]) - 1 /\ Len(ch[s]) \in Nat \ {0} /\ q \in Seq(Numbers)
        /\ \A i \in 1 .. n : q[i] = ch[s][i + 1]
    BY <1>2
  <2>2. Len(ch'[s]) = n
    BY <1>4
  <2> HIDE DEF q, n
  <2>3. n \in Nat /\ Len(ch[s]) = n + 1 /\ \A i \in 1 .. n : i + 1 \in 1 .. (n + 1)
    BY <2>1
  <2> QED
    BY <1>4, <2>1, <2>2, <2>3
<1> HIDE DEF q, n
<1>5. FanoutTypeOK'
  <2>1. ch' \in [Clients -> Seq(Numbers)] /\ seen' \in [Clients -> Numbers]
    BY <1>1, <1>2 DEF FanoutTypeOK
  <2>2. Len(ch'[s]) <= ChanCap
    BY <1>2, <1>4, FanoutAssumption DEF FanoutTypeOK
  <2>3. \A t \in Clients : Len(ch'[t]) <= ChanCap
    BY <1>3, <2>2 DEF FanoutTypeOK
  <2> QED
    BY <1>1, <2>1, <2>3 DEF FanoutTypeOK
<1>6. Line(s)'
  <2>2. 1 \in 1 .. Len(ch[s])
    BY <1>2
  <2>3. ASSUME NEW i \in 1 .. n, NEW j \in 1 .. n, i < j PROVE ch'[s][i] < ch'[s][j]
    <3>1. i + 1 \in 1 .. Len(ch[s]) /\ j + 1 \in 1 .. Len(ch[s]) /\ i + 1 < j + 1
      BY <1>13, <2>3
    <3> QED
      BY <1>13, <3>1 DEF Line
  <2>4. ASSUME NEW i \in 1 .. n PROVE ch[s][1] < ch'[s][i] /\ ch'[s][i] <= newest
    <3>1. i + 1 \in 1 .. Len(ch[s]) /\ 1 < i + 1
      BY <1>13
    <3> QED
      BY <1>13, <2>2, <3>1 DEF Line
  <2>5. ch[s][1] <= newest
    BY <2>2 DEF Line
  <2> QED
    BY <1>1, <1>4, <1>13, <2>3, <2>4, <2>5 DEF Line
<1>7. \A t \in Clients : Line(t)'
  BY <1>1, <1>3, <1>6 DEF Line
<1>8. Unserved \subseteq Clients /\ step.to \subseteq Clients /\ subscribed \subseteq Clients
  BY DEF Unserved, FanoutTypeOK
<1>9. s \in Unserved => seen'[s] < newest /\ \A i \in 1 .. Len(ch'[s]) : ch'[s][i] < newest
  <2>1. 1 \in 1 .. Len(ch[s]) /\ \A i \in 1 .. n : i + 1 \in 1 .. Len(ch[s])
    BY <1>13
  <2> QED
    BY <1>4, <1>13, <2>1 DEF Serving
<1>10. s \in step.to /\ step.at = "again" => Len(ch'[s]) < ChanCap
  BY <1>13, FanoutAssumption DEF Serving
<1>11. Serving'
  BY <1>1, <1>3, <1>8, <1>9, <1>10 DEF Serving
<1>12. ASSUME NEW t \in subscribed, t \notin Unserved PROVE Has(t)'
  <2>1. t \in Clients /\ Has(t)
    BY <1>8, <1>12
  <2>2. CASE t # s
    BY <1>1, <1>3, <2>1, <2>2 DEF Has
  <2>3. CASE t = s /\ since[s] = newest
    BY <1>1, <2>3 DEF Has
  <2>4. CASE t = s /\ since[s] # newest
    <3>1. seen[s] # newest
      <4>1. 1 \in 1 .. Len(ch[s]) /\ ch[s][1] \in Nat /\ seen[s] \in Nat
        BY <1>2 DEF FanoutTypeOK, Numbers
      <4> QED
        BY <1>1, <4>1 DEF Line
    <3>2. ch[s][n + 1] = newest
      BY <1>13, <2>1, <2>4, <3>1 DEF Has
    <3>3. CASE n = 0
      BY <1>1, <1>4, <2>4, <3>2, <3>3 DEF Has
    <3>4. CASE n # 0
      <4>1. n \in 1 .. n /\ ch'[s][n] = newest
        BY <1>13, <3>2, <3>4
      <4>2. ch'[s] # <<>>
        BY <1>13, <3>4
      <4> QED
        BY <1>1, <1>13, <2>4, <4>1, <4>2 DEF Has
    <3> QED
      BY <3>3, <3>4
  <2> QED
    BY <2>2, <2>3, <2>4
<1> QED
  BY <1>1, <1>5, <1>7, <1>11, <1>12

\* A snapshot nobody has yet, owed to those who subscribe.
LEMMA PublishInv ==
  ASSUME FanoutInv, Publish
  PROVE  FanoutInv'
<1> USE DEF FanoutInv, Publish
<1>1. /\ newest' = newest + 1 /\ pending' = subscribed
      /\ UNCHANGED <<subscribed, ch, since, seen, step>>
      /\ step = Nobody /\ newest \in Nat
  BY DEF Polling, FanoutTypeOK, Numbers
<1>2. step.to = {} /\ step.at = "idle"
  BY <1>1 DEF Nobody
<1>3. FanoutTypeOK'
  BY <1>1, FanoutAssumption DEF FanoutTypeOK, Numbers
<1>4. \A s \in Clients : /\ Len(ch[s]) \in Nat /\ seen[s] \in Nat
                         /\ \A i \in 1 .. Len(ch[s]) : ch[s][i] \in Nat
  <2> SUFFICES ASSUME NEW s \in Clients
               PROVE  /\ Len(ch[s]) \in Nat /\ seen[s] \in Nat
                      /\ \A i \in 1 .. Len(ch[s]) : ch[s][i] \in Nat
    OBVIOUS
  <2>1. ch[s] \in Seq(Numbers) /\ seen[s] \in Numbers /\ Numbers \subseteq Nat
    BY DEF FanoutTypeOK, Numbers
  <2>2. \A i \in 1 .. Len(ch[s]) : ch[s][i] \in Numbers
    BY <2>1, ElementOfSeq
  <2>3. Len(ch[s]) \in Nat
    BY <2>1, LenProperties
  <2> QED
    BY <2>1, <2>2, <2>3
<1>5. \A s \in Clients : Line(s)'
  <2> SUFFICES ASSUME NEW s \in Clients PROVE Line(s)'
    OBVIOUS
  <2>1. Line(s) /\ newest \in Nat /\ newest' = newest + 1 /\ UNCHANGED <<ch, seen>>
    BY <1>1
  <2>2. /\ seen[s] <= newest
        /\ \A i \in 1 .. Len(ch[s]) : seen[s] < ch[s][i] /\ ch[s][i] <= newest
        /\ \A i, j \in 1 .. Len(ch[s]) : i < j => ch[s][i] < ch[s][j]
    BY <2>1 DEF Line
  <2>3. /\ seen[s] <= newest'
        /\ \A i \in 1 .. Len(ch[s]) : seen[s] < ch[s][i] /\ ch[s][i] <= newest'
    <3> HIDE DEF FanoutInv, Publish
    <3> QED
      BY <1>4, <2>1, <2>2
  <2> QED
    BY <2>1, <2>2, <2>3 DEF Line
<1>6. \A s \in Clients : seen[s] < newest' /\ \A i \in 1 .. Len(ch[s]) : ch[s][i] < newest'
  BY <1>1, <1>4 DEF Line
<1>7. Serving'
  BY <1>1, <1>2, <1>6 DEF Serving, Unserved, FanoutTypeOK
<1> QED
  BY <1>1, <1>3, <1>5, <1>7 DEF Unserved

LEMMA TurnInv ==
  ASSUME FanoutInv, NEW s \in Clients, Turn(s)
  PROVE  FanoutInv'
<1> USE DEF FanoutInv, Turn
<1>1. /\ step.to = {} /\ s \in pending /\ pending' = pending \ {s}
      /\ step'.to = {s} /\ step'.at = "offer"
      /\ UNCHANGED <<newest, subscribed, ch, since, seen>>
  BY DEF Nobody
<1>2. Unserved' = Unserved
  BY <1>1 DEF Unserved
<1>3. FanoutTypeOK'
  <2>1. step' \in [to : {{}} \cup {{t} : t \in Clients}, at : {"idle", "offer", "room", "again"}]
    OBVIOUS
  <2> QED
    BY <1>1, <2>1 DEF FanoutTypeOK
<1>4. Serving'
  BY <1>1, <1>2 DEF Serving
<1> QED
  BY <1>1, <1>2, <1>3, <1>4 DEF Line, Has

\* The offer that finds room delivers.
LEMMA OfferInv ==
  ASSUME FanoutInv, NEW s \in Clients, Offer(s)
  PROVE  FanoutInv'
<1> USE DEF FanoutInv, Offer
<1>1. /\ UNCHANGED <<newest, subscribed, since, seen, pending>> /\ step.to = {s}
      /\ ch[s] \in Seq(Numbers) /\ newest \in Numbers /\ newest \in Nat /\ Len(ch[s]) \in Nat
      /\ s \notin pending /\ Unserved = pending \cup {s}
  BY DEF FanoutTypeOK, Numbers, Serving, Unserved
<1>2. Nobody.to = {} /\ Nobody.at = "idle"
      /\ Nobody \in [to : {{}} \cup {{t} : t \in Clients}, at : {"idle", "offer", "room", "again"}]
  BY DEF Nobody
<1>3. CASE Len(ch[s]) < ChanCap /\ ch' = [ch EXCEPT ![s] = Append(ch[s], newest)] /\ step' = Nobody
  <2> DEFINE q == Append(ch[s], newest)
  <2>1. /\ q \in Seq(Numbers) /\ Len(q) = Len(ch[s]) + 1 /\ q[Len(q)] = newest /\ q # <<>>
        /\ \A i \in 1 .. Len(ch[s]) : q[i] = ch[s][i]
    BY <1>1, AppendIs
  <2>2. ch'[s] = q /\ \A t \in Clients : t # s => ch'[t] = ch[t]
    BY <1>3 DEF FanoutTypeOK
  <2>3. ch' \in [Clients -> Seq(Numbers)]
    BY <1>3, <2>1 DEF FanoutTypeOK
  <2> HIDE DEF q
  <2>4. FanoutTypeOK'
    <3>1. Len(ch'[s]) <= ChanCap
      BY <1>1, <1>3, <2>1, <2>2, FanoutAssumption
    <3>2. \A t \in Clients : Len(ch'[t]) <= ChanCap
      BY <2>2, <3>1 DEF FanoutTypeOK
    <3> QED
      BY <1>1, <1>2, <1>3, <2>3, <3>2 DEF FanoutTypeOK
  <2>5. Line(s)'
    <3>1. seen[s] < newest /\ \A i \in 1 .. Len(ch[s]) : ch[s][i] < newest
      BY <1>1 DEF Serving
    <3>2. \A i \in 1 .. Len(q) : i \in 1 .. Len(ch[s]) \/ i = Len(q)
      BY <1>1, <2>1
    <3>3. \A i \in 1 .. Len(q) : seen[s] < q[i] /\ q[i] <= newest
      BY <1>1, <2>1, <3>1, <3>2 DEF Line
    <3>4. \A i, j \in 1 .. Len(q) : i < j => q[i] < q[j]
      <4> SUFFICES ASSUME NEW i \in 1 .. Len(q), NEW j \in 1 .. Len(q), i < j PROVE q[i] < q[j]
        OBVIOUS
      <4>1. i \in 1 .. Len(ch[s]) /\ q[i] = ch[s][i]
        BY <1>1, <2>1
      <4>2. CASE j = Len(q)
        BY <2>1, <3>1, <4>1, <4>2
      <4>3. CASE j \in 1 .. Len(ch[s])
        BY <2>1, <4>1, <4>3 DEF Line
      <4> QED
        BY <3>2, <4>2, <4>3
    <3> QED
      BY <1>1, <2>2, <3>1, <3>3, <3>4 DEF Line
  <2>6. \A t \in Clients : Line(t)'
    BY <1>1, <2>2, <2>5 DEF Line
  <2>7. Unserved' = pending /\ step'.at = "idle" /\ step'.to = {}
    BY <1>1, <1>2, <1>3 DEF Unserved
  <2>8. Serving'
    BY <1>1, <2>2, <2>7 DEF Serving, FanoutTypeOK
  <2>9. \A t \in subscribed : t \in Unserved' \/ Has(t)'
    BY <1>1, <2>1, <2>2, <2>7 DEF Has, FanoutTypeOK
  <2> QED
    BY <1>1, <2>4, <2>6, <2>8, <2>9
<1>4. CASE /\ Len(ch[s]) = ChanCap /\ UNCHANGED ch
           /\ step' = IF step.at = "offer" THEN [step EXCEPT !.at = "room"] ELSE Nobody
  <2>1. step.at = "offer"
    BY <1>1, <1>4 DEF Serving
  <2>2. /\ step'.to = {s} /\ step'.at = "room"
        /\ step' \in [to : {{}} \cup {{t} : t \in Clients}, at : {"idle", "offer", "room", "again"}]
    BY <1>1, <1>4, <2>1 DEF FanoutTypeOK
  <2>3. FanoutTypeOK'
    BY <1>1, <1>4, <2>2 DEF FanoutTypeOK
  <2>4. Unserved' = Unserved
    BY <1>1, <2>2 DEF Unserved
  <2> QED
    BY <1>1, <1>4, <2>2, <2>3, <2>4 DEF Serving, Line, Has
<1> QED
  BY <1>3, <1>4

\* What gives way is the oldest.
LEMMA MakeRoomInv ==
  ASSUME FanoutInv, NEW s \in Clients, MakeRoom(s)
  PROVE  FanoutInv'
<1> USE DEF FanoutInv, MakeRoom
<1>1. /\ UNCHANGED <<newest, subscribed, since, seen, pending>> /\ step.to = {s}
      /\ step'.to = {s} /\ step'.at = "again"
      /\ step' \in [to : {{}} \cup {{t} : t \in Clients}, at : {"idle", "offer", "room", "again"}]
      /\ ch[s] \in Seq(Numbers) /\ Len(ch[s]) <= ChanCap
  BY DEF FanoutTypeOK
<1> DEFINE q == IF ch[s] = <<>> THEN ch[s] ELSE Tail(ch[s])
           d == IF ch[s] = <<>> THEN 0 ELSE 1
<1>2. /\ q \in Seq(Numbers) /\ Len(q) = Len(ch[s]) - d /\ Len(ch[s]) \in Nat /\ d \in {0, 1}
      /\ Len(q) < ChanCap
      /\ \A i \in 1 .. Len(q) : i + d \in 1 .. Len(ch[s]) /\ q[i] = ch[s][i + d]
  <2>1. CASE ch[s] = <<>>
    BY <1>1, <2>1, FanoutAssumption
  <2>2. CASE ch[s] # <<>>
    BY <1>1, <2>2, TailIs, FanoutAssumption
  <2> QED
    BY <2>1, <2>2
<1>3. /\ ch'[s] = q /\ \A t \in Clients : t # s => ch'[t] = ch[t]
      /\ ch' \in [Clients -> Seq(Numbers)]
  BY <1>2 DEF FanoutTypeOK
<1> HIDE DEF q, d
<1>4. Unserved' = Unserved /\ s \in Unserved
  BY <1>1 DEF Unserved
<1>5. FanoutTypeOK'
  <2>1. \A t \in Clients : Len(ch'[t]) <= ChanCap
    BY <1>2, <1>3, FanoutAssumption DEF FanoutTypeOK
  <2> QED
    BY <1>1, <1>3, <2>1 DEF FanoutTypeOK
<1>6. Line(s)'
  <2>1. ASSUME NEW i \in 1 .. Len(q), NEW j \in 1 .. Len(q), i < j PROVE q[i] < q[j]
    <3>1. i + d \in 1 .. Len(ch[s]) /\ j + d \in 1 .. Len(ch[s]) /\ i + d < j + d
      BY <1>2, <2>1
    <3> QED
      BY <1>2, <3>1 DEF Line
  <2>2. ASSUME NEW i \in 1 .. Len(q) PROVE seen[s] < q[i] /\ q[i] <= newest
    BY <1>2 DEF Line
  <2> QED
    <3>1. seen[s] <= newest
      BY DEF Line, FanoutTypeOK
    <3>2. seen' = seen /\ newest' = newest /\ ch'[s] = q
      BY <1>1, <1>3
    <3>3. \A i, j \in 1 .. Len(ch'[s]) : i < j => ch'[s][i] < ch'[s][j]
      BY <2>1, <3>2
    <3>4. \A i \in 1 .. Len(ch'[s]) : seen'[s] < ch'[s][i] /\ ch'[s][i] <= newest'
      BY <2>2, <3>2
    <3> QED
      BY <3>1, <3>2, <3>3, <3>4 DEF Line
<1>7. \A t \in Clients : Line(t)'
  BY <1>1, <1>3, <1>6 DEF Line
<1>8. \A i \in 1 .. Len(ch'[s]) : ch'[s][i] < newest
  BY <1>2, <1>3, <1>4 DEF Serving
<1>9. Serving'
  BY <1>1, <1>2, <1>3, <1>4, <1>8 DEF Serving, FanoutTypeOK, Unserved
<1>10. \A t \in subscribed : t \in Unserved \/ Has(t)'
  BY <1>1, <1>3, <1>4 DEF Has, FanoutTypeOK
<1> QED
  BY <1>1, <1>4, <1>5, <1>7, <1>9, <1>10

LEMMA FanoutInvInductive == FanoutInv /\ [FanoutNext]_fanoutVars => FanoutInv'
<1> SUFFICES ASSUME FanoutInv, [FanoutNext]_fanoutVars PROVE FanoutInv'
  OBVIOUS
<1>1. ASSUME NEW s \in Clients, Unsubscribe(s) PROVE FanoutInv'
  BY <1>1 DEF FanoutInv, Unsubscribe, FanoutTypeOK, Serving, Unserved, Line, Has
<1>2. CASE UNCHANGED fanoutVars
  BY <1>2 DEF FanoutInv, fanoutVars, FanoutTypeOK, Serving, Unserved, Line, Has
<1> QED
  BY <1>1, <1>2, PublishInv, SubscribeInv, ReceiveInv, TurnInv, OfferInv, MakeRoomInv DEF FanoutNext

LEMMA InvIsSound == FanoutInv => FanoutSound
<1> SUFFICES ASSUME FanoutInv PROVE FanoutSound
  OBVIOUS
<1> USE DEF FanoutInv
<1>1. NewestDelivered
  <2>1. ~Polling => Unserved = {}
    BY DEF Polling, Unserved, Nobody
  <2> QED
    BY <2>1 DEF NewestDelivered, Has
<1>2. InOrder
  <2> SUFFICES ASSUME NEW s \in subscribed,
                      NEW i \in DOMAIN (<<seen[s]>> \o ch[s]), NEW j \in DOMAIN (<<seen[s]>> \o ch[s]),
                      i < j
               PROVE  (<<seen[s]>> \o ch[s])[i] < (<<seen[s]>> \o ch[s])[j]
    BY DEF InOrder
  <2>1. ch[s] \in Seq(Numbers) /\ seen[s] \in Numbers /\ s \in Clients
    BY DEF FanoutTypeOK
  <2>2. /\ DOMAIN (<<seen[s]>> \o ch[s]) = 1 .. (1 + Len(ch[s])) /\ Len(ch[s]) \in Nat
        /\ (<<seen[s]>> \o ch[s])[1] = seen[s]
        /\ \A k \in 2 .. (1 + Len(ch[s])) : (<<seen[s]>> \o ch[s])[k] = ch[s][k - 1]
    BY <2>1
  <2>3. j \in 2 .. (1 + Len(ch[s])) /\ j - 1 \in 1 .. Len(ch[s])
    BY <2>2
  <2>4. CASE i = 1
    BY <2>1, <2>2, <2>3, <2>4 DEF Line
  <2>5. CASE i # 1
    <3>1. i \in 2 .. (1 + Len(ch[s])) /\ i - 1 \in 1 .. Len(ch[s]) /\ i - 1 < j - 1
      BY <2>2, <2>3, <2>5
    <3> QED
      BY <2>1, <2>2, <2>3, <3>1 DEF Line
  <2> QED
    BY <2>4, <2>5
<1> QED
  BY <1>1, <1>2 DEF FanoutSound

\* The newest snapshot reaches every subscriber, in order, through a bounded channel, and
\* the poll waits for none of them (hub.go:424-452).
THEOREM SubscribersServed == FanoutSpec => []FanoutSound
  BY FanoutInitInv, FanoutInvInductive, InvIsSound, PTL DEF FanoutSpec

-----------------------------------------------------------------------------
(***************************************************************************)
(* MainsToggle.                                                            *)
(***************************************************************************)

\* Rounding gives whole numbers of amperes, and leaves those alone (the format "%.0f").
LEMMA RoundedToAmperes ==
  ASSUME NEW v \in Nat
  PROVE  RoundedLimit(v) \in Nat /\ RoundedLimit(RoundedLimit(v)) = RoundedLimit(v)
<1> DEFINE whole == v \div 10
<1>1. whole \in Nat
  OBVIOUS
<1>2. PICK k \in {whole, whole + 1} : RoundedLimit(v) = 10 * k
  BY DEF RoundedLimit
<1> HIDE DEF whole
<1>3. k \in Nat /\ 10 * k \in Nat
  BY <1>1
<1>4. (10 * k) \div 10 = k /\ (10 * k) % 10 = 0
  BY <1>3
<1>5. RoundedLimit(10 * k) = 10 * k
  BY <1>4 DEF RoundedLimit
<1> QED
  BY <1>2, <1>3, <1>5

LEMMA ValuesClosed == Values \subseteq Nat /\ \A v \in Values : RoundedLimit(v) \in Values
<1>1. Given \subseteq Nat
  BY ToggleAssumption DEF Given
<1> QED
  BY <1>1, RoundedToAmperes DEF Values

\* What the hub remembers and what a command is about to restore goes back to a limit
\* that was read, or to the default.
Restorable == {RoundedLimit(v) : v \in read}

Remembers ==
  /\ lastRead \in {NoLimit, 0} \cup read
  /\ prev \in {NoLimit} \cup Restorable
  /\ \A c \in Commands : hand[c] # NoCommand /\ hand[c].kind = "on" =>
       hand[c].val \in {DefaultLimit} \cup Restorable

ToggleInv == ToggleTypeOK /\ Remembers

LEMMA ToggleInitInv == ToggleInit => ToggleInv
<1> SUFFICES ASSUME ToggleInit PROVE ToggleInv
  OBVIOUS
<1>1. Remembers
  BY DEF ToggleInit, Remembers, Restorable
<1>2. ToggleTypeOK
  BY DEF ToggleInit, ToggleTypeOK, Values, Given
<1> QED
  BY <1>1, <1>2 DEF ToggleInv

\* A command that begins.
LEMMA BeginInv ==
  ASSUME ToggleInv, NEW c \in Commands, NEW kind \in {"on", "off", "number"}, NEW v \in Values,
         Begin(c, kind, v),
         kind = "on" => v \in {DefaultLimit} \cup Restorable,
         UNCHANGED <<limit, lastRead, read>>,
         UNCHANGED prev \/ (lastRead # NoLimit /\ prev' = Saved(lastRead)),
         prevInit' \in BOOLEAN
  PROVE  ToggleInv'
<1> USE DEF ToggleInv
<1>1. hand' = [hand EXCEPT ![c] = [kind |-> kind, val |-> v]]
  BY DEF Begin
<1>2. hand' \in [Commands -> {NoCommand} \cup [kind : {"on", "off", "number"}, val : Values]]
  BY <1>1 DEF ToggleTypeOK
<1>3. prev' \in Values \cup {NoLimit} /\ prev' \in {NoLimit} \cup Restorable
  <2>1. CASE UNCHANGED prev
    BY <2>1 DEF ToggleTypeOK, Remembers
  <2>2. CASE lastRead # NoLimit /\ prev' = Saved(lastRead)
    <3>1. CASE lastRead > 0
      <4>1. lastRead \in read /\ prev' = RoundedLimit(lastRead)
        BY <2>2, <3>1 DEF Remembers, Saved
      <4> QED
        BY <4>1, ValuesClosed DEF Restorable, ToggleTypeOK
    <3>2. CASE ~(lastRead > 0)
      BY <2>2, <3>2 DEF Saved, Remembers, ToggleTypeOK
    <3> QED
      BY <3>1, <3>2
  <2> QED
    BY <2>1, <2>2
<1>4. ToggleTypeOK'
  BY <1>2, <1>3 DEF ToggleTypeOK
<1>5. \A d \in Commands : hand'[d] # NoCommand /\ hand'[d].kind = "on" =>
        hand'[d].val \in {DefaultLimit} \cup Restorable
  BY <1>1 DEF ToggleTypeOK, Remembers
<1>6. Remembers'
  BY <1>3, <1>5 DEF Remembers, Restorable
<1> QED
  BY <1>4, <1>6

\* What is read is remembered.
LEMMA ReadsInv ==
  ASSUME ToggleInv, NEW v \in Values, limit' \in Values,
         Reads(v) \/ UNCHANGED <<lastRead, read>>,
         \A c \in Commands : hand'[c] \in {hand[c], NoCommand},
         hand' \in [Commands -> {NoCommand} \cup [kind : {"on", "off", "number"}, val : Values]],
         UNCHANGED <<prev, prevInit>>
  PROVE  ToggleInv'
<1> USE DEF ToggleInv
<1>1. /\ read \subseteq read' /\ read' \subseteq Values
      /\ lastRead' \in {NoLimit, 0} \cup read' /\ lastRead' \in Values \cup {NoLimit}
  BY DEF Reads, ToggleTypeOK, Remembers
<1>2. Restorable \subseteq Restorable'
  BY <1>1 DEF Restorable
<1>3. ToggleTypeOK'
  BY <1>1 DEF ToggleTypeOK
<1>4. Remembers'
  BY <1>1, <1>2 DEF Remembers
<1> QED
  BY <1>3, <1>4

LEMMA ToggleInvInductive == ToggleInv /\ [ToggleNext]_toggleVars => ToggleInv'
<1> SUFFICES ASSUME ToggleInv, [ToggleNext]_toggleVars PROVE ToggleInv'
  OBVIOUS
<1> USE DEF ToggleInv
<1>1. CASE \E c \in Commands : Off(c) \/ On(c) \/ SetNumber(c)
  <2>1. PICK c \in Commands : Off(c) \/ On(c) \/ SetNumber(c)
    BY <1>1
  <2>2. CASE Off(c)
    <3>1. 0 \in Values
      BY DEF Values, Given
    <3> QED
      BY <2>2, <3>1, BeginInv DEF Off, ToggleTypeOK
  <2>3. CASE On(c)
    <3>1. Restore \in Values /\ Restore \in {DefaultLimit} \cup Restorable
      BY DEF Restore, Remembers, ToggleTypeOK, Values, Given
    <3> QED
      BY <2>3, <3>1, BeginInv DEF On, ToggleTypeOK
  <2>4. CASE SetNumber(c)
    <3>1. PICK v \in NumberLimits : Begin(c, "number", v)
      BY <2>4 DEF SetNumber
    <3>2. v \in Values
      BY DEF Values, Given
    <3> QED
      BY <2>4, <3>1, <3>2, BeginInv DEF SetNumber, ToggleTypeOK
  <2> QED
    BY <2>1, <2>2, <2>3, <2>4
<1>2. CASE InitPrevious
  <2>1. prev' \in Values \cup {NoLimit} /\ prev' \in {NoLimit} \cup Restorable
    <3>1. CASE lastRead > 0
      <4>1. lastRead \in read /\ prev' = RoundedLimit(lastRead)
        BY <1>2, <3>1 DEF Remembers, Saved, InitPrevious
      <4> QED
        BY <4>1, ValuesClosed DEF Restorable, ToggleTypeOK
    <3>2. CASE ~(lastRead > 0)
      BY <1>2, <3>2 DEF Saved, Remembers, ToggleTypeOK, InitPrevious
    <3> QED
      BY <3>1, <3>2
  <2> QED
    BY <1>2, <2>1 DEF InitPrevious, Remembers, ToggleTypeOK, Restorable
<1>3. ASSUME NEW c \in Commands, CommandWrites(c) PROVE ToggleInv'
  <2>1. hand[c] \in [kind : {"on", "off", "number"}, val : Values] /\ hand[c].val \in Values
    BY <1>3 DEF CommandWrites, ToggleTypeOK
  <2>2. /\ hand' \in [Commands -> {NoCommand} \cup [kind : {"on", "off", "number"}, val : Values]]
        /\ \A d \in Commands : hand'[d] \in {hand[d], NoCommand}
    BY <1>3 DEF CommandWrites, ToggleTypeOK
  <2>3. limit' \in Values /\ (Reads(hand[c].val) \/ UNCHANGED <<lastRead, read>>)
    BY <1>3, <2>1 DEF CommandWrites, ToggleTypeOK
  <2> QED
    BY <1>3, <2>1, <2>2, <2>3, ReadsInv DEF CommandWrites
<1>4. CASE ToggleRefresh \/ SetElsewhere
  <2>1. limit' \in Values /\ limit \in Values
    BY <1>4 DEF ToggleRefresh, SetElsewhere, ToggleTypeOK, Values, Given
  <2> QED
    BY <1>4, <2>1, ReadsInv DEF ToggleRefresh, SetElsewhere, ToggleTypeOK
<1>5. CASE UNCHANGED toggleVars
  BY <1>5 DEF toggleVars, ToggleTypeOK, Remembers, Restorable
<1> QED
  BY <1>1, <1>2, <1>3, <1>4, <1>5 DEF ToggleNext

LEMMA RememberedIsSound == ToggleInv => ToggleSound
<1> SUFFICES ASSUME ToggleInv PROVE ToggleSound
  OBVIOUS
<1>1. RestoresARead
  BY DEF ToggleInv, Remembers, RestoresARead, Restorable
<1>2. OnMeansOn
  <2> SUFFICES ASSUME NEW c \in Commands, hand[c] # NoCommand, hand[c].kind = "on",
                      ~(hand[c].val > 0)
               PROVE  \E v \in read : RoundedLimit(v) = 0
    BY DEF OnMeansOn
  <2>1. hand[c].val # DefaultLimit
    BY ToggleAssumption
  <2>2. PICK v \in read : hand[c].val = RoundedLimit(v)
    BY <2>1, <1>1 DEF RestoresARead
  <2>3. RoundedLimit(v) \in Nat
    BY ValuesClosed DEF ToggleInv, ToggleTypeOK
  <2> QED
    BY <2>2, <2>3
<1> QED
  BY <1>1, <1>2 DEF ToggleInv, ToggleSound

\* What the switch promises whoever turns it on: a limit that was read or the default,
\* and never 0 but for a limit that rounds to it (hub.go:188-197).
THEOREM SwitchRestores == ToggleSpec => []ToggleSound
  BY ToggleInitInv, ToggleInvInductive, RememberedIsSound, PTL DEF ToggleSpec
==============================================================================
