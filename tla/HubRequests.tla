---------------------------- MODULE HubRequests ----------------------------
(***************************************************************************)
(* Calls into the hub's run loop (serve/hub.go): WriteSetting and          *)
(* WithConditioning queue a request and wait; the run loop takes requests  *)
(* one at a time; a caller whose context expires stops waiting, wherever   *)
(* its request is.  ReadFaults follows the protocol of WriteSetting,       *)
(* without its look at the reservation.                                    *)
(*                                                                         *)
(* A call is one use of a function, with a request, a context and a result *)
(* channel of its own.  ConditioningService makes its calls one at a time, *)
(* under opMu, and owns the reservation they run under.                    *)
(***************************************************************************)
EXTENDS Naturals, Sequences, FiniteSets

CONSTANTS
  Writes,             \* calls of WriteSetting
  Callbacks,          \* calls of WithConditioning
  NoCall,
  WriteCap,           \* capacity of writeCh, 8 in the code
  CallbackCap         \* capacity of conditioningCh, 2 in the code

Calls == Writes \cup Callbacks

ASSUME CallsAssumption == /\ Writes \cap Callbacks = {} /\ NoCall \notin Calls
                          /\ WriteCap \in Nat \ {0} /\ CallbackCap \in Nat \ {0}

VARIABLES
  at,          \* where a caller stands: held once the run loop has claimed its callback
  expired,     \* whether the caller's context is done
  box,         \* the result channel of a call, of capacity 1
  answer,      \* what a call returned, late for its context's error
  writeCh, conditioningCh,
  loop,        \* what the run loop does, from claim or checked to work for the call it serves
  serving,
  stopping,    \* the context of Run is done
  reserved,    \* Hub.conditioningReserved
  ran,         \* history: how often the hub did what a call asks for
  entered      \* history: a callback has been run since the reservation was made

caller  == <<at, expired, answer>>
queues  == <<writeCh, conditioningCh>>
hubVars == <<caller, box, queues, loop, serving, stopping, reserved, ran, entered>>

Answers == {"none", "ok", "error", "late"}

RequestsTypeOK ==
  /\ at \in [Calls -> {"ready", "send", "wait", "held", "done"}]
  /\ expired \in [Calls -> BOOLEAN]
  /\ box \in [Calls -> Answers \ {"late"}]
  /\ answer \in [Calls -> Answers]
  /\ writeCh \in Seq(Writes) /\ Len(writeCh) <= WriteCap
  /\ conditioningCh \in Seq(Callbacks) /\ Len(conditioningCh) <= CallbackCap
  /\ loop \in {"off", "select", "poll", "claim", "checked", "work", "stopped"}
  /\ serving \in Calls \cup {NoCall}
  /\ stopping \in BOOLEAN /\ reserved \in BOOLEAN
  /\ ran \in [Calls -> Nat] /\ entered \in BOOLEAN

RequestsInit ==
  /\ at = [c \in Calls |-> "ready"]
  /\ expired = [c \in Calls |-> FALSE]
  /\ box = [c \in Calls |-> "none"]
  /\ answer = [c \in Calls |-> "none"]
  /\ writeCh = <<>> /\ conditioningCh = <<>>
  /\ loop = "off" /\ serving = NoCall
  /\ stopping = FALSE /\ reserved = FALSE
  /\ ran = [c \in Calls |-> 0] /\ entered = FALSE

-----------------------------------------------------------------------------
\* The callers.

InCallback == {c \in Callbacks : at[c] \in {"send", "wait", "held"}}

ReturnWith(c, a) ==
  /\ at' = [at EXCEPT ![c] = "done"]
  /\ answer' = [answer EXCEPT ![c] = a]

\* ConditioningService holds opMu around every operation, so it reserves,
\* releases and calls WithConditioning only while none of its calls is open.
Reserve ==
  /\ ~reserved /\ InCallback = {}
  /\ reserved' = TRUE /\ entered' = FALSE
  /\ UNCHANGED <<caller, box, queues, loop, serving, stopping, ran>>

Release ==
  /\ reserved /\ InCallback = {}
  /\ reserved' = FALSE /\ entered' = FALSE
  /\ UNCHANGED <<caller, box, queues, loop, serving, stopping, ran>>

BeginCall(c) ==
  /\ at[c] = "ready"
  /\ c \in Callbacks => InCallback = {}
  /\ at' = [at EXCEPT ![c] = "send"]
  /\ UNCHANGED <<expired, answer, box, queues, loop, serving, stopping, reserved, ran, entered>>

Enqueue(c) ==
  /\ at[c] = "send"
  /\ \/ /\ c \in Writes /\ Len(writeCh) < WriteCap
        /\ writeCh' = Append(writeCh, c) /\ UNCHANGED conditioningCh
     \/ /\ c \in Callbacks /\ Len(conditioningCh) < CallbackCap
        /\ conditioningCh' = Append(conditioningCh, c) /\ UNCHANGED writeCh
  /\ at' = [at EXCEPT ![c] = "wait"]
  /\ UNCHANGED <<expired, answer, box, loop, serving, stopping, reserved, ran, entered>>

\* A timeout or a client that goes away, at any time.
Expire(c) ==
  /\ at[c] \in {"send", "wait", "held"}
  /\ ~expired[c]
  /\ expired' = [expired EXCEPT ![c] = TRUE]
  /\ UNCHANGED <<at, answer, box, queues, loop, serving, stopping, reserved, ran, entered>>

\* Mutant: a caller stops waiting for a callback that has been claimed.
GiveUpHeld(c) ==
  /\ at[c] \in {"send", "wait", "held"}
  /\ expired[c]
  /\ ReturnWith(c, "late")
  /\ UNCHANGED <<expired, box, queues, loop, serving, stopping, reserved, ran, entered>>

GiveUp(c) ==
  /\ at[c] \in {"send", "wait"}
  /\ expired[c]
  /\ ReturnWith(c, "late")
  /\ UNCHANGED <<expired, box, queues, loop, serving, stopping, reserved, ran, entered>>

ReceiveAnswer(c) ==
  /\ at[c] \in {"wait", "held"}
  /\ box[c] # "none"
  /\ ReturnWith(c, box[c])
  /\ box' = [box EXCEPT ![c] = "none"]
  /\ UNCHANGED <<expired, queues, loop, serving, stopping, reserved, ran, entered>>

-----------------------------------------------------------------------------
\* The run loop.

Reply(c, a) == box' = [box EXCEPT ![c] = a]

\* Run's first two calls, refreshSettings and poll.
Run ==
  /\ loop = "off"
  /\ loop' = "poll"
  /\ UNCHANGED <<caller, box, queues, serving, stopping, reserved, ran, entered>>

\* The tickers: a poll or a refresh of the settings, to its end.
Tick ==
  /\ loop = "select"
  /\ loop' = "poll"
  /\ UNCHANGED <<caller, box, queues, serving, stopping, reserved, ran, entered>>

Polled ==
  /\ loop = "poll"
  /\ loop' = "select"
  /\ UNCHANGED <<caller, box, queues, serving, stopping, reserved, ran, entered>>

Cancel ==
  /\ loop # "off" /\ ~stopping
  /\ stopping' = TRUE
  /\ UNCHANGED <<caller, box, queues, loop, serving, reserved, ran, entered>>

Quit ==
  /\ loop = "select" /\ stopping
  /\ loop' = "stopped"
  /\ UNCHANGED <<caller, box, queues, serving, stopping, reserved, ran, entered>>

Start(c) ==
  /\ loop' = "work" /\ serving' = c
  /\ ran' = [ran EXCEPT ![c] = @ + 1]

Check(c) == loop' = "checked" /\ serving' = c

\* Mutant: a queued write is not turned away by the reservation.
TakeWriteAnyway ==
  /\ loop = "select" /\ writeCh # <<>>
  /\ writeCh' = Tail(writeCh)
  /\ Check(Head(writeCh))
  /\ UNCHANGED <<caller, box, conditioningCh, stopping, reserved, ran, entered>>

\* Mutant: a write turned away by the reservation is dropped without an answer.
TakeWriteSilent ==
  /\ loop = "select" /\ writeCh # <<>>
  /\ writeCh' = Tail(writeCh)
  /\ \/ reserved /\ UNCHANGED <<loop, serving>>
     \/ ~reserved /\ Check(Head(writeCh))
  /\ UNCHANGED <<caller, box, conditioningCh, stopping, reserved, ran, entered>>

\* handleWrite's look at the reservation, under the lock and no longer: the
\* reservation may be made before the write is performed.  Nobody looks at the
\* caller's context: a write its caller has given up is executed all the same.
TakeWrite ==
  /\ loop = "select" /\ writeCh # <<>>
  /\ writeCh' = Tail(writeCh)
  /\ \/ /\ reserved
        /\ Reply(Head(writeCh), "error") /\ UNCHANGED <<loop, serving>>
     \/ /\ ~reserved
        /\ Check(Head(writeCh)) /\ UNCHANGED box
  /\ UNCHANGED <<caller, conditioningCh, stopping, reserved, ran, entered>>

\* The rest of handleWrite, which Finish ends.
PerformWrite ==
  /\ loop = "checked"
  /\ Start(serving)
  /\ UNCHANGED <<caller, box, queues, stopping, reserved, entered>>

\* Mutant: a callback is run as soon as it is taken.
TakeCallbackUnclaimed ==
  /\ loop = "select" /\ conditioningCh # <<>>
  /\ conditioningCh' = Tail(conditioningCh)
  /\ Start(Head(conditioningCh))
  /\ entered' = TRUE
  /\ UNCHANGED <<caller, box, writeCh, stopping, reserved>>

\* handleConditioning up to its select.
TakeCallback ==
  /\ loop = "select" /\ conditioningCh # <<>>
  /\ conditioningCh' = Tail(conditioningCh)
  /\ LET c == Head(conditioningCh) IN
       \/ /\ stopping \/ expired[c] \/ ~reserved
          /\ Reply(c, "error") /\ UNCHANGED <<loop, serving>>
       \/ /\ ~stopping /\ ~expired[c] /\ reserved
          /\ loop' = "claim" /\ serving' = c /\ UNCHANGED box
  /\ UNCHANGED <<caller, writeCh, stopping, reserved, ran, entered>>

\* The unbuffered claim channel: the caller is in its second select.  Either
\* side may also find a context done, and takes any case that is ready.
Claim ==
  /\ loop = "claim" /\ at[serving] = "wait"
  /\ at' = [at EXCEPT ![serving] = "held"]
  /\ Start(serving) /\ entered' = TRUE
  /\ UNCHANGED <<expired, answer, box, queues, stopping, reserved>>

\* Mutant: the run loop waits for its claim and for nothing else.
DiscardAwaited ==
  /\ loop = "claim" /\ at[serving] = "wait"
  /\ stopping
  /\ Reply(serving, "error")
  /\ loop' = "select" /\ serving' = NoCall
  /\ UNCHANGED <<caller, queues, stopping, reserved, ran, entered>>

Discard ==
  /\ loop = "claim"
  /\ expired[serving] \/ stopping
  /\ Reply(serving, "error")
  /\ loop' = "select" /\ serving' = NoCall
  /\ UNCHANGED <<caller, queues, stopping, reserved, ran, entered>>

Finish ==
  /\ loop = "work"
  /\ \E a \in {"ok", "error"} : Reply(serving, a)
  /\ loop' = "select" /\ serving' = NoCall
  /\ UNCHANGED <<caller, queues, stopping, reserved, ran, entered>>

RequestsNext ==
  \/ Reserve \/ Release
  \/ \E c \in Calls : BeginCall(c) \/ Enqueue(c) \/ Expire(c) \/ GiveUp(c) \/ ReceiveAnswer(c)
  \/ Run \/ Tick \/ Polled \/ Cancel \/ Quit
  \/ TakeWrite \/ PerformWrite \/ TakeCallback \/ Claim \/ Discard \/ Finish

RequestsSpec == RequestsInit /\ [][RequestsNext]_hubVars

\* Goroutines that can run do; a poll and a request end; select chooses among
\* what is ready at random, and the senders of a full channel wait in line.
\* No context need expire.
Fairness ==
  /\ WF_hubVars(Run) /\ WF_hubVars(Polled) /\ SF_hubVars(Quit)
  /\ SF_hubVars(TakeWrite) /\ SF_hubVars(TakeCallback)
  /\ WF_hubVars(PerformWrite) /\ WF_hubVars(Claim \/ Discard) /\ WF_hubVars(Finish)
  /\ \A c \in Calls : SF_hubVars(Enqueue(c)) /\ WF_hubVars(GiveUp(c) \/ ReceiveAnswer(c))

LiveSpec == RequestsSpec /\ Fairness

-----------------------------------------------------------------------------
(***************************************************************************)
(* Properties.                                                             *)
(***************************************************************************)

Working(kind) == loop = "work" /\ serving \in kind

\* While a callback runs its caller waits for it and the reservation it runs
\* under is held, however contexts expired on the way (hub.go:133-137).
CallbackIsAwaited ==
  Working(Callbacks) => at[serving] = "held" /\ reserved

\* A call returns success exactly when what it asked for has been done, once.
\* A conditioning call that returns its context's error has not been run and
\* never will be: "a canceled request is discarded before its callback is
\* invoked" (hub.go:117-121).
AnswersAreTrue ==
  \A c \in Calls :
    /\ ran[c] <= 1
    /\ answer[c] = "ok" => ran[c] = 1
    /\ answer[c] = "late" /\ c \in Callbacks => ran[c] = 0

\* From the first callback of a reservation to its release no owner's write is
\* performed or about to be (hub.go:96-97, 117-121).  A write that was past its
\* look at the reservation when this was made may run before that callback.
CallbacksUndisturbed ==
  reserved /\ entered => ~(loop \in {"checked", "work"} /\ serving \in Writes)

\* Every call returns, whether or not its context ever expires, as long as the
\* run loop is not told to stop.
EveryCallReturns ==
  \A c \in Calls : at[c] \in {"send", "wait", "held"} ~> at[c] = "done" \/ stopping

\* A run loop that is told to stop stops, although a caller it is about to
\* claim may be gone (hub.go:315-323).
StopsWhenTold == stopping ~> loop = "stopped"
=============================================================================
