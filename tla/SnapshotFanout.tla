--------------------------- MODULE SnapshotFanout ---------------------------
(***************************************************************************)
(* How the hub hands each snapshot to its subscribers (serve/hub.go, poll, *)
(* Subscribe and Unsubscribe; serve/sse.go, handleSSE).  The run loop      *)
(* never waits for a subscriber: it offers the snapshot to a channel of    *)
(* capacity 2 and, when that is full, takes one out and offers again, in   *)
(* three steps a consumer may step between.                                *)
(***************************************************************************)
EXTENDS Naturals, Sequences, FiniteSets

CONSTANTS
  Clients,
  ChanCap,      \* capacity of Subscriber.C, 2 in the code
  LastSnapshot  \* bound on the number of polls

ASSUME FanoutAssumption == ChanCap \in Nat \ {0} /\ LastSnapshot \in Nat

VARIABLES
  newest,       \* Hub.latest, as the number of the poll that took it
  subscribed,   \* Hub.subscribers
  ch,           \* the channel of each client's current subscription
  since,        \* history: the snapshot that was the latest when a client subscribed
  seen,         \* the last snapshot a client took out
  pending,      \* the subscribers the poll in progress has yet to serve
  step          \* how far it is with the one it serves: offer, make room, offer again

fanoutVars == <<newest, subscribed, ch, since, seen, pending, step>>

Numbers == 0 .. LastSnapshot
Nobody  == [to |-> {}, at |-> "idle"]

FanoutTypeOK ==
  /\ newest \in Numbers
  /\ subscribed \subseteq Clients
  /\ ch \in [Clients -> Seq(Numbers)]
  /\ \A s \in Clients : Len(ch[s]) <= ChanCap
  /\ since \in [Clients -> Numbers] /\ seen \in [Clients -> Numbers]
  /\ pending \subseteq Clients
  /\ step \in [to : {{}} \cup {{s} : s \in Clients}, at : {"idle", "offer", "room", "again"}]
  /\ step.at = "idle" <=> step.to = {}

FanoutInit ==
  /\ newest = 0
  /\ subscribed = {}
  /\ ch = [s \in Clients |-> <<>>]
  /\ since = [s \in Clients |-> 0] /\ seen = [s \in Clients |-> 0]
  /\ pending = {} /\ step = Nobody

Polling == pending # {} \/ step # Nobody

-----------------------------------------------------------------------------
\* handleSSE subscribes, takes what arrives and unsubscribes in the end.  A new
\* subscription is a new Subscriber with a new channel, which no poll in
\* progress knows of: a client stands for one subscription at a time, and is
\* used again when no poll holds the old one.
Subscribe(s) ==
  /\ s \notin subscribed /\ s \notin pending /\ s \notin step.to
  /\ subscribed' = subscribed \cup {s}
  /\ ch' = [ch EXCEPT ![s] = <<>>]
  /\ since' = [since EXCEPT ![s] = newest] /\ seen' = [seen EXCEPT ![s] = newest]
  /\ UNCHANGED <<newest, pending, step>>

Unsubscribe(s) ==
  /\ s \in subscribed
  /\ subscribed' = subscribed \ {s}
  /\ UNCHANGED <<newest, ch, since, seen, pending, step>>

Receive(s) ==
  /\ s \in subscribed /\ ch[s] # <<>>
  /\ seen' = [seen EXCEPT ![s] = Head(ch[s])]
  /\ ch' = [ch EXCEPT ![s] = Tail(@)]
  /\ UNCHANGED <<newest, subscribed, since, pending, step>>

-----------------------------------------------------------------------------
\* The poll takes a snapshot and the list of subscribers at once, under mu.
Publish ==
  /\ ~Polling
  /\ newest < LastSnapshot
  /\ newest' = newest + 1
  /\ pending' = subscribed
  /\ UNCHANGED <<subscribed, ch, since, seen, step>>

Turn(s) ==
  /\ step = Nobody /\ s \in pending
  /\ pending' = pending \ {s}
  /\ step' = [to |-> {s}, at |-> "offer"]
  /\ UNCHANGED <<newest, subscribed, ch, since, seen>>

\* Mutant: a full channel is left as it is.
OfferAndForget(s) ==
  /\ step.to = {s} /\ step.at \in {"offer", "again"}
  /\ ch' = [ch EXCEPT ![s] = IF Len(@) < ChanCap THEN Append(@, newest) ELSE @]
  /\ step' = Nobody
  /\ UNCHANGED <<newest, subscribed, since, seen, pending>>

\* A send that does not block: the first is followed by two more steps when the
\* channel is full, the second by none.
Offer(s) ==
  /\ step.to = {s} /\ step.at \in {"offer", "again"}
  /\ \/ /\ Len(ch[s]) < ChanCap
        /\ ch' = [ch EXCEPT ![s] = Append(@, newest)] /\ step' = Nobody
     \/ /\ Len(ch[s]) = ChanCap /\ UNCHANGED ch
        /\ step' = IF step.at = "offer" THEN [step EXCEPT !.at = "room"] ELSE Nobody
  /\ UNCHANGED <<newest, subscribed, since, seen, pending>>

\* A receive that does not block.
MakeRoom(s) ==
  /\ step.to = {s} /\ step.at = "room"
  /\ ch' = [ch EXCEPT ![s] = IF @ = <<>> THEN @ ELSE Tail(@)]
  /\ step' = [step EXCEPT !.at = "again"]
  /\ UNCHANGED <<newest, subscribed, since, seen, pending>>

FanoutNext ==
  \/ Publish
  \/ \E s \in Clients :
       Subscribe(s) \/ Unsubscribe(s) \/ Receive(s) \/ Turn(s) \/ Offer(s) \/ MakeRoom(s)

FanoutSpec == FanoutInit /\ [][FanoutNext]_fanoutVars

-----------------------------------------------------------------------------
(***************************************************************************)
(* Properties.                                                             *)
(***************************************************************************)

\* Between two polls the newest snapshot is the last one in the channel of every
\* subscriber that was there when it was taken, or has been taken out by it:
\* what gives way to a slow consumer is the oldest (hub.go:438-451).
NewestDelivered ==
  ~Polling =>
    \A s \in subscribed :
      \/ since[s] = newest
      \/ seen[s] = newest
      \/ ch[s] # <<>> /\ ch[s][Len(ch[s])] = newest

\* A client is never shown an older snapshot after a newer one, nor one twice,
\* and what waits in its channel is newer than what it has seen.
InOrder ==
  \A s \in subscribed :
    LET shown == <<seen[s]>> \o ch[s]
    IN  \A i, j \in DOMAIN shown : i < j => shown[i] < shown[j]

\* What a subscriber may rely on: the newest snapshot, in order, of a bounded channel.
FanoutSound == FanoutTypeOK /\ NewestDelivered /\ InOrder
=============================================================================
