----------------------------- MODULE Broadcasts -----------------------------
(***************************************************************************)
(* The broker (common/broker.rs) between actors with bounded inboxes:      *)
(* subscriptions kept by identifier, the fan-out that waits for every      *)
(* subscriber's inbox, the cleanup of a stopping actor, and shutdown_all,  *)
(* which flushes the broker, stops the actors and then the broker.  A      *)
(* child that stopped may be restarted under the same identifier.          *)
(***************************************************************************)
EXTENDS Naturals, Sequences, SequencesExt

CONSTANTS
    Actor,          \* actors, all subscribing to one broadcast type
    MaxBroadcasts,  \* bound: broadcasts sent, numbered as they are queued
    MaxLives,       \* bound: incarnations of an actor in Restarted
    Restarted,      \* actors that may fail and are restarted when they end
    InboxCap,       \* capacity of an actor's inbox
    BrokerCap,      \* capacity of the broker's inbox
    Relays,         \* actors whose handler broadcasts in turn, another type
    Quitters,       \* actors that may unsubscribe
    Stale           \* whether holders of a handle use it after its actor ended

ASSUME BroadcastsAssumption ==
    /\ MaxBroadcasts \in Nat
    /\ {MaxLives, InboxCap, BrokerCap} \subseteq Nat \ {0}
    /\ Restarted \subseteq Actor /\ Relays \subseteq Actor /\ Quitters \subseteq Actor
    /\ Stale \in BOOLEAN

VARIABLES
    bq,          \* the broker's inbox
    broker,      \* [at, n, to]: idle, fanning n out to the actors of `to`, gone
    draining,    \* the broker took its stop signal and closed its inbox
    subs,        \* the incarnation of each actor the broker holds, 0 for none
    place,       \* where each actor's current incarnation is
    life,        \* its number
    inbox,       \* its inbox: numbers of broadcasts, and StopSignal
    closed,      \* actors whose inbox is closed
    loose,       \* actors with an unsubscription in a spawned task
    sd,          \* where shutdown_all is
    cancelled,   \* the runtime's token
    sent,        \* broadcasts queued so far
    subscribed,  \* actors whose last request the broker accepted was to subscribe
    owed, seen,  \* broadcasts queued while this incarnation was subscribed, handled by it
    ahead,       \* broadcasts queued ahead of the flush
    promised     \* actors open when the flush was answered that have not failed since

queue     == <<bq, sent, subscribed, owed>>
actors    == <<place, life, inbox, closed, seen>>
shutdown  == <<sd, cancelled, ahead, promised>>
vars      == <<queue, broker, draining, subs, actors, loose, shutdown>>

BrokerRequest(n)          == [do |-> "broadcast", n |-> n]
SubscribeBroker(a, l)     == [do |-> "subscribe", who |-> a, life |-> l]
RemoveSubscription(a)     == [do |-> "remove", who |-> a]
RemoveAllSubscriptions(a) == [do |-> "removeAll", who |-> a]
FlushBroadcasts           == [do |-> "flush"]
Terminate                 == [do |-> "stop"]

StopSignal == 0
OtherType == 0
Idle == [at |-> "idle", n |-> 0, to |-> {}]
Alive(a) == place[a] \in {"running", "relaying"}
Open(a) == a \notin closed
Current(a, l) == l = life[a] /\ Open(a)
Unreachable == draining \/ broker.at = "gone"
Queued == Len(bq) < BrokerCap /\ ~Unreachable

Init ==
    /\ bq = <<>> /\ broker = Idle /\ draining = FALSE
    /\ subs = [a \in Actor |-> 0]
    /\ place = [a \in Actor |-> "new"] /\ life = [a \in Actor |-> 1]
    /\ inbox = [a \in Actor |-> <<>>] /\ closed = {} /\ loose = {}
    /\ sd = "no" /\ cancelled = FALSE
    /\ sent = 0 /\ subscribed = {}
    /\ owed = [a \in Actor |-> {}] /\ seen = [a \in Actor |-> {}]
    /\ ahead = 0 /\ promised = {}

-----------------------------------------------------------------------------
(* Requests to the broker.  Each waits for room; one that meets a closed   *)
(* inbox is dropped and the sender goes on.  The runtime's token does not  *)
(* reach a sender: a handle's own token is a fresh one.                    *)

QueueRequest(m) ==
    /\ Queued
    /\ bq' = Append(bq, m)
    /\ UNCHANGED <<sent, owed>>

(* Bound: nobody outside broadcasts once the roots are being stopped.      *)
Publish ==
    /\ sd \in {"no", "asked"} /\ Queued /\ sent < MaxBroadcasts
    /\ bq' = Append(bq, BrokerRequest(sent + 1)) /\ sent' = sent + 1
    /\ owed' = [a \in Actor |-> owed[a] \cup {m \in {sent'} : a \in subscribed}]
    /\ UNCHANGED <<subscribed, broker, draining, subs, actors, loose, shutdown>>

(* An actor subscribes while it is configured; then it is started.         *)
Starts(a) ==
    /\ place[a] = "new" /\ place' = [place EXCEPT ![a] = "running"]
    /\ \/ QueueRequest(SubscribeBroker(a, life[a])) /\ subscribed' = subscribed \cup {a}
       \/ Unreachable /\ UNCHANGED queue
    /\ UNCHANGED <<broker, draining, subs, life, inbox, closed, seen, loose, shutdown>>

(* A holder of the handle of an incarnation subscribes it.                 *)
SubscribeFor(a, l) ==
    /\ a \notin subscribed /\ ((Current(a, l) /\ Alive(a)) \/ (Stale /\ l <= life[a]))
    /\ \A i \in DOMAIN bq : bq[i] # SubscribeBroker(a, l)
    /\ QueueRequest(SubscribeBroker(a, l))
    /\ subscribed' = subscribed \cup {d \in {a} : Current(d, l)}
    /\ UNCHANGED <<broker, draining, subs, actors, loose, shutdown>>

(* unsubscribe: a spawned task sends the request, whatever the actor does  *)
(* meanwhile.  unsubscribe_async is the same with nothing in between.      *)
Unsubscribe(a) ==
    /\ a \in (Quitters \cap subscribed) \ loose /\ Alive(a)
    /\ loose' = loose \cup {a}
    /\ UNCHANGED <<queue, broker, draining, subs, actors, shutdown>>

SpawnedRemoval(a) ==
    /\ a \in loose /\ loose' = loose \ {a}
    /\ \/ QueueRequest(RemoveSubscription(a)) /\ subscribed' = subscribed \ {a}
       \/ Unreachable /\ UNCHANGED queue
    /\ UNCHANGED <<broker, draining, subs, actors, shutdown>>

-----------------------------------------------------------------------------
(* The broker's message loop and handlers.                                 *)

Targets == {a \in Actor : subs[a] # 0}

TakeBroadcast(m) ==
    /\ m.do = "broadcast"
    /\ broker' = IF m.n = OtherType \/ Targets = {} THEN Idle
                 ELSE [at |-> "fanning", n |-> m.n, to |-> Targets]
    /\ UNCHANGED <<draining, subs, shutdown>>

(* HashSet::insert keeps the entry it finds equal, and handles are equal   *)
(* by identifier.                                                          *)
TakeSubscribe(m) ==
    /\ m.do = "subscribe"
    /\ subs' = IF subs[m.who] = 0 THEN [subs EXCEPT ![m.who] = m.life] ELSE subs
    /\ UNCHANGED <<broker, draining, shutdown>>

(* Slip: a single unsubscription is not honoured.                          *)
TakeRemovalOfAllOnly(m) ==
    /\ m.do \in {"remove", "removeAll"}
    /\ subs' = IF m.do = "removeAll" THEN [subs EXCEPT ![m.who] = 0] ELSE subs
    /\ UNCHANGED <<broker, draining, shutdown>>

TakeRemoval(m) ==
    /\ m.do \in {"remove", "removeAll"}
    /\ subs' = [subs EXCEPT ![m.who] = 0]
    /\ UNCHANGED <<broker, draining, shutdown>>

(* The answer is lost on a caller that no longer waits.                    *)
TakeFlush(m) ==
    /\ m.do = "flush"
    /\ IF sd = "asked"
       THEN sd' = "flushed" /\ promised' = {a \in Actor : Open(a)}
       ELSE UNCHANGED <<sd, promised>>
    /\ UNCHANGED <<broker, draining, subs, cancelled, ahead>>

TakeStop(m) ==
    /\ m.do = "stop" /\ draining' = TRUE
    /\ UNCHANGED <<broker, subs, shutdown>>

(* Slip: the handler of a broadcast does not await its fan-out.            *)
BrokerTakesFlushEarly ==
    /\ broker.at # "gone" /\ bq # <<>> /\ bq' = Tail(bq)
    /\ LET m == Head(bq) IN
         \/ TakeFlush(m)
         \/ broker.at = "idle" /\ (TakeBroadcast(m) \/ TakeSubscribe(m) \/ TakeRemoval(m) \/ TakeStop(m))
    /\ UNCHANGED <<sent, subscribed, owed, actors, loose>>

BrokerTakes ==
    /\ broker.at = "idle" /\ bq # <<>> /\ bq' = Tail(bq)
    /\ LET m == Head(bq) IN
         TakeBroadcast(m) \/ TakeSubscribe(m) \/ TakeRemoval(m) \/ TakeFlush(m) \/ TakeStop(m)
    /\ UNCHANGED <<sent, subscribed, owed, actors, loose>>

FanOutStopped(a) == subs[a] # life[a] \/ ~Open(a)
FanOutTo(a) == [broker EXCEPT !.to = @ \ {a}]

(* Slip: the fan-out does not mind the capacity.                           *)
FanOutUnbounded(a) ==
    /\ broker.at = "fanning" /\ a \in broker.to
    /\ broker' = IF broker.to = {a} THEN Idle ELSE FanOutTo(a)
    /\ inbox' = IF FanOutStopped(a) THEN inbox ELSE [inbox EXCEPT ![a] = Append(@, broker.n)]
    /\ UNCHANGED <<queue, draining, subs, place, life, closed, seen, loose, shutdown>>

(* One send of the fan-out: it waits for room in the subscriber's inbox    *)
(* and gives up on a closed one.  The handler ends with the last of them.  *)
FanOut(a) ==
    /\ broker.at = "fanning" /\ a \in broker.to
    /\ broker' = IF broker.to = {a} THEN Idle ELSE FanOutTo(a)
    /\ \/ FanOutStopped(a) /\ UNCHANGED inbox
       \/ /\ ~FanOutStopped(a) /\ Len(inbox[a]) < InboxCap
          /\ inbox' = [inbox EXCEPT ![a] = Append(@, broker.n)]
    /\ UNCHANGED <<queue, draining, subs, place, life, closed, seen, loose, shutdown>>

BrokerStops ==
    /\ broker.at = "idle" /\ (cancelled \/ (draining /\ bq = <<>>))
    /\ broker' = [Idle EXCEPT !.at = "gone"] /\ bq' = <<>>
    /\ UNCHANGED <<sent, subscribed, owed, draining, subs, actors, loose, shutdown>>

-----------------------------------------------------------------------------
(* An actor: its loop, its cleanup, its replacement.                       *)

Handle(a) ==
    /\ place[a] = "running" /\ inbox[a] # <<>> /\ Head(inbox[a]) # StopSignal
    /\ inbox' = [inbox EXCEPT ![a] = Tail(@)]
    /\ seen' = [seen EXCEPT ![a] = @ \cup {Head(inbox[a])}]
    /\ place' = [place EXCEPT ![a] = IF a \in Relays THEN "relaying" ELSE @]
    /\ UNCHANGED <<queue, broker, draining, subs, life, closed, loose, shutdown>>

(* The broadcast from inside the handler, awaited there.  Nobody here      *)
(* subscribes to its type.                                                 *)
Relay(a) ==
    /\ place[a] = "relaying" /\ place' = [place EXCEPT ![a] = "running"]
    /\ \/ QueueRequest(BrokerRequest(OtherType)) /\ UNCHANGED subscribed
       \/ Unreachable /\ UNCHANGED queue
    /\ UNCHANGED <<broker, draining, subs, life, inbox, closed, seen, loose, shutdown>>

(* The stop signal closes the inbox; what is already in it is still        *)
(* handled.                                                                *)
HandleStop(a) ==
    /\ place[a] = "running" /\ inbox[a] # <<>> /\ Head(inbox[a]) = StopSignal
    /\ inbox' = [inbox EXCEPT ![a] = Tail(@)] /\ closed' = closed \cup {a}
    /\ UNCHANGED <<queue, broker, draining, subs, place, life, seen, loose, shutdown>>

(* Slip: the inbox is left open until the removal is sent.                 *)
LeavingOpen(a) ==
    /\ place' = [place EXCEPT ![a] = "leaving"] /\ UNCHANGED <<closed, inbox>>
    /\ subscribed' = subscribed \ {a}

(* shutdown_cleanup: the inbox is closed before the removal is sent, so    *)
(* the broker, should it be waiting for room here, is let go first.        *)
Leaving(a) ==
    /\ place' = [place EXCEPT ![a] = "leaving"]
    /\ closed' = closed \cup {a} /\ inbox' = [inbox EXCEPT ![a] = <<>>]
    /\ subscribed' = subscribed \ {a}

Drained(a) ==
    /\ place[a] = "running" /\ inbox[a] = <<>> /\ a \in closed
    /\ Leaving(a)
    /\ UNCHANGED <<bq, sent, owed, broker, draining, subs, life, seen, loose, shutdown>>

(* Slip: a panic ends the task without the cleanup.                        *)
FailsUncleaned(a) ==
    /\ place[a] = "running" /\ inbox[a] # <<>> /\ a \in Restarted /\ life[a] < MaxLives
    /\ place' = [place EXCEPT ![a] = "down"] /\ promised' = promised \ {a}
    /\ closed' = closed \cup {a} /\ inbox' = [inbox EXCEPT ![a] = <<>>]
    /\ subscribed' = subscribed \ {a}
    /\ UNCHANGED <<bq, sent, owed, broker, draining, subs, life, seen, loose, sd, cancelled, ahead>>

(* A handler panics: the backlog is abandoned.                             *)
Fails(a) ==
    /\ place[a] = "running" /\ inbox[a] # <<>> /\ a \in Restarted /\ life[a] < MaxLives
    /\ Leaving(a) /\ promised' = promised \ {a}
    /\ UNCHANGED <<bq, sent, owed, broker, draining, subs, life, seen, loose, sd, cancelled, ahead>>

ForcedOut(a) ==
    /\ cancelled /\ place[a] = "running"
    /\ Leaving(a)
    /\ UNCHANGED <<bq, sent, owed, broker, draining, subs, life, seen, loose, shutdown>>

Removed(a) ==
    /\ \/ QueueRequest(RemoveAllSubscriptions(a)) /\ UNCHANGED subscribed
       \/ Unreachable /\ UNCHANGED queue

(* Slip: the removal is not sent to a broker that is busy.                 *)
LeaveHasty(a) ==
    /\ place[a] = "leaving" /\ place' = [place EXCEPT ![a] = "down"]
    /\ Removed(a) \/ (Len(bq) = BrokerCap /\ UNCHANGED queue)
    /\ UNCHANGED <<broker, draining, subs, life, inbox, closed, seen, loose, shutdown>>

(* The parent hears of the end after the cleanup, and only then may it     *)
(* build a replacement.                                                    *)
Leave(a) ==
    /\ place[a] = "leaving" /\ place' = [place EXCEPT ![a] = "down"]
    /\ Removed(a)
    /\ UNCHANGED <<broker, draining, subs, life, inbox, closed, seen, loose, shutdown>>

Restart(a) ==
    /\ place[a] = "down" /\ a \in Restarted /\ life[a] < MaxLives /\ sd = "no"
    /\ place' = [place EXCEPT ![a] = "new"] /\ life' = [life EXCEPT ![a] = @ + 1]
    /\ closed' = closed \ {a}
    /\ owed' = [owed EXCEPT ![a] = {}] /\ seen' = [seen EXCEPT ![a] = {}]
    /\ UNCHANGED <<bq, sent, subscribed, broker, draining, subs, inbox, loose, shutdown>>

-----------------------------------------------------------------------------
(* stop and shutdown_all.                                                  *)

SendStop(a) ==
    /\ Open(a) /\ Len(inbox[a]) < InboxCap /\ ~Contains(inbox[a], StopSignal)
    /\ inbox' = [inbox EXCEPT ![a] = Append(@, StopSignal)]
    /\ UNCHANGED <<queue, broker, draining, subs, place, life, closed, seen, loose, shutdown>>

(* Somebody stops one actor.                                               *)
StopOne(a) == sd \in {"no", "asked"} /\ Alive(a) /\ SendStop(a)

AskFlush ==
    /\ sd = "no" /\ sd' = "asked"
    /\ QueueRequest(FlushBroadcasts) /\ ahead' = sent
    /\ UNCHANGED <<subscribed, broker, draining, subs, actors, loose, cancelled, promised>>

(* The deadline of the ask covers the wait for room; a failed flush does   *)
(* not stop the shutdown.                                                  *)
FlushFails ==
    /\ sd \in {"no", "asked"} /\ sd' = "flushed" /\ promised' = {}
    /\ UNCHANGED <<queue, broker, draining, subs, actors, loose, cancelled, ahead>>

StopRoot(a) == sd = "flushed" /\ ~cancelled /\ SendStop(a)

(* system_shutdown_timeout: every task is cancelled.                       *)
ShutdownExpires ==
    /\ sd = "flushed" /\ ~cancelled /\ cancelled' = TRUE /\ promised' = {}
    /\ UNCHANGED <<queue, broker, draining, subs, actors, loose, sd, ahead>>

RootsEnded == sd = "flushed" /\ (cancelled \/ \A a \in Actor : place[a] = "down")

StopBroker ==
    /\ RootsEnded /\ sd' = "waiting"
    /\ \/ QueueRequest(Terminate) /\ UNCHANGED subscribed
       \/ Unreachable /\ UNCHANGED queue
    /\ UNCHANGED <<broker, draining, subs, actors, loose, cancelled, ahead, promised>>

ShutdownReturns ==
    /\ sd = "waiting" /\ broker.at = "gone" /\ sd' = "done"
    /\ UNCHANGED <<queue, broker, draining, subs, actors, loose, cancelled, ahead, promised>>

BrokerTimesOut ==
    /\ RootsEnded \/ sd = "waiting"
    /\ sd' = "failed"
    /\ UNCHANGED <<queue, broker, draining, subs, actors, loose, cancelled, ahead, promised>>

-----------------------------------------------------------------------------
ActorStep(a) ==
    \/ Starts(a) \/ Handle(a) \/ Relay(a) \/ HandleStop(a) \/ Drained(a)
    \/ ForcedOut(a)

Next ==
    \/ Publish \/ BrokerTakes \/ BrokerStops
    \/ AskFlush \/ FlushFails \/ ShutdownExpires
    \/ StopBroker \/ ShutdownReturns \/ BrokerTimesOut
    \/ \E a \in Actor :
         \/ ActorStep(a) \/ Leave(a) \/ Fails(a) \/ Restart(a) \/ FanOut(a)
         \/ Unsubscribe(a) \/ SpawnedRemoval(a)
         \/ StopOne(a) \/ StopRoot(a)
         \/ \E l \in 1..MaxLives : SubscribeFor(a, l)

Spec == Init /\ [][Next]_vars

(* Tasks are polled and handlers return; the senders waiting for room in   *)
(* the broker's inbox are served in turn.                                  *)
Fairness ==
    /\ WF_vars(BrokerTakes) /\ WF_vars(BrokerStops)
    /\ \A a \in Actor :
         WF_vars(ActorStep(a)) /\ SF_vars(Leave(a)) /\ WF_vars(FanOut(a))

FairSpec == Spec /\ Fairness

-----------------------------------------------------------------------------
(* Every variable has its type, and no inbox ever holds more than its      *)
(* capacity.                                                               *)
BroadcastsTypeOK ==
    /\ Len(bq) <= BrokerCap /\ \A i \in DOMAIN bq :
         bq[i].do \in {"broadcast", "subscribe", "remove", "removeAll", "flush", "stop"}
    /\ broker.at \in {"idle", "fanning", "gone"} /\ broker.to \subseteq Actor
    /\ draining \in BOOLEAN /\ cancelled \in BOOLEAN
    /\ subs \in [Actor -> 0..MaxLives] /\ life \in [Actor -> 1..MaxLives]
    /\ place \in [Actor -> {"new", "running", "relaying", "leaving", "down"}]
    /\ \A a \in Actor : Len(inbox[a]) <= InboxCap
    /\ {closed, loose, subscribed, promised} \subseteq SUBSET Actor
    /\ sent \in 0..MaxBroadcasts /\ ahead \in 0..MaxBroadcasts
    /\ {owed, seen} \subseteq [Actor -> SUBSET (1..MaxBroadcasts)]

Settled(a) == \A i \in DOMAIN bq :
    bq[i].do \in {"subscribe", "remove", "removeAll"} => bq[i].who # a

(* Once the broker has caught up with the requests about an actor, it      *)
(* holds the running incarnation of an actor that subscribed, and never an *)
(* earlier one or none: the removal a stopped incarnation sent cannot take *)
(* the subscription of its replacement (RemoveAllSubscriptions removes by  *)
(* identifier).                                                            *)
SubscriberIsCurrent ==
    \A a \in subscribed : Settled(a) /\ broker.at # "gone" => subs[a] = life[a]

(* Stopped actors do not linger in the broker's registry: once it has      *)
(* caught up, it holds nothing of an actor that is down.                   *)
NoneLingers ==
    \A a \in Actor : place[a] = "down" /\ Settled(a) /\ ~Unreachable => subs[a] = 0

(* The broker's table follows the actors.                                  *)
BrokerIsConsistent == BroadcastsTypeOK /\ SubscriberIsCurrent /\ NoneLingers

(* A broadcast is only handled by an incarnation that was subscribed when  *)
(* it was queued: none reaches an actor after its unsubscribe_async, or    *)
(* from before its subscription.                                           *)
DeliveryWasAskedFor == \A a \in Actor : seen[a] \subseteq owed[a]

(* shutdown_all loses no broadcast queued before its flush: when it        *)
(* returns, every actor that was open when the flush was answered has      *)
(* handled every such broadcast it was subscribed to.                      *)
ShutdownLosesNoBroadcast ==
    sd = "done" =>
        \A a \in promised : owed[a] \cap (1..ahead) \subseteq seen[a]

(* The broker waits for an actor that waits for the broker.                *)
Gridlock ==
    /\ broker.at = "fanning" /\ Len(bq) = BrokerCap
    /\ \E a \in broker.to : place[a] = "relaying" /\ Len(inbox[a]) = InboxCap

(* Stopping actors always get through their cleanup, though they await the *)
(* broker there: again and again there is none in it, unless the broker is *)
(* waiting for a handler that waits for the broker.                        *)
StopsComplete == []<>(Gridlock \/ \A a \in Actor : place[a] # "leaving")

=============================================================================
