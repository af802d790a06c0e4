----------------------------- MODULE IpcListener -----------------------------
(***************************************************************************)
(* The IPC listener (ipc/listener.rs): the accept loop with its connection *)
(* permits, one task and one writer task per connection, the in-flight     *)
(* count that a graceful shutdown waits on, and the cancellation tokens    *)
(* that cut all of it short.  One exposed actor answers the requests; its  *)
(* handler may also change the registry of exposed names, whose read lock  *)
(* a connection holds while it waits for a reply.                          *)
(***************************************************************************)
EXTENDS Naturals, FiniteSets, Sequences, SequencesExt

CONSTANTS
    MaxConns,   \* bound: clients that connect, each once, numbered as they come
    Limits,     \* values of max_connections to try
    MaxFrames,  \* bound: frames a client sends
    WriterCap,  \* WRITER_CHANNEL_CAPACITY
    InboxCap,   \* capacity of the actor's inbox
    Workers,    \* threads of the runtime that run all of its tasks
    Policy,     \* whether connections are admitted by a security policy
    Watching    \* whether answers lost to a cancellation are noted

ASSUME ListenerAssumption ==
    /\ Limits \subseteq Nat /\ {MaxConns, MaxFrames} \subseteq Nat
    /\ {WriterCap, InboxCap, Workers} \subseteq Nat \ {0}
    /\ {Policy, Watching} \subseteq BOOLEAN

VARIABLES
    limit, permits,   \* max_connections and the semaphore's free permits
    acceptor,         \* "accepting", "refusing" or "gone"
    left,             \* frames of each client the listener may still read
    conn,             \* where each connection's task is
    cancelled,        \* connections whose own token is cancelled
    wq, writer,       \* each writer task's queue and place
    inflight,         \* in_flight_requests
    guarded,          \* connections holding an InFlightGuard
    notifying,        \* those that took the count to 0 and have yet to notify
    draining, stop,   \* ShutdownState, the listener's token
    shut,             \* [at, woken, drained]: the graceful shutdown
    actor, inbox,     \* the actor: [at, for]; the requests in its inbox
    cut               \* connections whose accepted request went unanswered when the listener stopped

tasks   == <<conn, left, cancelled, wq, writer>>
drain   == <<inflight, guarded, notifying>>
ending  == <<draining, stop, shut>>
actors  == <<actor, inbox>>
vars    == <<limit, permits, acceptor, tasks, drain, ending, actors, cut>>

Conns == 1..MaxConns
Nobody == 0

Connected == {"admitting", "reading", "checked", "asking", "streaming", "replying",
              "answering", "closing", "joining"}
Cancelled(c) == c \in cancelled \/ stop
Runs(c, at) == conn[c] = at /\ c \notin notifying
To(c, at) == conn' = [conn EXCEPT ![c] = at]

Init ==
    /\ limit \in Limits /\ permits = limit /\ acceptor = "accepting"
    /\ conn = [c \in Conns |-> "none"] /\ left = [c \in Conns |-> MaxFrames]
    /\ cancelled = {}
    /\ wq = [c \in Conns |-> <<>>] /\ writer = [c \in Conns |-> "none"]
    /\ inflight = 0 /\ guarded = {} /\ notifying = {}
    /\ draining = FALSE /\ stop = FALSE
    /\ shut = [at |-> "no", woken |-> FALSE, drained |-> FALSE]
    /\ actor = [at |-> "idle", for |-> Nobody] /\ inbox = <<>>
    /\ cut = {}

-----------------------------------------------------------------------------
(* accept_loop.  Draining does not stop it, the token does. *)

Accept(c) ==
    /\ acceptor = "accepting" /\ ~stop /\ conn[c] = "none"
    /\ \A d \in 1..(c - 1) : conn[d] # "none"
    /\ IF permits > 0
       THEN permits' = permits - 1 /\ To(c, "admitting") /\ UNCHANGED acceptor
       ELSE acceptor' = "refusing" /\ To(c, "refused") /\ UNCHANGED permits
    /\ UNCHANGED <<limit, left, cancelled, wq, writer, drain, ending, actors, cut>>

(* reject_at_connection_limit: the loop itself writes the refusal, for at  *)
(* most REJECTION_WRITE_TIMEOUT, and drops the socket.                     *)
Refuse(c) ==
    /\ acceptor = "refusing" /\ conn[c] = "refused"
    /\ acceptor' = "accepting" /\ To(c, "gone")
    /\ UNCHANGED <<limit, permits, left, cancelled, wq, writer, drain, ending, actors, cut>>

AcceptorStops ==
    /\ acceptor = "accepting" /\ stop /\ acceptor' = "gone"
    /\ UNCHANGED <<limit, permits, tasks, drain, ending, actors, cut>>

-----------------------------------------------------------------------------
(* handle_connection *)

(* The policy, if there is one, admits the connection, which is registered *)
(* and gets its writer and push tasks; or it denies it or takes too long,  *)
(* which is written within a time limit before the task returns.           *)
Admission(c) ==
    /\ conn[c] = "admitting"
    /\ \/ /\ Policy => ~Cancelled(c)
          /\ To(c, "reading")
          /\ writer' = [writer EXCEPT ![c] = "idle"] /\ UNCHANGED permits
       \/ /\ Policy /\ To(c, "gone") /\ permits' = permits + 1
          /\ UNCHANGED writer
    /\ UNCHANGED <<limit, acceptor, left, cancelled, wq, drain, ending, actors, cut>>

(* A request in the drain phase or over the rate limit is told so without  *)
(* being counted ...                                                       *)
Untracked(c) == To(c, "answering")

(* ... as is any other frame: a heartbeat, a subscription, a discovery.    *)
Discover(c) == To(c, "answering")

ReadFrame(c) ==
    /\ Runs(c, "reading") /\ ~Cancelled(c) /\ left[c] > 0
    /\ left' = [left EXCEPT ![c] = @ - 1]
    /\ Untracked(c) \/ Discover(c) \/ (~draining /\ To(c, "checked"))
    /\ UNCHANGED <<limit, permits, acceptor, cancelled, wq, writer, drain, ending, actors, cut>>

Track(c) == inflight' = inflight + 1 /\ guarded' = guarded \union {c}

(* Told at once: it cannot be parsed, is denied, names no actor or finds   *)
(* the inbox full.                                                         *)
TurnedAway(c) == To(c, "replying") /\ UNCHANGED inbox

(* process_fire_and_forget: nobody waits for the actor. *)
Tell(c) == To(c, "replying") /\ inbox' = Append(inbox, Nobody)

(* process_request_response, inside process_envelope, waits for the one    *)
(* reply with the registry's entry locked ...                              *)
Ask(c) == To(c, "asking") /\ inbox' = Append(inbox, c)

(* ... process_stream_request drops the entry first. *)
OpenStream(c) == To(c, "streaming") /\ inbox' = Append(inbox, c)

(* Slip: the inbox takes whatever it is sent. *)
DispatchUnbounded(c) ==
    /\ conn[c] = "checked" /\ Track(c)
    /\ TurnedAway(c) \/ Tell(c) \/ Ask(c) \/ OpenStream(c)
    /\ UNCHANGED <<limit, permits, acceptor, left, cancelled, wq, writer, notifying, ending, actor, cut>>

(* try_send: the inbox takes the message at once or not at all. *)
InboxTakes == Len(inbox) < InboxCap

(* A step after is_draining was read, the request is counted in flight;    *)
(* it is sent to the actor with try_send.                                  *)
Dispatch(c) ==
    /\ conn[c] = "checked" /\ Track(c)
    /\ TurnedAway(c) \/ (InboxTakes /\ (Tell(c) \/ Ask(c) \/ OpenStream(c)))
    /\ UNCHANGED <<limit, permits, acceptor, left, cancelled, wq, writer, notifying, ending, actor, cut>>

(* The connection's end of the reply channel is gone: whatever the actor   *)
(* still does with the request reaches nobody.                             *)
Abandon(c) ==
    /\ inbox' = [i \in 1..Len(inbox) |-> IF inbox[i] = c THEN Nobody ELSE inbox[i]]
    /\ actor' = IF actor.for = c THEN [actor EXCEPT !.for = Nobody] ELSE actor

(* Slip: only streams have a deadline. *)
AskTimesOutNever(c) ==
    /\ conn[c] = "streaming" /\ To(c, "replying") /\ Abandon(c)
    /\ UNCHANGED <<limit, permits, acceptor, left, cancelled, wq, writer, drain, ending, cut>>

(* The reply's deadline, or the stream's. *)
AskTimesOut(c) ==
    /\ conn[c] \in {"asking", "streaming"} /\ To(c, "replying") /\ Abandon(c)
    /\ UNCHANGED <<limit, permits, acceptor, left, cancelled, wq, writer, drain, ending, cut>>

(* Slip: the guard is dropped by hand, and not where a future is cancelled. *)
DropGuardUncancelled(c) ==
    IF Cancelled(c) THEN UNCHANGED drain
    ELSE /\ guarded' = guarded \ {c}
         /\ inflight' = IF c \in guarded THEN inflight - 1 ELSE inflight
         /\ notifying' = IF c \in guarded /\ inflight = 1 THEN notifying \union {c} ELSE notifying

(* decrement_in_flight: the last one out notifies, in a step of its own.   *)
DropGuard(c) ==
    /\ guarded' = guarded \ {c}
    /\ inflight' = IF c \in guarded THEN inflight - 1 ELSE inflight
    /\ notifying' = IF c \in guarded /\ inflight = 1 THEN notifying \union {c} ELSE notifying

(* Commands are told apart only where losses are noted. *)
Kind(c) == IF Watching /\ c \in guarded THEN "answer" ELSE "other"

(* The frame's reply goes to the writer once there is room for it, or the  *)
(* connection ends with the writer; then the guard is dropped.             *)
Reply(c) ==
    /\ conn[c] \in {"replying", "answering"}
    /\ \/ /\ writer[c] # "gone" /\ Len(wq[c]) < WriterCap
          /\ wq' = [wq EXCEPT ![c] = Append(@, Kind(c))]
          /\ To(c, "reading")
       \/ writer[c] = "gone" /\ To(c, "closing") /\ UNCHANGED wq
    /\ DropGuard(c)
    /\ UNCHANGED <<limit, permits, acceptor, left, cancelled, writer, ending, actors, cut>>

(* What a cancellation throws away that its client was waiting for. *)
Loss(c, lost) == IF Watching /\ lost /\ c \notin cancelled THEN cut \union {c} ELSE cut

(* The select over process_frame: the frame's future is dropped where it   *)
(* waits, its guard with it.                                               *)
CancelFrame(c) ==
    /\ conn[c] \in {"asking", "streaming", "replying", "answering"} /\ Cancelled(c)
    /\ To(c, "closing") /\ DropGuard(c) /\ Abandon(c) /\ cut' = Loss(c, c \in guarded)
    /\ UNCHANGED <<limit, permits, acceptor, left, cancelled, wq, writer, ending>>

(* run_connection_loop ends: cancelled, timed out, closed, in error, or    *)
(* after such a frame.  Dropping the registration cancels the token.       *)
StopReading(c) ==
    /\ Runs(c, "reading") \/ Runs(c, "closing")
    /\ To(c, "joining") /\ cancelled' = cancelled \union {c}
    /\ UNCHANGED <<limit, permits, acceptor, left, wq, writer, drain, ending, actors, cut>>

(* The task waits for its writer and returns its permit. *)
Join(c) ==
    /\ conn[c] = "joining" /\ writer[c] = "gone" /\ To(c, "gone") /\ permits' = permits + 1
    /\ UNCHANGED <<limit, acceptor, left, cancelled, wq, writer, drain, ending, actors, cut>>

-----------------------------------------------------------------------------
(* run_writer_task *)

Leave(c) == writer' = [writer EXCEPT ![c] = "gone"] /\ wq' = [wq EXCEPT ![c] = <<>>]
HasAnswer(c) == writer[c] = "answer" \/ \E i \in 1..Len(wq[c]) : wq[c][i] = "answer"

(* Slip: a write under way is not raced against the token. *)
WriterCancelledIdle(c) ==
    /\ writer[c] = "idle" /\ Cancelled(c) /\ Leave(c) /\ cut' = Loss(c, HasAnswer(c))
    /\ UNCHANGED <<limit, permits, acceptor, conn, left, cancelled, drain, ending, actors>>

(* Both selects look at the token first. *)
WriterCancelled(c) ==
    /\ writer[c] \in {"idle", "answer", "other"} /\ Cancelled(c)
    /\ Leave(c) /\ cut' = Loss(c, HasAnswer(c))
    /\ UNCHANGED <<limit, permits, acceptor, conn, left, cancelled, drain, ending, actors>>

WriterTakes(c) ==
    /\ writer[c] = "idle" /\ ~Cancelled(c) /\ wq[c] # <<>>
    /\ writer' = [writer EXCEPT ![c] = Head(wq[c])] /\ wq' = [wq EXCEPT ![c] = Tail(@)]
    /\ UNCHANGED <<limit, permits, acceptor, conn, left, cancelled, drain, ending, actors, cut>>

(* The write waits for as long as the client does not read, and fails once *)
(* it has closed its socket.                                               *)
WriterWrites(c) ==
    /\ writer[c] \in {"answer", "other"} /\ ~Cancelled(c)
    /\ \/ writer' = [writer EXCEPT ![c] = "idle"] /\ UNCHANGED wq
       \/ Leave(c)
    /\ UNCHANGED <<limit, permits, acceptor, conn, left, cancelled, drain, ending, actors, cut>>

-----------------------------------------------------------------------------
(* The actor *)

ActorTakes ==
    /\ actor.at = "idle" /\ inbox # <<>>
    /\ actor' = [at |-> "handling", for |-> Head(inbox)] /\ inbox' = Tail(inbox)
    /\ UNCHANGED <<limit, permits, acceptor, tasks, drain, ending, cut>>

(* A frame of a stream reaches the writer. *)
ActorStreams(c) ==
    /\ actor = [at |-> "handling", for |-> c] /\ conn[c] = "streaming"
    /\ writer[c] # "gone" /\ Len(wq[c]) < WriterCap
    /\ wq' = [wq EXCEPT ![c] = Append(@, "other")]
    /\ UNCHANGED <<limit, permits, acceptor, conn, left, cancelled, writer, drain, ending, actors, cut>>

(* The handler returns, having replied or not: both end the wait. *)
ActorFinishes ==
    /\ actor.at = "handling" /\ actor' = [at |-> "idle", for |-> Nobody]
    /\ conn' = [c \in Conns |-> IF c = actor.for THEN "replying" ELSE conn[c]]
    /\ UNCHANGED <<limit, permits, acceptor, left, cancelled, wq, writer, drain, ending, inbox, cut>>

(* ipc_hide, ipc_expose, a supervisor's rebind or forget: a synchronous     *)
(* write to the registry, which blocks the thread it runs on until the     *)
(* readers' locks are gone.                                                *)
ActorChangesNames ==
    /\ actor.at = "handling" /\ actor' = [actor EXCEPT !.at = "locking"]
    /\ UNCHANGED <<limit, permits, acceptor, tasks, drain, ending, inbox, cut>>

(* process_envelope keeps its guard across the wait for the reply. *)
NamesLocked == \E c \in Conns : conn[c] = "asking"

(* Everybody else needs a thread that is not held in such a write: to send *)
(* the reply on, to let a deadline fire, even to notice a cancellation.    *)
WorkerFree == Workers > 1 \/ actor.at # "locking"

ActorHasNames ==
    /\ actor.at = "locking" /\ ~NamesLocked /\ actor' = [actor EXCEPT !.at = "handling"]
    /\ UNCHANGED <<limit, permits, acceptor, tasks, drain, ending, inbox, cut>>

-----------------------------------------------------------------------------
(* The listener's handle *)

StopNow ==
    /\ shut.at = "no" /\ ~stop /\ stop' = TRUE
    /\ UNCHANGED <<limit, permits, acceptor, tasks, drain, draining, shut, actors, cut>>

Revoke(c) ==
    /\ conn[c] \in Connected \ {"admitting"} /\ c \notin cancelled
    /\ cancelled' = cancelled \union {c}
    /\ UNCHANGED <<limit, permits, acceptor, conn, left, wq, writer, drain, ending, actors, cut>>

(* shutdown_gracefully_with_timeout *)
BeginShutdown ==
    /\ shut.at = "no" /\ ~stop
    /\ draining' = TRUE /\ shut' = [shut EXCEPT !.at = "begun"]
    /\ UNCHANGED <<limit, permits, acceptor, tasks, drain, stop, actors, cut>>

Shutting(from, to) ==
    /\ shut.at = from /\ shut' = [shut EXCEPT !.at = to, !.woken = FALSE]
    /\ UNCHANGED <<limit, permits, acceptor, tasks, drain, draining, stop, actors, cut>>

(* Slip: the count is not looked at once the notification is armed. *)
WaitForDrainUnchecked ==
    \/ Shutting("begun", IF inflight = 0 THEN "drained" ELSE "looping")
    \/ Shutting("looping", "armed")
    \/ /\ shut.at = "armed" /\ shut' = [shut EXCEPT !.at = "waiting"]
       /\ UNCHANGED <<limit, permits, acceptor, tasks, drain, draining, stop, actors, cut>>
    \/ shut.woken /\ Shutting("waiting", IF inflight = 0 THEN "drained" ELSE "looping")

(* wait_for_drain: the count is looked at, the notification is armed, and  *)
(* the count is looked at again before waiting, and after being woken.     *)
WaitForDrain ==
    \/ Shutting("begun", IF inflight = 0 THEN "drained" ELSE "looping")
    \/ Shutting("looping", "armed")
    \/ /\ shut.at = "armed" /\ shut' = [shut EXCEPT !.at = IF inflight = 0 THEN "drained" ELSE "waiting"]
       /\ UNCHANGED <<limit, permits, acceptor, tasks, drain, draining, stop, actors, cut>>
    \/ shut.woken /\ Shutting("waiting", IF inflight = 0 THEN "drained" ELSE "looping")

DrainExpires == Shutting("waiting", "expired")

FinishShutdown ==
    /\ shut.at \in {"drained", "expired"} /\ stop' = TRUE
    /\ shut' = [shut EXCEPT !.at = "done", !.drained = (shut.at = "drained")]
    /\ UNCHANGED <<limit, permits, acceptor, tasks, drain, draining, actors, cut>>

(* Whether a Notified exists that notify_waiters would wake. *)
Armed == shut.at \in {"armed", "waiting"}

Notify(c) ==
    /\ c \in notifying /\ notifying' = notifying \ {c}
    /\ shut' = IF Armed THEN [shut EXCEPT !.woken = TRUE] ELSE shut
    /\ UNCHANGED <<limit, permits, acceptor, tasks, inflight, guarded, draining, stop, actors, cut>>

-----------------------------------------------------------------------------
Serve(c) == Dispatch(c) \/ Reply(c) \/ CancelFrame(c) \/ AskTimesOut(c) \/ Notify(c)
Wind(c) == Admission(c) \/ Join(c)
Writer(c) == WriterCancelled(c) \/ WriterTakes(c) \/ WriterWrites(c)
Connection(c) == Serve(c) \/ Wind(c) \/ ReadFrame(c) \/ StopReading(c) \/ Writer(c)
Actor == ActorTakes \/ ActorFinishes \/ ActorChangesNames
Handle == StopNow \/ BeginShutdown \/ WaitForDrain \/ DrainExpires \/ FinishShutdown

Running ==
    \/ \E c \in Conns : Accept(c) \/ Refuse(c) \/ Connection(c) \/ Revoke(c) \/ ActorStreams(c)
    \/ AcceptorStops \/ Actor \/ Handle

Next == (WorkerFree /\ Running) \/ ActorHasNames

Spec == Init /\ [][Next]_vars

(* Every connection's tasks run, deadlines expire, and a read loop whose   *)
(* token is cancelled leaves it, as long as a thread is free to run them.  *)
(* No client need ever read, send or close, no handler need return, nobody *)
(* need call the handle.                                                   *)
Tasks(c) == Serve(c) \/ Wind(c) \/ WriterCancelled(c) \/ (StopReading(c) /\ (Cancelled(c) \/ conn[c] = "closing"))
Fairness ==
    /\ WF_vars(ActorHasNames) /\ WF_vars(WorkerFree /\ AcceptorStops)
    /\ WF_vars(WorkerFree /\ \E c \in Conns : Refuse(c))
    /\ \A c \in Conns : WF_vars(WorkerFree /\ Tasks(c))

FairSpec == Spec /\ Fairness

-----------------------------------------------------------------------------
(* Properties *)

(* Every variable holds values of its kind, queues within their capacity.  *)
ListenerTypeOK ==
    /\ limit \in Limits /\ permits \in 0..limit
    /\ conn \in [Conns -> Connected \union {"none", "refused", "gone"}]
    /\ cancelled \subseteq Conns /\ guarded \subseteq Conns /\ notifying \subseteq Conns
    /\ writer \in [Conns -> {"none", "idle", "answer", "other", "gone"}]
    /\ \A c \in Conns : Len(wq[c]) <= WriterCap
    /\ Len(inbox) <= InboxCap /\ actor.at \in {"idle", "handling", "locking"}
    /\ shut.at \in {"no", "begun", "looping", "armed", "waiting", "drained", "expired", "done"}

(* Every permit is free or held by one connection, and what is counted in  *)
(* flight is what connections are working on, wherever a cancellation cut  *)
(* them off (InFlightGuard, the permit moved into the connection's task).  *)
NothingLeaks ==
    /\ permits + Cardinality({c \in Conns : conn[c] \in Connected}) = limit
    /\ inflight = Cardinality(guarded)
    /\ guarded \subseteq {c \in Conns : conn[c] \in {"asking", "streaming", "replying"}}

(* A shutdown that waits for a count which is 0 has been woken or is about *)
(* to be: the decrement, the notification, new requests and the waiter's   *)
(* own looks at the count interleave (wait_for_drain).                     *)
NoLostWakeup ==
    shut.at = "waiting" /\ inflight = 0 => shut.woken \/ notifying # {}

(* The listener's accounts: well typed, exact, and nobody waiting on an    *)
(* account that is already settled.                                        *)
ListenerIsConsistent == ListenerTypeOK /\ NothingLeaks /\ NoLostWakeup

(* A stopped listener gets all of its permits back, although clients read  *)
(* nothing, the actor never answers and queues are full: no task of a      *)
(* connection waits where the token does not reach it.  It takes a thread  *)
(* to reach it with: a write to the names must not hold the last one.      *)
StopReachesAll == stop ~> permits = limit /\ acceptor = "gone"

(* A handler that changes the exposed names gets to: the requests that     *)
(* hold the registry's lock while they wait, its own included, are bounded *)
(* by their deadlines (process_envelope keeps the guard across the wait),  *)
(* as long as the write leaves a thread on which they expire.              *)
HandlersProceed == actor.at = "locking" ~> actor.at = "handling"

(* What ShutdownResult says of drained_gracefully: all requests completed, *)
(* so none that was accepted goes unanswered because of the shutdown.      *)
DrainedMeansAnswered == shut.drained => cut = {}
=============================================================================
