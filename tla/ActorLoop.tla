------------------------------ MODULE ActorLoop ------------------------------
(***************************************************************************)
(* The message loop of one actor (actor/managed_actor/started.rs) and the  *)
(* tasks that ask it (common/ask.rs).  Mutable handlers run alone; the     *)
(* futures of read-only handlers are collected and driven together, only   *)
(* while the loop flushes them, and the errors they return are handled     *)
(* when all have ended.  A stop signal closes the inbox and what is in it  *)
(* is still handled; a cancellation abandons it; a panic is caught where   *)
(* it happens or ends the loop, as the crate is built.                     *)
(***************************************************************************)
EXTENDS Naturals, Sequences, SequencesExt, FiniteSets

CONSTANTS
    MaxSends,    \* bound: messages sent, each by a task of its own
    Kinds,       \* what is sent, of AllKinds
    Remote,      \* those that come from one IPC connection
    InboxCap,    \* capacity of the inbox
    HighWater,   \* concurrent_handlers_high_water_mark
    Catching     \* whether the build catches handler panics

StopSignals == {"Terminate", "CascadeTerminate"}
AllKinds == {"mutate", "read", "unhandled"} \union StopSignals

ASSUME ActorAssumption ==
    /\ Kinds \subseteq AllKinds
    /\ {MaxSends, InboxCap, HighWater} \subseteq Nat \ {0}
    /\ Remote \subseteq 1..MaxSends
    /\ Catching \in BOOLEAN

Message == 1..MaxSends
None == 0
StopReason(k) == IF k = "Terminate" THEN "Normal" ELSE "ParentShutdown"

VARIABLES
    kind,        \* what was sent, "none" before
    call,        \* where the sender's ask is
    nested,      \* the read-only future that made the ask, if one did
    order,       \* messages in the order the inbox accepted them
    taken,       \* how many of them the loop has taken
    open,        \* whether the inbox is
    at,          \* what the loop does
    now,         \* the message whose handler or error handler runs
    then,        \* [to, m]: what the loop does after a flush
    reason,      \* TerminationReason, "none" while nothing was recorded
    batch,       \* read_only_futures
    errors,      \* failures whose error handler has yet to run
    done,        \* messages whose handler ended, or that no handler takes
    stored,      \* reply envelopes kept in the actor's state
    spawned,     \* reply envelopes held by a task of their own
    revoked,     \* whether the IPC connection is
    cancelled    \* the actor's token

callers   == <<kind, call, nested>>
inbox     == <<order, taken, open>>
loop      == <<at, now, then, reason>>
work      == <<batch, errors, done>>
addresses == <<stored, spawned>>
world     == <<revoked, cancelled>>
vars      == <<callers, inbox, loop, work, addresses, world>>

Select == [to |-> "select", m |-> None]

Init ==
    /\ kind = [m \in Message |-> "none"] /\ call = [m \in Message |-> "none"]
    /\ nested = [m \in Message |-> None]
    /\ order = <<>> /\ taken = 0 /\ open = TRUE
    /\ at = "select" /\ now = None /\ then = Select /\ reason = "none"
    /\ batch = {} /\ errors = {} /\ done = {} /\ stored = {} /\ spawned = {}
    /\ revoked = FALSE /\ cancelled = FALSE

-----------------------------------------------------------------------------
(* Senders.  A plain send is an ask nobody waits for.  A message goes into *)
(* the inbox at once if there is room; otherwise its sender waits for room *)
(* and is turned away when the inbox closes.                               *)

(* Senders are numbered in the order in which they send.                   *)
Fresh(m) == kind[m] = "none" /\ \A p \in 1..(m - 1) : kind[p] # "none"

Room == Len(order) - taken < InboxCap

Accepted(m, k) ==
    /\ order' = Append(order, m)
    /\ call' = [call EXCEPT ![m] = IF k \in StopSignals THEN "sent" ELSE "waiting"]

Send(m, k, f) ==
    /\ Fresh(m)
    /\ kind' = [kind EXCEPT ![m] = k]
    /\ nested' = [nested EXCEPT ![m] = f]
    /\ IF open /\ Room THEN Accepted(m, k)
       ELSE /\ call' = [call EXCEPT ![m] = IF open THEN "sending" ELSE "refused"]
            /\ UNCHANGED order
    /\ UNCHANGED <<taken, open, loop, work, addresses, world>>

StartAsk(m) == \E k \in Kinds : Send(m, k, None)

(* The future of a read-only handler asks its own actor.                   *)
Asking(f) == \E m \in Message : nested[m] = f /\ call[m] \in {"sending", "waiting"}
FutureAsks(f, m) ==
    /\ at = "flushing" /\ f \in batch /\ ~\E o \in Message : nested[o] = f
    /\ \E k \in Kinds \intersect {"mutate", "read"} : Send(m, k, f)

Deliver(m) ==
    /\ call[m] = "sending" /\ open /\ Room /\ Accepted(m, kind[m])
    /\ UNCHANGED <<kind, nested, taken, open, loop, work, addresses, world>>

Refused(m) ==
    /\ call[m] = "sending" /\ ~open
    /\ call' = [call EXCEPT ![m] = "refused"]
    /\ UNCHANGED <<kind, nested, inbox, loop, work, addresses, world>>

(* Slip: the asker keeps its own copy of the reply sender.                 *)
HeldByItsAsker(m) == call[m] = "waiting"

(* Whether somebody still holds an address to answer m to.                 *)
Held(m) ==
    \/ m \in Range(SubSeq(order, taken + 1, Len(order))) /\ at # "gone"
    \/ m \in batch \union errors \union stored \union spawned \union {now, then.m}

(* With the last address the reply channel closes.                         *)
NoReply(m) ==
    /\ call[m] = "waiting" /\ ~Held(m)
    /\ call' = [call EXCEPT ![m] = "unanswered"]
    /\ UNCHANGED <<kind, nested, inbox, loop, work, addresses, world>>

(* The deadline covers the delivery too.  Bound: only the asks of a future *)
(* of the actor run into theirs, for nobody notices when another caller    *)
(* leaves: its answer goes nowhere.                                        *)
TimesOut(m) ==
    /\ nested[m] # None /\ call[m] \in {"sending", "waiting"}
    /\ call' = [call EXCEPT ![m] = "timedOut"]
    /\ UNCHANGED <<kind, nested, inbox, loop, work, addresses, world>>

(* A reply to a caller that left, or a second one, goes nowhere.           *)
Answered(m) ==
    call' = IF call[m] = "waiting" THEN [call EXCEPT ![m] = "answered"] ELSE call

-----------------------------------------------------------------------------
(* Leaving the loop, and what interrupts it.                               *)

Flush(to, m) == at' = "flushing" /\ then' = [to |-> to, m |-> m]

(* What follows the loop starts by closing the inbox.                      *)
Leaves(why) ==
    /\ at' = "cleaning" /\ reason' = why /\ open' = FALSE
    /\ now' = None /\ then' = Select

(* A panic nothing catches drops the futures and the errors; the asks the  *)
(* futures were making go with them.                                       *)
Unwind ==
    /\ Leaves("Panic") /\ batch' = {} /\ errors' = {}
    /\ call' = [m \in Message |->
                  IF nested[m] # None /\ call[m] \in {"sending", "waiting"}
                  THEN "timedOut" ELSE call[m]]
    /\ UNCHANGED <<kind, nested, order, taken, done, addresses, world>>

(* Bound: both come only where the loop can still notice.                  *)
Cancel ==
    /\ ~cancelled /\ at \notin {"cleaning", "gone"} /\ cancelled' = TRUE
    /\ UNCHANGED <<callers, inbox, loop, work, addresses, revoked>>

Revoke ==
    /\ ~revoked /\ revoked' = TRUE
    /\ at \notin {"cleaning", "gone"} /\ \E m \in Remote :
           kind[m] # "none" /\ m \notin done \union batch \union errors \union {now}
    /\ UNCHANGED <<callers, inbox, loop, work, addresses, cancelled>>

(* Slip: a cancellation leaves without a flush.                            *)
CancelSeenAtOnce ==
    /\ at = "select" /\ cancelled /\ Leaves("ParentShutdown")
    /\ UNCHANGED <<callers, order, taken, work, addresses, world>>

(* The reason is only read when the loop ends: recorded before the flush.  *)
CancelSeen ==
    /\ at = "select" /\ cancelled
    /\ Flush("leave", None) /\ reason' = "ParentShutdown"
    /\ UNCHANGED <<callers, inbox, now, work, addresses, world>>

(* Slip: the timer only looks at a full batch.                             *)
FlushTimerWhenFull ==
    /\ at = "select" /\ Cardinality(batch) >= HighWater /\ Flush("select", None)
    /\ UNCHANGED <<callers, inbox, now, reason, work, addresses, world>>

FlushTimer ==
    /\ at = "select" /\ batch # {}
    /\ Flush("select", None)
    /\ UNCHANGED <<callers, inbox, now, reason, work, addresses, world>>

InboxEnds ==
    /\ at = "select" /\ ~open /\ taken = Len(order)
    /\ Flush("leave", None) /\ reason' = IF reason = "none" THEN "InboxClosed" ELSE reason
    /\ UNCHANGED <<callers, inbox, now, work, addresses, world>>

-----------------------------------------------------------------------------
(* The message arm.                                                        *)

Untrusted(m) == m \in Remote /\ revoked

Takes(m) ==
    /\ at = "select" /\ taken < Len(order) /\ m = order[taken + 1]
    /\ taken' = taken + 1
    /\ UNCHANGED <<kind, nested, order, stored, world>>

(* A revoked message, or one no handler is registered for.                 *)
TakeNothing(m) ==
    /\ Takes(m) /\ (Untrusted(m) \/ kind[m] = "unhandled")
    /\ done' = done \union {m}
    /\ UNCHANGED <<call, open, loop, batch, errors, spawned>>

TakeMutate(m) ==
    /\ Takes(m) /\ ~Untrusted(m) /\ kind[m] = "mutate"
    /\ Flush("mutate", m)
    /\ UNCHANGED <<call, open, now, reason, work, spawned>>

(* Slip: the mark is compared before the future is added.                  *)
TakeReadLate(m) ==
    /\ Takes(m) /\ ~Untrusted(m) /\ kind[m] = "read"
    /\ batch' = batch \union {m}
    /\ IF Cardinality(batch') > HighWater THEN Flush("select", None) ELSE UNCHANGED <<at, then>>
    /\ UNCHANGED <<call, open, now, reason, errors, done, spawned>>

TakeRead(m) ==
    /\ Takes(m) /\ ~Untrusted(m) /\ kind[m] = "read"
    /\ batch' = batch \union {m}
    /\ IF Cardinality(batch') >= HighWater THEN Flush("select", None)
                                           ELSE UNCHANGED <<at, then>>
    /\ UNCHANGED <<call, open, now, reason, errors, done, spawned>>

(* A sync read-only handler runs to its end where it is met, and answers   *)
(* with reply().                                                           *)
TakeReadSync(m) ==
    /\ Takes(m) /\ ~Untrusted(m) /\ kind[m] = "read"
    /\ done' = done \union {m}
    /\ spawned' \in {spawned, spawned \union {m}}
    /\ UNCHANGED <<call, open, loop, batch, errors>>

TakeStop(m) ==
    /\ Takes(m) /\ ~Untrusted(m) /\ kind[m] \in StopSignals
    /\ Flush("stop", m)
    /\ UNCHANGED <<call, open, now, reason, work, spawned>>

-----------------------------------------------------------------------------
(* flush_read_only_handlers, and what it was called for.                   *)

FutureEnds(f) ==
    /\ at = "flushing" /\ f \in batch /\ ~Asking(f)
    /\ batch' = batch \ {f}
    /\ \/ done' = done \union {f} /\ UNCHANGED errors     \* or its panic is caught
       \/ errors' = errors \union {f} /\ UNCHANGED done
    /\ UNCHANGED <<callers, inbox, loop, addresses, world>>

(* Slip: an error is handled as soon as its future has ended.              *)
ErrorHandlerStartsEarly(m) ==
    /\ at = "flushing" /\ m \in errors
    /\ at' = "erring" /\ now' = m /\ errors' = errors \ {m}
    /\ UNCHANGED <<callers, inbox, then, reason, batch, done, addresses, world>>

ErrorHandlerStarts(m) ==
    /\ at = "flushing" /\ batch = {} /\ m \in errors
    /\ at' = "erring" /\ now' = m /\ errors' = errors \ {m}
    /\ UNCHANGED <<callers, inbox, then, reason, batch, done, addresses, world>>

ErrorHandlerEnds ==
    /\ at = "erring" /\ at' = "flushing" /\ now' = None
    /\ done' = done \union {now}
    /\ UNCHANGED <<callers, inbox, then, reason, batch, errors, addresses, world>>

Flushed == at = "flushing" /\ batch = {} /\ errors = {}

(* Slip: only the check at the head of the message arm.                    *)
SkipsNone(m) == FALSE

(* The connection may have been revoked during the flush.                  *)
Skips(m) == Untrusted(m)

FlushEnds ==
    /\ Flushed /\ (then.to = "select" \/ (then.to = "mutate" /\ Skips(then.m)))
    /\ at' = "select" /\ then' = Select
    /\ done' = IF then.to = "mutate" THEN done \union {then.m} ELSE done
    /\ UNCHANGED <<callers, inbox, now, reason, batch, errors, addresses, world>>

(* Slip: a mutable handler does not wait for the read-only ones.           *)
MutateStartsAtOnce ==
    /\ at = "flushing" /\ then.to = "mutate" /\ ~Skips(then.m)
    /\ at' = "mutating" /\ now' = then.m /\ then' = Select
    /\ UNCHANGED <<callers, inbox, reason, work, addresses, world>>

MutateStarts ==
    /\ Flushed /\ then.to = "mutate" /\ ~Skips(then.m)
    /\ at' = "mutating" /\ now' = then.m /\ then' = Select
    /\ UNCHANGED <<callers, inbox, reason, work, addresses, world>>

(* An error goes to its handler at once: a flush with no futures left.     *)
MutateEnds ==
    /\ at = "mutating" /\ now' = None
    /\ \/ at' = "select" /\ done' = done \union {now} /\ UNCHANGED <<then, errors>>
       \/ Flush("select", None) /\ errors' = {now} /\ UNCHANGED done
    /\ UNCHANGED <<callers, inbox, reason, batch, addresses, world>>

BeforeStop ==
    /\ Flushed /\ then.to = "stop"
    /\ at' = "stopping" /\ now' = then.m /\ then' = Select
    /\ UNCHANGED <<callers, inbox, reason, work, addresses, world>>

(* Slips: the loop breaks at the stop signal; it forgets to close the      *)
(* inbox.                                                                  *)
StopTakenBreaking ==
    /\ at = "stopping" /\ Leaves(StopReason(kind[now])) /\ done' = done \union {now}
    /\ UNCHANGED <<callers, order, taken, batch, errors, addresses, world>>
StopTakenLeavingOpen ==
    /\ at = "stopping" /\ at' = "select" /\ now' = None
    /\ reason' = StopReason(kind[now]) /\ done' = done \union {now}
    /\ UNCHANGED <<callers, inbox, then, batch, errors, addresses, world>>

StopTaken ==
    /\ at = "stopping" /\ at' = "select" /\ now' = None
    /\ open' = FALSE /\ reason' = StopReason(kind[now])
    /\ done' = done \union {now}
    /\ UNCHANGED <<callers, order, taken, then, batch, errors, addresses, world>>

Leave ==
    /\ Flushed /\ then.to = "leave" /\ Leaves(reason)
    /\ UNCHANGED <<callers, order, taken, work, addresses, world>>

(* Panics of handlers, futures, error handlers and hooks.                  *)
Panics ==
    /\ ~Catching
    /\ \/ at \in {"mutating", "erring", "stopping"}
       \/ at = "flushing" /\ batch # {}
    /\ Unwind

(* shutdown_cleanup and the parent's notice: everything left is dropped.   *)
Gone ==
    /\ at = "cleaning" /\ at' = "gone" /\ stored' = {}
    /\ \/ UNCHANGED reason
       \/ ~Catching /\ reason' = "Panic"                  \* in after_stop
    /\ UNCHANGED <<callers, inbox, now, then, work, spawned, world>>

-----------------------------------------------------------------------------
(* Handlers.  What a handler may do with the envelopes it was handed while *)
(* somebody waits for the answer.                                          *)

Running(m) ==
    \/ at \in {"mutating", "erring"} /\ m = now
    \/ at = "flushing" /\ m \in batch

HandlerAnswers(m) ==
    /\ Running(m) /\ call[m] = "waiting" /\ Answered(m)
    /\ UNCHANGED <<kind, nested, inbox, loop, work, addresses, world>>

(* reply(), or a task that was given the envelope.                         *)
HandlerSpawns(m) ==
    /\ Running(m) /\ call[m] = "waiting" /\ spawned' = spawned \union {m}
    /\ UNCHANGED <<callers, inbox, loop, work, stored, world>>

HandlerStores(m) ==
    /\ at = "mutating" /\ m = now /\ call[m] = "waiting" /\ stored' = stored \union {m}
    /\ UNCHANGED <<callers, inbox, loop, work, spawned, world>>

HandlerAnswersStored(m) ==
    /\ at = "mutating" /\ m \in stored /\ Answered(m) /\ stored' = stored \ {m}
    /\ UNCHANGED <<kind, nested, inbox, loop, work, spawned, world>>

SpawnedEnds(m) ==
    /\ m \in spawned /\ spawned' = spawned \ {m}
    /\ Answered(m) \/ UNCHANGED call
    /\ UNCHANGED <<kind, nested, inbox, loop, work, stored, world>>

-----------------------------------------------------------------------------
TakeMessage(m) ==
    TakeNothing(m) \/ TakeMutate(m) \/ TakeRead(m) \/ TakeReadSync(m) \/ TakeStop(m)
LoopStep ==
    \/ \E m \in Message : TakeMessage(m) \/ ErrorHandlerStarts(m)
    \/ CancelSeen \/ FlushTimer \/ InboxEnds
    \/ FlushEnds \/ MutateStarts \/ MutateEnds \/ BeforeStop \/ StopTaken
    \/ ErrorHandlerEnds \/ Leave \/ Gone
FutureStep == \E m \in Message : FutureEnds(m)
CallerStep == \E m \in Message : Deliver(m) \/ Refused(m) \/ NoReply(m)
SpawnedStep == \E m \in Message : SpawnedEnds(m)
Deadline == \E m \in Message : TimesOut(m)
HandlerStep ==
    \E m \in Message :
        \/ HandlerAnswers(m) \/ HandlerSpawns(m) \/ HandlerStores(m)
        \/ HandlerAnswersStored(m) \/ \E o \in Message : FutureAsks(m, o)

Next ==
    \/ \E m \in Message : StartAsk(m)
    \/ CallerStep \/ Deadline \/ LoopStep \/ HandlerStep \/ FutureStep \/ SpawnedStep
    \/ Cancel \/ Revoke \/ Panics

Spec == Init /\ [][Next]_vars

(* The runtime runs every task that can go on; handlers, futures and the   *)
(* tasks they spawn end, and messages are finitely many, so one condition  *)
(* for each kind of task is enough.  Of the deadlines only those of asks   *)
(* made by a future of the actor itself are counted on.                    *)
Fairness ==
    /\ WF_vars(LoopStep) /\ WF_vars(FutureStep) /\ WF_vars(SpawnedStep)
    /\ WF_vars(CallerStep) /\ WF_vars(Deadline)

FairSpec == Spec /\ Fairness

-----------------------------------------------------------------------------
(* Properties.                                                             *)

(* The state has its types, and no more futures are collected than the     *)
(* high-water mark allows.                                                 *)
ActorTypeOK ==
    /\ kind \in [Message -> Kinds \union {"none"}]
    /\ call \in [Message -> {"none", "sending", "sent", "waiting", "answered",
                             "unanswered", "refused", "timedOut"}]
    /\ nested \in [Message -> {None} \union Message]
    /\ order \in Seq(Message) /\ taken \in 0..Len(order) /\ Len(order) - taken <= InboxCap
    /\ open \in BOOLEAN
    /\ at \in {"select", "flushing", "erring", "mutating", "stopping", "cleaning", "gone"}
    /\ now \in {None} \union Message
    /\ then \in [to : {"select", "mutate", "stop", "leave"}, m : {None} \union Message]
    /\ reason \in {"none", "Normal", "ParentShutdown", "InboxClosed", "Panic"}
    /\ {batch, errors, done, stored, spawned} \subseteq SUBSET Message
    /\ Cardinality(batch) <= HighWater
    /\ {revoked, cancelled} \subseteq BOOLEAN

(* While anything has the actor to itself, a mutable handler, a stop or an *)
(* error handler, no read-only handler is under way, and no failure of an  *)
(* earlier one has yet to be handled before a mutable handler or a stop.   *)
MutationsAreAlone ==
    /\ at \in {"mutating", "stopping", "erring"} => batch = {}
    /\ at \in {"mutating", "stopping"} => errors = {}

(* The loop's state is well formed and its handlers do not overlap more    *)
(* than they may.                                                          *)
HandlersDoNotClash == ActorTypeOK /\ MutationsAreAlone

(* Whatever the inbox accepted is handled before an actor that was asked   *)
(* to stop is gone, however many stop signals came and wherever they were  *)
(* in the queue; only a cancellation or a panic abandons messages.         *)
AcceptedIsHandled ==
    at = "gone" /\ reason # "Panic" /\ ~cancelled => Range(order) \subseteq done

(* An actor that did not panic leaves its loop with every collected future *)
(* driven to its end and every failure told to its error handler, a        *)
(* cancelled actor too.                                                    *)
FailuresAreHeard ==
    at \in {"cleaning", "gone"} /\ reason # "Panic" => batch = {} /\ errors = {}

(* What the loop owes when it ends: every message it accepted, and every   *)
(* handler it began.                                                       *)
NothingIsAbandoned == AcceptedIsHandled /\ FailuresAreHeard

Before(m) == {order[i] : i \in {j \in DOMAIN order : \E l \in (j + 1)..Len(order) : order[l] = m}}

(* An answer from a mutable handler proves that everything the inbox       *)
(* accepted earlier has been handled, failures included; one from a        *)
(* read-only handler that every earlier mutation has.                      *)
AnswersProveThePast ==
    \A m \in Message : call[m] = "answered" =>
        \A p \in Before(m) : kind[m] = "mutate" \/ kind[p] = "mutate" => p \in done

(* What actor_handle_interface.rs says of ask: a completed ask proves      *)
(* every earlier message has been processed.  Not true of two read-only    *)
(* handlers; the README tells how to see it.                               *)
AsksProveEverything ==
    \A m \in Message : call[m] = "answered" => Before(m) \subseteq done

(* No handler begins on a message of a connection already revoked, though  *)
(* the revocation may come while the loop flushes for it.                  *)
RevokedNeverStarts ==
    [][\A m \in Remote : revoked =>
          /\ m \in batch' => m \in batch
          /\ at' = "mutating" /\ now' = m => at = "mutating" /\ now = m]_vars

(* An ask ends without its deadline once its handler has ended or its      *)
(* actor is gone, unless the actor keeps the reply envelope in its state.  *)
AsksEnd ==
    LET Owed == {m \in Message : /\ call[m] \in {"sending", "waiting"}
                                 /\ m \in done \ stored \/ at = "gone"}
    IN Owed # {} ~> Owed = {}

(* An actor that took a stop signal, or whose token was cancelled, ends:   *)
(* also with a backlog, and with futures that ask the actor itself.        *)
StopsEnd == (reason # "none" \/ cancelled) ~> at = "gone"

(* Collected futures are driven to their end or dropped by a panic, though *)
(* no further message comes.                                               *)
ReadsComplete == batch # {} ~> batch = {}

(* The loop gets on, with the handlers it began and with its own stop.     *)
LoopProgresses == StopsEnd /\ ReadsComplete

=============================================================================
