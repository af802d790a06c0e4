# TLA+ verification of acton-reactive

`acton-reactive` is an actor framework on tokio: actors with typed message
handlers, supervision with restart strategies, a broker, request/reply,
scheduled sends, and IPC between processes. This directory models its core in
TLA+, checks the models with TLC and proves, with TLAPS, what matters most of the
supervisor and its registry, the message loop, the broker, the restart limiter,
scheduled sends and the subscription manager. Paths below are relative to `acton-reactive/src/`.

## 1. The system

| component | state it keeps | operations | hard behaviour |
|---|---|---|---|
| supervision registry `actor/supervision/registry.rs` | slots (append-only), names to positions, pending queue, shutdown flag | register, register_pending, begin/complete/fail start, queue_restart, mark_terminal, retire, cancel_unfinished_starts | none is concurrent, but every input may arrive late: timers, reports, notices |
| decision layer `restart_policy.rs`, `supervision/strategy.rs`, `supervision/plan.rs` | none | should_restart, decide, plan_restart, evaluate | the plan is made from a view of the slots that changes before it is carried out |
| engine `supervision/engine.rs` | start tasks, group tasks | registering, deferred starts, restarts, escalation, shutdown | start tasks, group tasks, timers and children run beside the supervisor |
| message loop `managed_actor/started.rs` | inbox, batch of read-only futures, token, recorded reason | select, mutable and read-only handlers, flush, stop signals, drain | read-only handlers overlap, failures are told later, a stop is not the end |
| handle `common/actor_handle.rs` | children map, shared by clones | supervise, supervise_with, unsupervise, release, stop | callers wait for a supervisor that may stop |
| restart limiter `restart_limiter.rs` | timestamps, streak | can_restart, record_restart, reset | window edges, float overflow |
| scheduled send `common/scheduled_send.rs` | timer task, progress channel | send_after, send_every, cancel, outcome | select races, full inbox, late ticks |
| ask, envelopes `common/ask.rs`, `message/` | a reply channel per ask | ask, reply, reply_envelope | late, double and missing answers; who holds the reply address |
| broker `common/broker.rs` | subscribers by identifier | broadcast, subscribe, unsubscribe, flush | slow subscribers, removal by identifier, restarts |
| runtime `common/actor_runtime.rs` | roots, IPC names | ipc_expose, ipc_hide, rebind, forget, shutdown_all | check-then-insert; collect-then-change; shutdown in phases |
| subscription manager `common/ipc/subscription_manager.rs` | selectors, two indexes, route cache | register, revoke, subscribe, patterns, forward | derived state, authorization outside the lock |
| IPC listener `common/ipc/listener.rs` | permits, connections, in-flight count | accept, frames, replies, streams, stop, revoke, graceful shutdown | cancellation at any await, lost wake-ups, full queues |
| IPC client `common/ipc/client.rs`, `remote_ask.rs` | pending calls, active streams, refusal | request, request_stream, disconnect, remote ask | two tasks that end in any order, three queues per stream |
| clock, rate limiter, wire format, types, configuration, security, macros, CLI | | | see section 6 |

The supervisor's registry is private to its task. Everybody else reaches it by
message: a caller of `supervise_with` builds the child, then asks the
supervisor to record it; a start task reports the child it built; a group task
stops siblings, waits out the backoff and asks for each restart; a child that
ends sends its notice. A notice names a child, not an incarnation, and that
single fact is behind several of the observations in section 4. A broadcast goes
to the broker's inbox, from there to each subscriber's inbox and, through the
subscription manager, to the push queue of each IPC connection. A remote request
goes from the client's writer through the listener's connection task into an
actor's inbox, and its reply takes the way back through two writer tasks.

What makes the parts correct:

* registry: one record per name, positions that never move, a published status
  that is never stale, nothing forgotten that waits to be started;
* engine: one incarnation per child at a time, every owed child driven by
  somebody until it settles, groups down before they come back, terminal states
  final, nothing left running that nobody will stop;
* message loop: handlers that need the actor to themselves have it, every
  accepted message is handled before a stop ends the loop, every failure is told,
  every ask ends without its deadline where it can;
* limiter: never more than the allowance in a window, no escalation before it is
  spent, a backoff that does not shrink while a child keeps failing;
* scheduled send: an observer's snapshot that is true, no burst after a stall, an
  outcome that always resolves;
* broker: it holds the running incarnation, delivers only what was asked for, and
  neither a stop nor a shutdown hangs or loses a flushed broadcast;
* IPC: derived tables that agree, permits and counts that never leak, a stop
  that reaches every task, answers that reach their caller, streams without gaps,
  errors that are true.

`PROJECT.json` lists every component with its status, and under `hazards` what
is hard to test, at its line, with the properties that cover it.

## 2. Modules

| module | models | extends / uses |
|---|---|---|
| `RestartPlan` | policy, strategy and plan as operators | |
| `SupervisionRegistry` | the registry, one action per operation | `RestartPlan` |
| `ChildStatus` | abstract: the cycle of a child's published status | |
| `RegistryRefinement` | the registry's channels as an instance of it | `SupervisionRegistry`, `ChildStatus` |
| `Supervision` | a supervisor, its children's incarnations, tasks and callers | `SupervisionRegistry` |
| `SupervisionProperties` | what `Supervision` must get right | `Supervision` |
| `RestartLimiter` | window, streak and backoff in time | |
| `ScheduledSend` | one schedule, its target's inbox, a clock | |
| `ActorLoop` | one actor's message loop, its handlers and its askers | |
| `Broadcasts` | the broker, bounded inboxes, restarts, shutdown_all | |
| `IpcNames` | the map of exposed names and everybody who changes it | |
| `Subscriptions` | the subscription manager and forwarding | |
| `IpcListener` | accept loop, connection and writer tasks, shutdown | |
| `IpcClient` | a client connection, its tasks and a remote ask | |
| `RegistryProofs`, `SupervisionProofs`, `TimedProofs` (`RestartLimiter` and `ScheduledSend`), `SubscriptionsProofs`, `ActorLoopProofs`, `BroadcastsProofs`, `IpcListenerProofs`, `IpcClientProofs` | theorems | their component |
| `MCSupervision`, `MCSubscriptions` | small instances | |

Definitions keep the source's names. A definition whose comment starts with
`Slip:` is never part of a specification: it is a plausible bug in the operator
after it, and `PROJECT.json` says which property notices it. A slip not named
there breaks a part of the folded invariant (below) its component is checked
with.

Each module keeps its named invariants apart (`IndexesAgree`, `NoLostWakeup`,
`HandleWhileServing`, ...), with the comment that says what each is about, and
folds those that describe one state into a conjunction (`DerivedStateAgrees`,
`ListenerIsConsistent`, `RegistryIsConsistent`, ...), which is what a run checks.

### SupervisionRegistry

`slots` is the vector of `ChildSlot`s (unused positions are `Unused`), `byErn`
the name map, `pending` the queue, `shuttingDown` the flag. The registry is used
by one task and its operations contain no await, so each is one action, and the
engine's synchronous sequences (`begin_group_stops` then
`park_group_for_restart`; `begin_shutdown` then `cancel_unfinished_starts`) are
one action too. `ExpectedStop { then_restart }` is two states. `Publish` is the
`send_if_modified` of `ChildSlot::publish`, which does not compare the handle.
The limiter appears as `charged`, the number of timestamps it holds; how many of
them pruning keeps is left open, which `RestartLimiter` makes precise.

A notice is handled by one of five actions, by what `record_child_terminated`
and `evaluate` do with it: ignored, a group stop that landed, forgotten,
escalated, restarted.

### Supervision

`inc` has one record per incarnation ever built: its name, the slot a start task
builds it for, whether it is up, the stop signals in its mailbox, and who holds
its handle outside the registry. `inbox` is the supervisor's FIFO of framework
messages. `groups` are the tasks of `spawn_group_restart`; `kids` is the children
map; `releaser` is one caller of `unsupervise` or `release`. `phase` walks
through `run_message_loop` and `shutdown_cleanup`.

Each action is the code between two awaits. In particular `LeaveLoop` is the
end of the loop up to the first await (settle, close the inbox), and
`TerminateChildren` everything from the end of `await_start_tasks` to the
signals sent by `terminate_children`. `Build` covers the child's `before_start`;
a panic there ends the start task silently. A stop with a deadline
(`stop_stray_child`, `stop_group_member`, `await_start_tasks`,
`terminate_children`) returns when its child is down or, for a child in
`Overruns`, at any time.

`SupervisionProperties` says of two incarnations of one name that they serve one
slot (`SlotServed`): a replacement serves the slot it was built for, an original the
slot its name leads to, for the code that builds it knows no slot yet.

### RestartLimiter

Time is in whole ticks and the multiplier is an integer. `FloatMax` stands for
the range of an f64 (scaled down, so that the overflow happens in a run).
A disabled limiter allows every restart and never prunes (`Prunes`,
`WithinLimit`). `granted` is a history variable of restarts and their backoffs.
A restart takes any time; `RebuiltWithGroup` is a restart charged to a sibling.

### ScheduledSend

`plan` is chosen at the start and never changes. The task is `waiting` in its
select, `delivering` (waiting for room), `sent` (between the send and the update
of the progress channel) or `done`. The select is not biased, so whatever is
ready may win. The inbox is a count with a capacity, shared with other senders.
`Cancel`, `CloseInbox` and `ClockTicks` may come between any two steps. `sent` and
`cancelledAhead` are history variables.

### ActorLoop

`at` is where `run_message_loop` is: in its select, flushing, in a mutable
handler, in an error handler, in `before_stop`, cleaning up, gone. `then` is what
the flush was called for, `batch` the collected read-only futures, `errors` the
failures whose error handler has yet to run. `order` and `taken` are the inbox
with its history. `call` is where each sender's ask is, and `Held` who still has
a copy of its reply address: the inbox, a future, the running handler, the
actor's state (`stored`) or a task of its own (`spawned`); with the last copy the
reply channel closes (`NoReply`). A read-only future may ask its own actor
(`FutureAsks`). `Remote` messages come over one IPC connection, which may be
revoked. With `Catching = FALSE` a panic of anything unwinds the loop; with TRUE
the build's `catch-handler-panics` ends it where it happens, which is what a
handler that just ends looks like.

### Broadcasts

`bq` is the broker's inbox and `broker.to` the subscribers its fan-out still has
to reach; the handler of a broadcast is awaited, so the broker takes nothing else
meanwhile. `subs` holds per identifier the incarnation the broker knows, because
its set finds handles equal by identifier. An actor's `Leaving` is
`shutdown_cleanup` up to the removal, which waits for room at the broker
(`Leave`), and only then may its replacement be built. `sd` walks through
`shutdown_all`: flush, stop the roots, stop the broker, each with its deadline.
`owed`, `seen`, `ahead` and `promised` are history variables.

### IpcNames

`names` is the runtime's map. `ipc_expose` looks up and inserts in two steps
(`claims`), a supervisor collects the names of a child before it changes them one
by one (`upkeep`), and a start exposes the child from its own task.

### Subscriptions

The records (`types`, `pats`), the two inverse indexes, the route cache and the
count of the statistics are separate variables, changed as the code changes them
under its locks. A forward call (`fwd`) serves unsecured recipients under the
lock, asks the policy about the others outside it, one at a time, and looks again
before it delivers; `fresh` says whether its route is still the `Arc` it started
from. `inc` tells the connections apart that had one identifier.

### IpcListener

`conn` is where each connection's task is, `writer` its writer task, `guarded`
who holds an `InFlightGuard`, `notifying` who has taken the count to zero and has
yet to call `notify_waiters`. `shut` walks through
`shutdown_gracefully_with_timeout` and `wait_for_drain`, whose looks at the count
and whose armed notification are separate steps. A cancellation drops a frame's
future wherever it waits (`CancelFrame`). One actor answers; its handler may change the
exposed names. That is a write to a `DashMap`, which is synchronous: while
`process_envelope` holds the entry it read, and it holds it until the reply is
there, the handler waits *and keeps its worker thread*. `Workers` is the number of
threads of the runtime: with no thread free (`WorkerFree`) no task and no timer
moves, only the client and the handler that gets its lock.

### IpcClient

`wq` is the command queue to the writer task, `pending` and `active` the two
routing tables, `slot` each call's one-shot channel, `chan`, `fwd` and `out` the
three places a stream frame passes. The ends of the two tasks are taken apart
(fail the pending calls, clear the streams, drop the queue), since the other task
and the callers run in between. The peer reads one request at a time, answers or
refuses it, streams, pushes (also a frame the reader cannot read, which ends the
reader and leaves the socket open: `Unheard`), refuses the whole connection, or closes
at any moment; `peer.ran` is what reached its actor. `AskResult` is what
`remote_ask.rs` makes of a call's outcome.

## 3. Runs

Each run finishes within about four minutes with two workers.

| run | instance | shows |
|---|---|---|
| `Lifecycle` | OneForOne, 2 deferred children, one name reused, 5 incarnations, 2 faults | the registry's records, names, queue and channels agree (`RegistryIsConsistent`), owed slots are driven and statuses true (`SupervisionIsConsistent`), nothing recorded outlives the supervisor (`StoppedLeavesNoneRunning`), `TerminalStatesAreFinal` |
| `Callers` | a hired child that is released and may overrun its stop, StopSupervisor, allowance 2, 3 faults, 8 handles, fairness | `RecordsAreForever`, the registry's channels implement `ChildStatus` (`WatchersSeeTheCycle`), `ReleasedIsLeftRunning`, `EveryWaiterAnswered`, `CallersReturn`, `SupervisorProgresses` |
| `GroupRestart` | RestForOne, 2 hired and 1 adopted child, builds that fail or panic, one child overruns its stop, 1 fault | no replacement is built beside an original that is still up, nor beside another replacement (`AtMostOneIncarnation`), `NoChildForgotten`, `GroupsComeBackInOrder` |
| `ForeignNotices` | OneForOne, 1 name that is deferred, released and supervised again, no fault | a finding: `FailuresAreTheChildsOwn` is violated |
| `Limiter` | 12 ticks, window 3, 2 restarts | `LimiterIsConsistent`, `IntensityIsBounded`, `BackoffCompounds`, `GivesUpOnlyWhenSpent` |
| `Sends` | all three plans, capacity 1, interval 2, 8 ticks, fairness | `ScheduleIsConsistent`, `NoCatchUpBurst`, `OutcomeResolves` |
| `ActorLoop` | 3 messages (one mutates, one reads, one is the stop signal), one of them remote, inbox 1, high water mark 2, panics unwind, fairness | `HandlersDoNotClash`, `NothingIsAbandoned`, `AnswersProveThePast`, `RevokedNeverStarts`, `AsksEnd`, `LoopProgresses` |
| `Broadcasts` | 2 actors, one restarted or quitting, one that broadcasts what it gets, 2 broadcasts, 2 lives, inboxes of 1, fairness | `BrokerIsConsistent`, `DeliveryWasAskedFor`, `ShutdownLosesNoBroadcast`, `StopsComplete` |
| `Subscriptions` | 2 connections that reconnect once, 2 names, 1 pattern that matches both, limits of 1, 1 forward call | `DerivedStateAgrees`, `DeliveryIsWarranted` |
| `Listener` | 2 clients, connection limits 1 and 2, 1 frame each, queues of 1, a policy, 2 worker threads, fairness | `ListenerIsConsistent`, `StopReachesAll`, `HandlersProceed` |
| `Client` | 1 call, 1 stream of up to 3 frames, all queues 1, a peer that may refuse or push a frame too large to read, fairness | `ClientIsConsistent`, `StreamIsIntact`, `AnswerReachesItsCaller`; `disconnect` returns unless nobody reads the socket any more and it is full (`DisconnectReturns`) |
| `IpcNames` | 2 actors that share one name, 2 lives | a finding: `NamesLeadToTheLiving` is violated |

**Bounds.** `MaxSlots`, `MaxHandles`, `MaxFaults` bound how many registrations,
incarnations and spontaneous deaths a behaviour has. Two children are what the
interactions need (a failing child and a sibling), three for the order of a
group; a child that fails, is restarted and fails again needs three
incarnations; an allowance of two is used up with three faults. A start whose
incarnation would exceed `MaxHandles` never happens; the liveness run has enough
handles that no behaviour gets there. The registry has no run of its own: the
runs above drive it through the engine, and for any order of operations and any
number of names it is proved (section 5). `MaxTime` of
the limiter is several windows, so that restarts leave it. Queues of one are the
smallest that are full, empty and in between two senders; every wait for room in
the code happens with them. Two lives of an actor or a connection are what an
identifier that is used again needs. One forward call and one change of a
subscription at a time is enough for the forward to see every intermediate
table, since the changes are atomic under the lock. `Workers` is 2, one more than
there are handlers that can block a thread. `MidStream` of `Client` says whether a
frame that is too large may also come in the midst of a stream: `FALSE` in the run.
With `TRUE` the instance passes as well (1.65 million states, more than five
minutes), and so does one with two calls and no stream.

Deadlock checking is off everywhere: a supervisor that has stopped, a child given
up on, a settled schedule and a closed connection are legitimate ends. Where a
halt would be wrong, a liveness property says so.

**Fairness.**

* `Supervision`: every spawned task is polled until it ends (weak fairness of the
  loop, of each start, caller and group task), a child handles a stop signal it
  was sent, and a loop whose token has fired sees it. No fault, call or timeout
  is assumed to happen.
* `ScheduledSend`: tokio's select starts at a random branch and the channel grants
  permits in order, hence strong fairness of its branches and of the delivery;
  the target receives while its inbox is open.
* `ActorLoop`: weak fairness of the loop, of each future, of each task a handler
  spawned and of the senders. A deadline is assumed to fire only for an ask that
  one of the actor's own futures makes: without it such an ask holds up the loop
  that would answer it (section 4). Every other ask must end without.
* `Broadcasts`: weak fairness of the broker, the actors and the fan-out; strong
  fairness of a leaver's send to the broker, which queues for a permit. `StopsComplete`
  says that either no actor is stuck in its stop or the inboxes are gridlocked.
* `IpcListener`: weak fairness of each task; of a writer only by its cancellation,
  since a client may stop reading. No client and no handler is assumed to do
  anything. All of it is conditional on a free worker thread (`WorkerFree`): the
  promises are those of a runtime with more threads than handlers that block one in
  a write to the names, and section 4 has what happens on a smaller one. tokio also
  keeps the task a worker woke last in a slot that no other worker steals from; a
  handler that replies and *then* changes the names may so strand the task that
  holds the entry. That, and an endless stream of overlapping requests that starves
  the writer of the names, is not modelled.
* `IpcClient`: weak fairness of the tasks, the consumers and the deadlines, strong
  fairness of a peer that serves.

## 4. What the code does

Two findings are runs of their own, and `PROJECT.json` quotes the lines they disagree
with.

`ForeignNotices`: the registry promises that the notice of an incarnation it no
longer has is discarded (`registry.rs:280-283`, and the test at `1471-1473`). Notices
carry a name only (`engine.rs:613`): a start in flight is released and its name
supervised again, and the stop of the disowned incarnation counts as a failure of
the new child, which is charged for it, parked for a restart it does not need, and
whose own start is turned away.

`IpcNames`: after `unsupervise` has removed a child's names
(`actor_runtime.rs:358-360`), a start of it that was in flight exposes them again
(`engine.rs:307`), and they lead to an actor that is being stopped.

The others are reproduced by changing an instance or by checking a property that
no run lists.

| what the code does | at | instance | violates |
|---|---|---|---|
| a supervisor stopped during a group restart ends before the siblings it asked to stop | `signal.rs:39`, `engine.rs:1240` | `MCSupervision`, OneForAll, restarts 2, slots 2, handles 4, `Hired = {a, b}`, NotifyParent, 1 fault, may stop | `StoppedLeavesNoneRunning` |
| a child that dies before its start report is read is recorded Running for good ("Running and processing messages") | `registry.rs:184` | `MCSupervision`, OneForOne, `Deferred = {a}`, slots 1, handles 3, 2 faults | `RunningMeansServed` |
| the start report of a child that died before it was read is taken for its replacement's, if that start is in flight, and the end of the replacement is then judged against the dead one | `registry.rs:854` | `Lifecycle` | `FailuresAreTheChildsOwn` |
| the end of a refused duplicate is judged as the failure of the supervised child of that name, which is restarted beside itself | `engine.rs:613` | `MCSupervision`, `Hired = Reused = {a}`, no faults, slots 2, handles 4 | `FailuresAreTheChildsOwn` |
| the last worker thread blocks in a change of the exposed names, on a `current_thread` runtime (the `#[tokio::test]`s of the IPC, `acton_main(flavor = "current_thread")`) or with every worker in such a handler: the guard it waits for is held by a task nobody can run, nor does the time-out fire; the runtime is stuck for good | `listener.rs:1855-1890`, `actor_runtime.rs:298-406` | `Listener` with `Workers = 1` | `HandlersProceed`, `StopReachesAll` |
| `disconnect` waits for ever for a writer that is stuck in its write, once the reader ended over a frame it cannot read while the socket stays open and the other side no longer reads | `client.rs:1179-1188`, `857-868` | `Client` | `DisconnectAlwaysReturns` |
| a group restart that meets a start in flight builds a second incarnation | `engine.rs:983` | `MCSupervision`, OneForAll, `Deferred = {a, b}`, slots 2, handles 4, 1 fault | `AtMostOneIncarnation` |
| a start that panics leaves its slot Starting for ever | `engine.rs:122` | `Lifecycle` with "panic" in `BuildOutcomes` | `SupervisionIsConsistent` |
| a group restart brings back a sibling published as Down | `engine.rs:983` | `Lifecycle` with OneForAll and `FaultReasons = {"Normal"}` | `TerminalStatesAreFinal` |
| the stop of an incarnation a group disowned is taken for the end of its replacement, which outlives the supervisor | `engine.rs:1140` | `Lifecycle` with OneForAll, `Deferred = {a, b}`, no reuse, one fault | `NoChildForgotten` |
| a shutdown that meets two incarnations of one name tells one | `engine.rs:371` | `Lifecycle` with StopSupervisor | `NoChildForgotten` |
| a released child that was adopted with `supervise` is stopped with its former supervisor | `actor_handle.rs:395` | `Callers` with `Adopted = Released = {c}`, nothing hired or deferred | `ReleasedIsLeftRunning` |
| a disabled limiter counts all restarts ever as in the window | `restart_limiter.rs:220` | `Limiter` with `Enabled = FALSE` | `CountIsOfTheWindow` |
| with no initial backoff the delay jumps to the cap once the power overflows | `restart_limiter.rs:226` | `Limiter` with `InitialBackoff = 0`, `FloatMax = 2` | `EachBackoffIsAMultiple` |
| a schedule cancelled before its deadline may still send | `scheduled_send.rs:593` | `Sends` | `CancelledInTimeSendsNothing` |
| an answer does not prove that what was sent before was handled, if a read-only handler was among it (doc `actor_handle_interface.rs:137`) | `started.rs` read-only batch | `ActorLoop` | `AsksProveEverything` |
| an `act_on` handler whose future asks its own actor is released by the deadline only (docs `sending-messages/page.md:200`) | `actor_handle_interface.rs:159-165` | `ActorLoop` without the fairness of `Deadline` | `StopsEnd` |
| a handle used after its actor ended subscribes it for good (docs `pub-sub/page.md:234-236`) | `broker.rs:323` | `Broadcasts` with `Stale = TRUE` | `BrokerIsConsistent` |
| two exposes of one name may both believe they hold it ("the existing registration is **kept**", `actor_runtime.rs:273-276`) | `actor_runtime.rs:298` | `IpcNames` | `ClaimsAreKept` |
| a drained listener still has requests without an answer: the guard is dropped before the reply is written, and the writer is cancelled (doc `listener.rs:220-221`) | `listener.rs:529`, `857-899`, `973`, `1030` | `Listener` with `Watching = TRUE` | `DrainedMeansAnswered` |
| the refusal a client was told is overwritten by the loss of the connection that follows | `client.rs:300-309`, `936` | `Client` | `RefusalSurvives` |

Seen while reading and not run:

* no code cancels the `cancellation_token` of an `ActorHandle`
  (`common/actor_handle.rs:116`), so the arms that wait for it are dead;
* `SupervisionEscalated.consecutive_restarts` is filled with the number of
  attempts in the window (`engine.rs:743-748`);
* a second stop signal drained from a closed inbox runs `before_stop` again and
  overwrites the recorded reason (`started.rs:833`);
* a read-only future that was already collected still runs after its connection
  was revoked; `RevokedNeverStarts` is about handlers, as the code is;
* `handle_connection` gives up its registration before it joins the writer
  (`listener.rs:1309`, `1318`);
* a connection that the policy denies, and a peer whose inbox is closed, reach the
  caller of a remote ask as `TransportFailed`, not as `PeerRejected`
  (`remote_ask.rs`, `client.rs` `record_connection_rejection`).

Hazards that no property covers, beside those in `PROJECT.json`: a disabled limiter
keeps every timestamp (`restart_limiter.rs:220`); a supervisor stopped by
`StopSupervisor` reports `ParentShutdown` to its own (`engine.rs:844`); a handler
that awaits `supervise_with` on its own actor waits for its own message
(`actor_handle.rs:521`); two actors with bounded inboxes that send to each other
from their handlers (`outbound_envelope.rs:387`; the broker's own gridlock is in
`StopsComplete`); a rate limiter that is never refilled asks for an infinite
`Duration` (`rate_limiter.rs`); an IPC request that timed out keeps its pending
entry until the connection ends, and a dropped `request_stream` its active one
(`client.rs`); refusals are written by the accept loop itself (`listener.rs`).

## 5. Proofs

`RegistryProofs` proves of the registry alone, for all names, policies, strategies and bounds, `RegSpec => []P` for type correctness, for `RegistryIsConsistent`
(`RegistryHolds`: what the `Lifecycle` run checks of the registry), and
the action property `RecordsAreForever` (`RecordsHold`). `NamesAreExact`,
`HandlesFitTheirStates`, `WatchersAreNeverStale` and `QueueForgetsNobody` are its
parts with a story of their own. The assumption
is `RegistryConstants`. `RegSpec` lets the operations come in any order with any
arguments, so a registry composed with anything keeps these properties. Each
invariant is proved in the same way: lemmas state what an update of one slot
(`Moved`, `Publish`) and of several (`Rearranged`) does to the fields an
invariant reads; one step per operation shows it is preserved; temporal steps
combine them. `NamesLeadToTheirSlots` supports the others: that the name map and
the records agree is what makes freeing a name safe. `QueuedSlotsAreInTheQueue`
needs the fact that an operation that makes a slot launchable appends it and that
only `BeginStart` removes an entry, moving that very slot on.

The same module proves that the registry of a OneForOne supervisor implements
`ChildStatus` (`WatchersAlwaysSeeTheCycle`, the property `WatchersSeeTheCycle` of
the `Callers` run), for any number of children and any order of operations. `RegInv` says what a channel shows of its slot; the
refinement also needs that nobody is ever in an expected stop under this
strategy (`NobodyIsStopped`), for a stop that lands shows `Restarting` and then
`RestartPending`. `StepOfTheCycle` turns one slot's change into an action of
`ChildStatus`; one lemma per operation shows which change it makes.

The first part of `TimedProofs` proves `LimiterIsConsistent` (`LimiterHolds`),
the intensity bound (`IntensityHolds`) and that giving up is earned
(`EscalationIsEarned`), for every configuration (assumption `LimiterConstants`).
The invariant that carries them, `LimiterInv`, says that the timestamps kept are
exactly the end of the history and that everything before them left the window:
the intensity bound alone is not inductive, since it says nothing of what pruning
may have thrown away. `BackoffNeverShrinks` (`BackoffCompounds`) takes a
multiplier of at least one, which the configuration does not check (a disabled one
has 0, and no backoff). It needs that the last backoff was the one of the streak
before this restart (`StreakIsOfTheLast`), and that the powers of the multiplier
grow, which is an induction: the library's induction theorems take an operator,
which these provers cannot instantiate, but its theorem on the least element of a
well-founded set takes a set, and from that `AllNumbers` gets induction and
`PowerUnfolds` that the recursive function `Power` satisfies its own equation.

The second part of `TimedProofs` proves `ScheduleIsConsistent` (`ScheduleHolds`) and
`NoCatchUpBurst` (`NeverBursts`) for every interval, capacity and horizon, and
that a settled outcome stands (`OutcomeStands`; assumption `ScheduleConstants`).
`NoCatchUpBurst` relates the instants of two deliveries and is not inductive: a
step sees the deadline only. `SendInv` carries the distance over: while the task
waits or delivers, the deadline is far enough from the last delivery for the
plan, and a delivery under way has seen its deadline pass. The arithmetic of the
grid (the next multiple after a missed one is in a later interval) is in the
lemmas before it.

`SubscriptionsProofs` proves `DerivedStateAgrees` (`DerivedStateHolds`) and the
action property `DeliveryIsWarranted` (`DeliveriesHold`), for any finite sets of
connections, names and patterns and any bounds (`SubscriptionsAssumption`). That
the two indexes are inverses of the records is shown entry by entry; the
statistics' count by counting the subscriptions as pairs and showing that a
change of one record changes the number of pairs by the difference. A forward
call that kept its route needs `FreshCandidatesMatch`: a route nobody has
invalidated since still leads to connections that match.

`ActorLoopProofs` proves `HandlersDoNotClash` (`HandlersKeepApart`),
`NothingIsAbandoned` (`TheLoopPaysItsDebts`), `RevokedNeverStarts`
(`RevocationHolds`) and `AnswersProveThePast` (`AnAnswerProvesThePast`), for any
number of messages, any inbox and any high-water mark, with and without caught
panics (`ActorAssumption`). Neither of the first two is inductive. `ActorInv` adds
what the loop holds at each place (`LoopIsWhereItSays`), that it never waits for a
message with a full batch (`SelectHasRoom`), that every message taken is done,
collected, failed, in hand or next (`TakenIsAccounted`), and that only a
cancellation or a panic sends the loop to its end with messages in the inbox
(`LeavesAnEmptyInbox`). What an answer proves follows the reply address: whoever
holds one holds it since the message was taken, and by then every mutable handler
before it was done.

`BroadcastsProofs` proves, for any actors, capacities, numbers of lives and
broadcasts (`BroadcastsAssumption`), that nothing is handled that was not asked for
(`NothingUnasked`), that the broker's table follows the actors (`TheTableFollows`)
and that `shutdown_all` loses no broadcast queued before its flush
(`NoBroadcastIsLost`). `DeliveryInv` follows one broadcast from the broker's queue
through the fan-out to the inbox and says, at each place, that the receiver is an
incarnation that asked. `TableInv` reads the table together with what is still in
the broker's queue: applying the requests queued about an actor to its entry must
give the incarnation that runs. `FlushInv` adds where a broadcast owed to an open
actor is, and that it is never behind the flush. The last two take `~Stale`, that
the handle of an incarnation that ended is not used to subscribe: section 4 shows
what happens otherwise.

`IpcClientProofs` proves, for any calls, streams and capacities
(`ClientAssumption`), that the client's tables are consistent and its callers told
the truth (`ClientHoldsTogether`), that a stream arrives without a gap
(`StreamsArriveIntact`) and that an answer reaches the caller who waits for it
(`AnswersReachTheirCallers`). `ClientInv` follows a request and what comes back.
A request is in one place: the queue, the writer's hand, the socket or the peer's
hand (`TravelsOnce`), and once it has left them it never comes back, so that what is
said of a request that was refused stays true (`Truthful`). Whoever has heard nothing
is registered or still queued, and queued once the writer has failed its
registrations (`OpenCallsAreKept`). Every frame of a stream on the way is one the
peer sent, and a final one is the last (`FramesWereSent`). Without a gap, however,
holds only of what can still reach the consumer: a stream whose consumer left, whose
forwarder ended or whose entry is gone loses frames, and the numbering from the
consumer back to the socket (`InOrder`, `Follow`) is claimed while it is heard and
routed. That needs `LateStreams`: the reader aborted by `disconnect` may drop the
frame in its hands, but by then a stream still routed is one that never started.

`IpcListenerProofs` proves `ListenerIsConsistent` (`ListenerHolds`) for any number
of connections and any limit, queues and frames (`ListenerAssumption`): no permit
and no count of requests in flight is lost or doubled, and a shutdown that waits for
a count that is 0 is woken. `ListenerInv` adds who the actor may still answer
(`OnlyWaitersAreServed`). A reply moves its connection from one place to another, and
only because that connection waits for it, and for no other request, does the move
leave the permits and the count alone: a time-out, a cancellation or the end of a
stream makes the request nobody's, in the actor's hands as in its inbox. The accounts are
sizes of sets, so each step says whether the set of holders, or of guarded requests,
gained one, lost one or stayed; `NoLostWakeup` rests on the count being that of the
guards that exist.

`SupervisionProofs` is about the whole supervisor with its children, tasks and callers. `SupInv` types the state and says that each reference to an incarnation,
in the registry, the inbox, a task or a caller's hands, names a child that was
created, under the name it is known by; from it every step of `Supervision` is a
step of the registry or leaves it alone (`TheRegistryIsARegistry`), so that the
registry's theorems carry over (`SupervisorsRegistryHolds`,
`SupervisorsRecordsHold`), and a whole one-for-one supervisor implements `ChildStatus`
(`SupervisorsWatchersSeeTheCycle`). The other theorems, each with the invariant that makes
it inductive and with what it takes:

| theorem | says | invariant | takes |
|---|---|---|---|
| `WaitersAreAnswered` | `EveryWaiterAnswered` | once the loop has been left nothing is owed an incarnation, and nobody touches the registry again (`NothingIsOwed`) | |
| `ReleasedStaysUp` | `ReleasedIsLeftRunning` | a handle is in one place: its builder, one message, one record, or the caller that let the child go (`OnePlace`, `LeftAlone`) | no name both adopted and released |
| `GivenUpIsGivenUp` | `TerminalStatesAreFinal` | which state each operation may leave (`Goes`) | OneForOne |
| `OwedSlotsAreDriven` | `SupervisionIsConsistent` | a slot in a state that waits has its queue entry, start task, report, backoff or timer (`DrivenInv`) | OneForOne, no start that panics |
| `OneActorPerChild` | `AtMostOneIncarnation` | a name has one token: who is up under it, or the news that he is not (`TokenInv`) | OneForOne, `NamesAreKeptApart` |
| `NobodyIsForgotten` | `NoChildForgotten` | a child that is up was told to stop, is in somebody's hands or on the list of a group task, or is where the shutdown looks (`WhoHasWhom`) | `NamesAreKeptApart`, `SparesThoseInFlight`, a name adopted or hired but not both, NotifyParent |
| `TheSupervisorEndsLast` | `StoppedLeavesNoneRunning` | whom nobody holds is on record until the shutdown takes stock and waited for afterwards (`WaitedFor`) | OneForOne, `NamesAreKeptApart`, NotifyParent, no stop that overruns, nobody hired or released |

No hypothesis is there for convenience; section 4 has the behaviour that breaks the
property without it. OneForOne: a group restart brings back a sibling that was given
up, may never drive the sibling it passes over, and leaves the siblings it is stopping
to a task the shutdown does not wait for. `SparesThoseInFlight`: a
group restart that parks a sibling builds beside the start, or the stop, it has in
flight, and disowns an incarnation whose end is then taken for its replacement's, or
that nobody stops; one for one nobody is parked (`OneForOneSparesThem`). No panic in a start: nobody reports, and the slot
waits for ever. `NamesAreKeptApart`: a notice names a child and not an
incarnation, so the end of a refused duplicate or of a child that was let go is
taken for the end of who is registered under the name now. NotifyParent: with
StopSupervisor the loop ends with notices and registrations still queued, and the
shutdown tells one child per name. A stop that overruns, a refusal and a release
each leave a child that is stopped by somebody the supervisor does not wait for. A
name both adopted and released: the children map never forgets.
`Lifecycle` is an instance that meets all of them, `GroupRestart` one that meets those
of `NobodyIsForgotten` in every behaviour.

Whose end a notice reports (`FailuresAreTheChildsOwn`) cannot be proved: it is false
where the code claims it (`ForeignNotices`), and what remains after ruling out the
cases in section 4 says little.

That nobody is forgotten when groups restart rests on `StopsAreSent`. The registry
says that a stop was begun before the group task sends it, and the shutdown drops such
a record, so the child is found neither on record nor with a signal: it is on the
list of a group task, and it leaves the list only after the signal was sent
(`ListsAreKept`), whether or not the supervisor is still there.

What groups do is `GroupInv`, whatever the strategy. A record that says a stop was
begun has a group task that still has to see to it, or the stop is over; that part
needs nothing else (`EveryStopIsCarriedOut`). That the group is down before anybody
is launched and comes back in start order (`GroupsReturnInOrder` for
`GroupsComeBackInOrder`) takes `OneGroupAtATime`: a failure is acted on when the
group restart before it is over, and every child on record as running is up or has
its notice on the way. Then there is one group task; while it asks for restarts
nobody is being stopped (`OneAtATime`); the restart of an earlier child is with the
task or ahead in the inbox (`Ahead`); and it is not read before the notice of the
child's end, which is on its way once the child is down (`EndFirst`, `EndIsTold`).
The instance of `GroupRestart` meets `OneGroupAtATime` in every behaviour. Both parts of
it are needed: a second task's requests overtake the first's, and a child that ended
before its start was recorded gives no notice for its stop, so that its restart is
asked for, and its slot passed over, too early.

Only model-checked: everything under fairness, which is out of TLAPS's reach.

## 6. What is left out

Not modelled at all: the wire format, the IPC types, configuration and security
(`common/ipc/protocol.rs`, `types.rs`, `config.rs`, `socket_security.rs`: parsing
and plain data), the crate's configuration, traits and message types, macros,
CLI, test harness, examples, benches and docs. The rate limiter
(`common/ipc/rate_limiter.rs`) is a token bucket of floats whose only effect on
the listener is a reply to a frame that is not tracked, which `IpcListener` has.
The clock is a passing of time: the modules that need one have their own.

Left out of the modelled components: the content of user messages, the hooks
`before_start` and `after_start` of the loop, the capacity of the supervisor's own
inbox, the failure text of a status, `replace_legacy` (never called), the
`&mut self` variant of `supervise_with`, a release that keeps the IPC names, the
frames of discovery beyond the reply they are given. In `Supervision` a child's
mailbox is the set of stop signals in it, and reserving a permit and sending are
one step. In `RestartLimiter` fractional multipliers and sub-tick timing are left
out.

The map covers about a sixth (17%) of the implementation's lines. Of the crate's
33,500 lines 13,800 are code: the others are comments and the unit tests that
stand in the same files.

## 7. Plan

1. `SupervisorTree`: a supervisor under a supervisor, escalation with
   `StopSupervisor` and what reason the upper one is given; two bounded inboxes
   that send to each other.
2. `RateLimiter` with rational tokens, composed with the refusals the accept loop
   writes; `Clock` and the driver of timers.
