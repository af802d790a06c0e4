-------------------------- MODULE SupervisionRegistry --------------------------
(***************************************************************************)
(* A supervisor's private record of its children and every way its own     *)
(* task changes that record.  The registry is reached by one task only, so *)
(* each operation below is atomic; the operations are exactly those the    *)
(* engine runs between two awaits (begin_group_stops and                   *)
(* park_group_for_restart, for instance, are one step).                    *)
(*                                                                         *)
(* Next lets a caller apply the operations in any order with any           *)
(* arguments.  Supervision composes them with the message loop, the child  *)
(* incarnations and the background tasks.                                  *)
(***************************************************************************)
EXTENDS Integers, Sequences, RestartPlan

CONSTANTS
    Name,         \* identifiers (Ern) children are registered under
    Policy,       \* the restart policy each child is configured with
    Strategy,     \* the supervisor's strategy
    MaxRestarts,  \* restarts a limiter allows in its window
    MaxSlots,     \* bound: registrations a behaviour may make
    MaxHandles    \* bound: incarnations a behaviour may create

ASSUME RegistryConstants ==
    /\ Name # {}
    /\ Policy \in [Name -> RestartPolicies]
    /\ Strategy \in Strategies
    /\ MaxRestarts \in Nat
    /\ MaxSlots \in Nat
    /\ MaxHandles \in Nat

Index == 1..MaxSlots
NoSlot == 0
\* A handle names one incarnation; 0 stands for Option::None.
Handle == 1..MaxHandles
NoHandle == 0

VARIABLES
    slots,         \* the records, by position; append-only
    used,          \* how many positions are taken
    byErn,         \* name |-> position, for children under active supervision
    pending,       \* positions recorded but not yet handed to a start task
    shuttingDown   \* set before the children are terminated

regVars == <<slots, used, byErn, pending, shuttingDown>>

-------------------------------------------------------------------------------
(* Slot states.  ExpectedStop { then_restart } is two states here.          *)

SlotStates == {"Unused", "Pending", "Starting", "Running", "AwaitingBackoff",
               "AwaitingRestart", "Restarting", "StopThenRestart",
               "StopThenDown", "Down", "Escalated", "Retired"}

Accepting == {"Starting", "Running"}             \* accepts_termination, is_running
ExpectedStop == {"StopThenRestart", "StopThenDown"}
\* The states in which somebody waits for an incarnation nobody has yet.
Owed == {"Pending", "AwaitingRestart", "Starting", "Restarting",
         "AwaitingBackoff"} \cup ExpectedStop
Terminal == {"Down", "Escalated", "Retired"}

PublishedStates == {"Starting", "Running", "RestartPending", "Restarting"}
                       \cup Terminal

Published(state) ==
    CASE state \in {"Pending", "Starting", "Unused"}    -> "Starting"
      [] state = "AwaitingBackoff"                       -> "RestartPending"
      [] state \in {"AwaitingRestart", "Restarting"} \cup ExpectedStop
                                                         -> "Restarting"
      [] OTHER                                           -> state

\* `charged` is the number of timestamps the child's limiter holds, `pub` the
\* last value sent on its status channel.
Status == [state : PublishedStates, gen : Nat, handle : Handle \cup {NoHandle},
           charged : Nat]
Slot == [ern : Name, restartable : BOOLEAN, handle : Handle \cup {NoHandle},
         gen : Nat, state : SlotStates, charged : Nat, pub : Status]

\* The value a status channel is created with.
FirstStatus(h) == [state |-> "Starting", gen |-> 0, handle |-> h, charged |-> 0]

\* Slip: the internal state is sent as it is.
PublishUnmapped(s) ==
    [s EXCEPT !.pub = [state |-> s.state, gen |-> s.gen, handle |-> s.handle,
                       charged |-> s.charged]]

\* Sends the slot's status unless no watched field moved.  The handle is not
\* one of the compared fields.
Publish(s) ==
    LET next == [state |-> Published(s.state), gen |-> s.gen,
                 handle |-> s.handle, charged |-> s.charged]
    IN  IF /\ s.pub.state = next.state
           /\ s.pub.gen = next.gen
           /\ s.pub.charged = next.charged
        THEN s
        ELSE [s EXCEPT !.pub = next]

\* Every update of the code is a few field writes followed by publish().
Moved(s, state, h) == Publish([s EXCEPT !.state = state, !.handle = h])

Supervised(n) == byErn[n] # NoSlot
Taken == 1..used

-------------------------------------------------------------------------------
(* Registration.                                                            *)

NewSlot(n, restartable, h, state) ==
    [ern |-> n, restartable |-> restartable, handle |-> h, gen |-> 0,
     state |-> state, charged |-> 0, pub |-> FirstStatus(h)]

AddSlot(n, slot) ==
    /\ ~Supervised(n)
    /\ used < MaxSlots
    /\ used' = used + 1
    /\ slots' = [slots EXCEPT ![used + 1] = Publish(slot)]
    /\ byErn' = [byErn EXCEPT ![n] = used + 1]

\* A child that is already running is recorded.
Register(n, h, restartable) ==
    /\ AddSlot(n, NewSlot(n, restartable, h, "Running"))
    /\ UNCHANGED <<pending, shuttingDown>>

\* A child is recorded and queued; it does not exist yet.
RegisterPending(n) ==
    /\ AddSlot(n, NewSlot(n, TRUE, NoHandle, "Pending"))
    /\ pending' = Append(pending, used + 1)
    /\ UNCHANGED shuttingDown

\* Both refuse a name under active supervision, and change nothing.
RegisterDuplicate(n) == Supervised(n) /\ UNCHANGED regVars

-------------------------------------------------------------------------------
(* Starting a queued child and recording how that went.                     *)

\* Pops the front of the queue; an entry whose slot moved on is discarded.
Launchable(i) == slots[i].state \in {"Pending", "AwaitingRestart"}

BeginStart ==
    /\ pending # <<>>
    /\ pending' = Tail(pending)
    /\ LET i == Head(pending) IN
         slots' = IF Launchable(i)
                  THEN [slots EXCEPT ![i] =
                          Moved(@, IF @.state = "Pending" THEN "Starting"
                                                          ELSE "Restarting",
                                @.handle)]
                  ELSE slots
    /\ UNCHANGED <<used, byErn, shuttingDown>>

\* Slip: any slot of that name takes the child.
StartAcceptedAnyState(i, n) == slots[i].ern = n

\* complete_start: the generation advances on a replacement, not on a first
\* start.
StartAccepted(i, n) == slots[i].state \in {"Starting", "Restarting"} /\ slots[i].ern = n

Advanced(s) == IF s.state = "Restarting" THEN [s EXCEPT !.gen = @ + 1] ELSE s

CompleteStart(i, n, h) ==
    /\ StartAccepted(i, n)
    /\ slots' = [slots EXCEPT ![i] = Moved(Advanced(@), "Running", h)]
    /\ UNCHANGED <<used, byErn, pending, shuttingDown>>

\* Slip: the name stays taken.
FailStartKeepingName(i) ==
    /\ slots[i].state \in Owed
    /\ slots' = [slots EXCEPT ![i] = Moved(@, "Retired", NoHandle)]
    /\ UNCHANGED <<used, byErn, pending, shuttingDown>>

\* fail_start on one slot: retired, and its name freed.
FailStart(i) ==
    /\ slots[i].state \in Owed
    /\ slots' = [slots EXCEPT ![i] = Moved(@, "Retired", NoHandle)]
    /\ byErn' = [byErn EXCEPT ![slots[i].ern] = NoSlot]
    /\ UNCHANGED <<used, pending, shuttingDown>>

\* Slip: a slot whose stop has not landed takes the restart.
TimerMatchesWhileStopping(i, n, g) ==
    /\ slots[i].state \in {"AwaitingBackoff", "StopThenRestart"}
    /\ slots[i].ern = n
    /\ slots[i].gen = g

\* A backoff timer came due.  Position, name, state and generation must match.
TimerMatches(i, n, g) ==
    /\ slots[i].state = "AwaitingBackoff"
    /\ slots[i].ern = n
    /\ slots[i].gen = g

\* Slip: the slot moves on and is not queued.
QueueRestartUnqueued(i, n, g) ==
    /\ TimerMatches(i, n, g)
    /\ slots' = [slots EXCEPT ![i] = Moved(@, "AwaitingRestart", @.handle)]
    /\ UNCHANGED <<used, byErn, pending, shuttingDown>>

QueueRestart(i, n, g) ==
    /\ TimerMatches(i, n, g)
    /\ slots' = [slots EXCEPT ![i] = Moved(@, "AwaitingRestart", @.handle)]
    /\ pending' = Append(pending, i)
    /\ UNCHANGED <<used, byErn, shuttingDown>>

-------------------------------------------------------------------------------
(* A termination notice: record_child_terminated, evaluate and what they    *)
(* apply.  A notice names a child, not an incarnation.                       *)

\* Slip: whatever state the slot is in.
FreshFailureAnyState(n) == Supervised(n) /\ ~shuttingDown

\* The slot a notice is about accepts it as a fresh failure.
FreshFailure(n) ==
    /\ Supervised(n)
    /\ ~shuttingDown
    /\ slots[byErn[n]].state \in Accepting

IgnoreNotice(n) ==
    /\ \/ ~Supervised(n)
       \/ shuttingDown
       \/ Supervised(n) /\ slots[byErn[n]].state \notin Accepting \cup ExpectedStop
    /\ UNCHANGED regVars

\* Slip: the slot moves without publish().
GroupStopLandedUnpublished(n) ==
    /\ Supervised(n)
    /\ ~shuttingDown
    /\ slots[byErn[n]].state \in ExpectedStop
    /\ slots' = [slots EXCEPT ![byErn[n]].handle = NoHandle,
                   ![byErn[n]].state = IF @ = "StopThenRestart" THEN "AwaitingBackoff"
                                                               ELSE "Down"]
    /\ UNCHANGED <<used, byErn, pending, shuttingDown>>

GroupStopLanded(n) ==
    /\ Supervised(n)
    /\ ~shuttingDown
    /\ slots[byErn[n]].state \in ExpectedStop
    /\ slots' = [slots EXCEPT ![byErn[n]] =
                   Moved(@, IF @.state = "StopThenRestart" THEN "AwaitingBackoff"
                                                           ELSE "Down", NoHandle)]
    /\ UNCHANGED <<used, byErn, pending, shuttingDown>>

Restartable(n, reason) ==
    slots[byErn[n]].restartable /\ ShouldRestart(Policy[n], reason)

\* Slip: the dead incarnation's handle stays.
ForgetChildKeepingHandle(n, reason) ==
    /\ FreshFailure(n)
    /\ ~Restartable(n, reason)
    /\ slots' = [slots EXCEPT ![byErn[n]] = Moved(@, "Down", @.handle)]
    /\ UNCHANGED <<used, byErn, pending, shuttingDown>>

\* Forget: no blueprint, or a policy that forbids a restart.
ForgetChild(n, reason) ==
    /\ FreshFailure(n)
    /\ ~Restartable(n, reason)
    /\ slots' = [slots EXCEPT ![byErn[n]] = Moved(@, "Down", NoHandle)]
    /\ UNCHANGED <<used, byErn, pending, shuttingDown>>

\* `kept` of the limiter's timestamps survive prune_expired.
EscalateChild(n, reason, kept) ==
    /\ FreshFailure(n)
    /\ Restartable(n, reason)
    /\ kept >= MaxRestarts
    /\ slots' = [slots EXCEPT ![byErn[n]] =
                   Moved([@ EXCEPT !.charged = kept], "Escalated", NoHandle)]
    /\ UNCHANGED <<used, byErn, pending, shuttingDown>>

Views == [i \in {j \in Taken : slots[j].state # "Retired"} |->
            [restartable |-> slots[i].restartable,
             alive       |-> /\ slots[i].handle # NoHandle
                             /\ slots[i].state \in Accepting]]

RestartPlanFor(n) == PlanRestart(Strategy, byErn[n], Views)

\* The siblings to stop keep their handle and expect a notice; everything else
\* the plan rebuilds is parked behind the backoff, its handle dropped.
Rearranged(s, stopped, rebuilt) ==
    IF stopped
    THEN Moved(s, IF rebuilt THEN "StopThenRestart" ELSE "StopThenDown", s.handle)
    ELSE IF rebuilt THEN Moved(s, "AwaitingBackoff", NoHandle)
                    ELSE s

ScheduleRestart(n, reason, kept) ==
    /\ FreshFailure(n)
    /\ Restartable(n, reason)
    /\ kept < MaxRestarts
    /\ LET plan == RestartPlanFor(n) IN
         slots' = [i \in Index |->
                     Rearranged(IF i = byErn[n] THEN [slots[i] EXCEPT !.charged = kept + 1]
                                                ELSE slots[i],
                                i \in plan.stop, i \in plan.restart)]
    /\ UNCHANGED <<used, byErn, pending, shuttingDown>>

\* How many timestamps prune_expired leaves is the clock's business.
Escalates(n, reason) ==
    FreshFailure(n) /\ \E kept \in 0..slots[byErn[n]].charged : EscalateChild(n, reason, kept)
Restarts(n, reason) ==
    FreshFailure(n) /\ \E kept \in 0..slots[byErn[n]].charged : ScheduleRestart(n, reason, kept)

-------------------------------------------------------------------------------
(* Letting a child go, and going down.                                      *)

\* Slip: the name is freed, the record stays live.
RetireNameOnly(n) ==
    /\ Supervised(n)
    /\ byErn' = [byErn EXCEPT ![n] = NoSlot]
    /\ UNCHANGED <<slots, used, pending, shuttingDown>>

\* retire: the caller gets the handle the slot held.
Retire(n) ==
    /\ Supervised(n)
    /\ slots' = [slots EXCEPT ![byErn[n]] = Moved(@, "Retired", NoHandle)]
    /\ byErn' = [byErn EXCEPT ![n] = NoSlot]
    /\ UNCHANGED <<used, pending, shuttingDown>>

RetireUnknown(n) == ~Supervised(n) /\ UNCHANGED regVars

\* Slip: a slot waiting out a backoff has nobody working on it and is left out.
SettleUnfinishedStarts ==
    LET owed == {i \in Index : slots[i].state \in Owed \ {"AwaitingBackoff"}} IN
    /\ shuttingDown' = TRUE
    /\ pending' = <<>>
    /\ slots' = [i \in Index |-> IF i \in owed THEN Moved(slots[i], "Retired", NoHandle)
                                               ELSE slots[i]]
    /\ byErn' = [n \in Name |-> IF \E i \in owed : slots[i].ern = n THEN NoSlot
                                                                    ELSE byErn[n]]
    /\ UNCHANGED used

\* begin_shutdown and cancel_unfinished_starts, with nothing between them.
SettleForShutdown ==
    LET owed == {i \in Index : slots[i].state \in Owed} IN
    /\ shuttingDown' = TRUE
    /\ pending' = <<>>
    /\ slots' = [i \in Index |-> IF i \in owed THEN Moved(slots[i], "Retired", NoHandle)
                                               ELSE slots[i]]
    /\ byErn' = [n \in Name |-> IF \E i \in owed : slots[i].ern = n THEN NoSlot
                                                                    ELSE byErn[n]]
    /\ UNCHANGED used

\* What a shutdown takes from the registry to stop.
LiveHandles == {slots[i].handle : i \in {j \in Taken : slots[j].state # "Retired"}}
                   \ {NoHandle}

-------------------------------------------------------------------------------
Unregistered == NewSlot(CHOOSE n \in Name : TRUE, FALSE, NoHandle, "Unused")

RegInit ==
    /\ slots = [i \in Index |-> Unregistered]
    /\ used = 0
    /\ byErn = [n \in Name |-> NoSlot]
    /\ pending = <<>>
    /\ shuttingDown = FALSE

Notice(n, reason) ==
    \/ IgnoreNotice(n)
    \/ GroupStopLanded(n)
    \/ ForgetChild(n, reason)
    \/ Escalates(n, reason)
    \/ Restarts(n, reason)

RegNext ==
    \/ \E n \in Name :
         \/ \E h \in Handle, restartable \in BOOLEAN : Register(n, h, restartable)
         \/ RegisterPending(n)
         \/ RegisterDuplicate(n)
         \/ \E i \in Index, h \in Handle : CompleteStart(i, n, h)
         \/ \E i \in Index : QueueRestart(i, n, slots[i].gen)
         \/ \E reason \in TerminationReasons : Notice(n, reason)
         \/ Retire(n)
         \/ RetireUnknown(n)
    \/ BeginStart
    \/ \E i \in Index : FailStart(i)
    \/ SettleForShutdown

RegSpec == RegInit /\ [][RegNext]_regVars

-------------------------------------------------------------------------------
(* Properties.                                                              *)

RegTypeOK ==
    /\ slots \in [Index -> Slot]
    /\ used \in 0..MaxSlots
    /\ byErn \in [Name -> Index \cup {NoSlot}]
    /\ pending \in Seq(Index)
    /\ shuttingDown \in BOOLEAN

\* A name leads to one record and every record still supervised is found under
\* its own name: two children never answer to one name, and no child the
\* supervisor has not let go of is unreachable by name (by_ern, slots).
NamesLeadToTheirSlots ==
    /\ \A n \in Name : Supervised(n) =>
         /\ byErn[n] \in Taken
         /\ slots[byErn[n]].ern = n
         /\ slots[byErn[n]].state # "Retired"
    /\ \A i \in Taken : slots[i].state # "Retired" => byErn[slots[i].ern] = i
    /\ \A i \in Index \ Taken : slots[i].state = "Unused"
    /\ \A i \in Taken : slots[i].state # "Unused"

\* A slot holds a handle exactly while an incarnation it knows of may be up, so
\* what live_handles() hands a shutdown is neither a dead record nor short of
\* one (set_handle is called at six places, none of them next to the other).
HandleWhileServing ==
    \A i \in Index :
        slots[i].handle # NoHandle <=> slots[i].state \in {"Running"} \cup ExpectedStop

\* A watcher is never left looking at an old status: publish() skips an update
\* whose watched fields did not move and never compares the handle, yet what a
\* watcher reads agrees with the slot, down to the handle of a running child.
WatchersSeeTheSlot ==
    \A i \in Taken :
        /\ slots[i].pub.state = Published(slots[i].state)
        /\ slots[i].pub.gen = slots[i].gen
        /\ slots[i].pub.state = "Running" => slots[i].pub.handle = slots[i].handle

\* A slot waiting to be started is in the queue, whatever happened to it in
\* between: no child is forgotten because its queue entry was spent on an
\* earlier state of the slot (begin_start discards entries that moved on).
QueuedSlotsAreInTheQueue ==
    \A i \in Taken : Launchable(i) => \E k \in 1..Len(pending) : pending[k] = i

\* Positions are for ever: records are appended, never moved or renamed, and a
\* retired one never changes again, so a RestForOne index and a timer armed long
\* ago still mean the child they were taken for.
PositionsAreForever ==
    [][/\ used' >= used
       /\ \A i \in Taken :
            /\ slots[i].ern = slots'[i].ern
            /\ slots[i].state = "Retired" => slots'[i] = slots[i]]_regVars

\* A generation advances by one, and only when a replacement is recorded as
\* running: a timer armed for the slot stays valid until then and not after.
GenerationCountsReplacements ==
    [][\A i \in Taken : slots'[i].gen # slots[i].gen =>
          /\ slots'[i].gen = slots[i].gen + 1
          /\ slots[i].state = "Restarting" /\ slots'[i].state = "Running"]_regVars

\* The registry's records agree with each other after any sequence of calls:
\* names, positions, handles, queue and what watchers were told.
RegistryIsConsistent ==
    /\ RegTypeOK
    /\ NamesLeadToTheirSlots
    /\ HandleWhileServing
    /\ QueuedSlotsAreInTheQueue
    /\ WatchersSeeTheSlot

\* What an index or a generation taken once means later.
RecordsAreForever == PositionsAreForever /\ GenerationCountsReplacements

===============================================================================
