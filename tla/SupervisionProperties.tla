------------------------- MODULE SupervisionProperties -------------------------
(***************************************************************************)
(* What Supervision must get right.  Which of these hold under which       *)
(* strategy, and which the code breaks, is the subject of the runs.        *)
(***************************************************************************)
EXTENDS Supervision

Message ==
    [type : {"ChildTerminated"}, name : Name, reason : TerminationReasons, inc : Handle]
    \cup [type : {"SupervisedChildStarted"}, name : Name, idx : Index,
          inc : Handle \cup {NoHandle}]
    \cup [type : {"RegisterSupervisedChild"}, name : Name, inc : Handle,
          restartable : BOOLEAN]
    \cup [type : {"UnregisterSupervisedChild"}, name : Name]
    \cup [type : {"RestartDue"}, name : Name, idx : Index, gen : Nat]
    \cup [type : {"Terminate"}]

GroupRestart(t) ==
    /\ t.id \in Handle /\ t.asked \in BOOLEAN /\ t.due \in BOOLEAN
    /\ \A s \in t.stops : s.idx \in Index /\ s.inc \in Handle
    /\ \A d \in t.dues : d.idx \in Index /\ d.name \in Name /\ d.gen \in Nat

Child == [name : Name, idx : Index \cup {NoSlot}, life : Lives,
          signals : SUBSET {"Terminate", "Cascade"}, holder : Holders]

SupTypeOK ==
    /\ RegTypeOK
    /\ inc \in [Handle -> Child]
    /\ born \in 0..MaxHandles /\ faults \in 0..MaxFaults
    /\ inbox \in Seq(Message)
    /\ inboxOpen \in BOOLEAN /\ cancelled \in BOOLEAN
    /\ phase \in {"loop", "awaitStarts", "terminating", "stopped"}
    /\ toStop \subseteq Handle
    /\ \A t \in groups : GroupRestart(t)
    /\ kids \in [Name -> Handle \cup {NoHandle}]
    /\ releaser \in [at : {"idle", "waiting", "answered", "done"}, name : Name,
                     stopping : BOOLEAN, got : Handle \cup {NoHandle}]

-------------------------------------------------------------------------------
Up(h) == inc[h].life \in {"building", "live"}
NoticePending(h) ==
    \E k \in 1..Len(inbox) : inbox[k].type = "ChildTerminated" /\ inbox[k].inc = h
Serving == phase = "loop" /\ inboxOpen /\ ~cancelled

AwaitingStop == UNION {{s.inc : s \in t.stops} : t \in groups}

\* Somebody still holds this incarnation's handle, or it was told to stop.
Accounted(h) ==
    \/ inc[h].signals # {}
    \/ inc[h].holder # "nobody"
    \/ h \in AwaitingStop
    \/ releaser.got = h /\ releaser.at = "answered"

\* A supervisor that has stopped leaves no child running that nobody will ever
\* stop: each was told to, or some task or caller still holds it.  The three
\* views of shutdown_child_handles, the start tasks' duty to stop what they
\* cannot deliver and the order in shutdown_cleanup are all there for this.
NoChildForgotten ==
    phase = "stopped" => \A h \in Handle : Up(h) => Accounted(h)

\* The recorded children are really down when the supervisor is: signal.rs says
\* Terminate waits for the children to terminate.
StoppedLeavesNoneRunning ==
    phase = "stopped" =>
        \A h \in Handle : inc[h].holder \in {"nobody", "stray"} => ~Up(h)

\* Nobody watches a status for ever: once the supervisor has left its loop, no
\* published status promises an incarnation that can no longer come.
EveryWaiterAnswered ==
    phase # "loop" =>
        \A i \in Taken : slots[i].pub.state \in {"Running"} \cup Terminal

\* A supervised child is one actor: a replacement is not built while an earlier
\* incarnation of the same slot is still up, be it the first one, which a caller
\* built and only its name leads to the slot it serves, or a replacement.
SlotServed(h) == IF inc[h].idx # NoSlot THEN inc[h].idx ELSE byErn[inc[h].name]
AtMostOneIncarnation ==
    \A g, h \in Handle :
        g # h /\ SlotServed(g) # NoSlot /\ Up(g) /\ Up(h) => SlotServed(g) # SlotServed(h)

\* A slot that is owed an incarnation has somebody working on it: a queue entry,
\* a start task, a report on its way, a timer of its generation, or a stop that
\* is going to land.
Driven(i) ==
    /\ slots[i].state \in {"Pending", "AwaitingRestart"} =>
         \E k \in 1..Len(pending) : pending[k] = i
    /\ slots[i].state \in {"Starting", "Restarting"} =>
         \/ \E h \in StartTasks : inc[h].idx = i /\ inc[h].holder # "stray"
         \/ \E k \in 1..Len(inbox) :
              inbox[k].type = "SupervisedChildStarted" /\ inbox[k].idx = i
    /\ slots[i].state = "AwaitingBackoff" =>
         \/ \E t \in groups : \E d \in t.dues : d.idx = i /\ d.gen = slots[i].gen
         \/ \E k \in 1..Len(inbox) : /\ inbox[k].type = "RestartDue"
                                     /\ inbox[k].idx = i /\ inbox[k].gen = slots[i].gen
    /\ slots[i].state \in ExpectedStop =>
         \/ NoticePending(slots[i].handle)
         \/ /\ Up(slots[i].handle)
            /\ \/ inc[slots[i].handle].signals # {}
               \/ slots[i].handle \in AwaitingStop

EveryOwedSlotIsDriven == Serving => \A i \in Taken : Driven(i)

\* Between any two steps of a serving supervisor its state is well formed and
\* none of its children is left to nobody.
SupervisionIsConsistent == SupTypeOK /\ EveryOwedSlotIsDriven

\* A slot says Running of a child that is there to serve, or whose termination
\* the supervisor has yet to read.
RunningMeansServed ==
    Serving => \A i \in Taken : slots[i].state = "Running" =>
        inc[slots[i].handle].life = "live" \/ NoticePending(slots[i].handle)

\* A supervisor restarts a child for the end of the incarnation it supervises,
\* never for that of another actor of the same name.
OwnNotice(m) ==
    LET i == byErn[m.name] IN
    IF slots[i].state = "Starting" THEN inc[m.inc].idx = i ELSE m.inc = slots[i].handle
Judged(m) ==
    /\ inbox' = Tail(inbox)
    /\ m.type = "ChildTerminated" /\ Supervised(m.name)
    /\ slots[byErn[m.name]].state \in Accepting \cup ExpectedStop
FailuresAreTheChildsOwn ==
    [][inbox # <<>> /\ Judged(Head(inbox)) => OwnNotice(Head(inbox))]_vars

\* Down, Escalated and Retired are final.
TerminalStatesAreFinal ==
    [][\A i \in Index : slots[i].state \in Terminal =>
         slots'[i].state \in {slots[i].state, "Retired"}]_vars

\* A restart is launched only when every sibling the supervisor asked to stop is
\* down, but for those that outlast the deadline, and not before an earlier child
\* that is to come back with it.
Relaunched(i) == slots[i].state = "AwaitingRestart" /\ slots'[i].state = "Restarting"
WholeGroupDownBeforeRestart ==
    [][\A i \in Index : Relaunched(i) =>
         \A j \in Taken : slots[j].state \in ExpectedStop => Over(slots[j].handle)]_vars
RestartsFollowStartOrder ==
    [][\A i, j \in Index : Relaunched(i) /\ j < i /\ slots[j].ern \notin Overruns =>
         slots[j].state \notin {"StopThenRestart", "AwaitingBackoff", "AwaitingRestart"}]_vars

\* A group goes down as a whole and comes back in start order.
GroupsComeBackInOrder == WholeGroupDownBeforeRestart /\ RestartsFollowStartOrder

\* A child the caller released is the caller's: nothing stops it when its former
\* supervisor stops.
ReleasedIsLeftRunning ==
    releaser.at = "done" /\ ~releaser.stopping /\ releaser.got # NoHandle
        => "Cascade" \notin inc[releaser.got].signals

-------------------------------------------------------------------------------
\* A supervisor that is told to stop, or gives up under StopSupervisor, does stop:
\* no start task, backoff or slow start holds its loop or its shutdown.
StopIsHonoured == (cancelled \/ InInbox(StopMsg)) ~> phase = "stopped"

\* A child somebody waits for comes up, is given up on, or is answered by the
\* shutdown: is_unfinished_start, the queue, the tasks and the timers together.
OwedStartsSettle ==
    \A i \in Index : slots[i].state \in Owed ~> slots[i].state \notin Owed

\* A supervisor gets on: with the starts it owes, and with its own stop.
SupervisorProgresses == StopIsHonoured /\ OwedStartsSettle

\* supervise_with and unsupervise return, whether or not the supervisor lives to
\* answer: "exactly one of them always happens".
CallersReturn ==
    /\ \A h \in Handle : inc[h].holder = "hirer" ~> inc[h].holder \in {"nobody", "owner"}
    /\ releaser.at = "waiting" ~> releaser.at = "done"

===============================================================================
