------------------------------ MODULE Supervision ------------------------------
(***************************************************************************)
(* One supervising actor, the incarnations of its children, and the tasks  *)
(* between them: the supervisor's message loop and shutdown, the start     *)
(* tasks that build children, the group tasks that stop siblings, wait out *)
(* a backoff and ask for the restarts, callers that supervise a child      *)
(* through a handle, and callers that let one go.                          *)
(*                                                                         *)
(* The supervisor's inbox is one FIFO that every other party appends to.   *)
(* Its capacity, the user's own messages and the order in which a child    *)
(* handles its mailbox are abstracted away.                                *)
(***************************************************************************)
EXTENDS SupervisionRegistry, FiniteSets

CONSTANTS
    Deferred,       \* names user handlers register with supervise_deferred
    Hired,          \* names callers register with ActorHandle::supervise_with
    Adopted,        \* names callers register with the legacy supervise()
    Reused,         \* names that may be registered again after a first child
    Released,       \* names a caller may unsupervise or release
    Escalation,     \* "NotifyParent" or "StopSupervisor"
    FaultReasons,   \* how a child may end on its own
    BuildOutcomes,  \* how building a child may end: "ok", "error", "panic"
    MayStop,        \* whether somebody stops the supervisor
    Overruns,       \* names whose starts and stops may outlast their deadlines
    MaxFaults       \* bound: children that end on their own

ASSUME SupervisionConstants ==
    /\ Deferred \subseteq Name /\ Hired \subseteq Name /\ Adopted \subseteq Name
    /\ Reused \subseteq Name /\ Released \subseteq Name
    /\ Escalation \in {"NotifyParent", "StopSupervisor"}
    /\ FaultReasons \subseteq {"Normal", "Panic", "InboxClosed"}
    /\ BuildOutcomes \subseteq {"ok", "error", "panic"}
    /\ MayStop \in BOOLEAN /\ Overruns \subseteq Name
    /\ MaxFaults \in Nat

VARIABLES
    inc,         \* the incarnations, by handle
    born,        \* how many handles are taken
    inbox,       \* the supervisor's inbox
    inboxOpen,   \* whether it still accepts messages
    cancelled,   \* the supervisor's own cancellation token
    phase,       \* where the supervisor's task is
    toStop,      \* the children its shutdown is stopping
    groups,      \* the group restarts in progress
    kids,        \* the children map shared by the supervisor's handles
    releaser,    \* a caller letting a child go
    faults       \* children that ended on their own so far

childVars == <<inc, born, faults>>
loopVars == <<inbox, inboxOpen, cancelled, phase, toStop>>
taskVars == <<groups, kids, releaser>>
vars == <<regVars, childVars, loopVars, taskVars>>

-------------------------------------------------------------------------------
(* Incarnations.  `idx` is the slot a start task builds for (NoSlot when a  *)
(* caller built the child) and `holder` who, outside the registry and the   *)
(* inbox, keeps the handle.                                                 *)

Lives == {"unborn", "building", "live", "dead"}
Holders == {"nobody", "starter", "failed", "stray",      \* tasks of the supervisor
            "hirer", "waiting", "accepted", "refused",   \* a caller of supervise_with
            "adopter",                                   \* a caller of supervise
            "owner"}                                     \* a child nobody supervises
StartTasks == {h \in Handle : inc[h].holder \in {"starter", "failed", "stray"}}

Unborn == [name |-> CHOOSE n \in Name : TRUE, idx |-> NoSlot, life |-> "unborn",
           signals |-> {}, holder |-> "nobody"]
\* The next handle; MaxHandles bounds how many there are.
Fresh == born + 1
Create(c) == born < MaxHandles /\ born' = Fresh /\ inc' = [inc EXCEPT ![Fresh] = c]

\* Sending a stop signal: a mailbox that closed loses it.
Signalled(c, signal) ==
    IF c.life = "live" THEN [c EXCEPT !.signals = @ \cup {signal}] ELSE c
Held(c, holder) == [c EXCEPT !.holder = holder]

Deliver(m) == inbox' = IF inboxOpen THEN Append(inbox, m) ELSE inbox

\* `inc` records which incarnation sent the notice; no handler reads it.
TerminatedMsg(h, reason) ==
    [type |-> "ChildTerminated", name |-> inc[h].name, reason |-> reason, inc |-> h]
StartedMsg(h) ==
    [type |-> "SupervisedChildStarted", name |-> inc[h].name, idx |-> inc[h].idx,
     inc |-> IF inc[h].holder = "failed" THEN NoHandle ELSE h]
RegisterMsg(h, restartable) ==
    [type |-> "RegisterSupervisedChild", name |-> inc[h].name, inc |-> h,
     restartable |-> restartable]
UnregisterMsg(n) == [type |-> "UnregisterSupervisedChild", name |-> n]
DueMsg(d) == [type |-> "RestartDue", name |-> d.name, idx |-> d.idx, gen |-> d.gen]
StopMsg == [type |-> "Terminate"]

InInbox(m) == \E k \in 1..Len(inbox) : inbox[k] = m

\* The end of a child's task: its cleanup, then the notice to its parent.
Die(h, reason) ==
    /\ inc' = [inc EXCEPT ![h].life = "dead"]
    /\ Deliver(TerminatedMsg(h, reason))

\* A child ends on its own: a panic, a stop it was sent by somebody else.
Fault(h) ==
    /\ inc[h].life = "live"
    /\ faults < MaxFaults
    /\ faults' = faults + 1
    /\ \E reason \in FaultReasons : Die(h, reason)
    /\ UNCHANGED <<regVars, born, inboxOpen, cancelled, phase, toStop, taskVars>>

\* Slip: the signal's name is reported as the reason.
ObeyNamingTheSignal(h) ==
    /\ inc[h].life = "live"
    /\ \E signal \in inc[h].signals : Die(h, signal)
    /\ UNCHANGED <<regVars, born, faults, inboxOpen, cancelled, phase, toStop, taskVars>>

\* A child handles a stop signal of the framework.  With both kinds in its
\* mailbox the one handled last names the reason.
Obey(h) ==
    /\ inc[h].life = "live"
    /\ \/ "Terminate" \in inc[h].signals /\ Die(h, "Normal")
       \/ "Cascade" \in inc[h].signals /\ Die(h, "ParentShutdown")
    /\ UNCHANGED <<regVars, born, faults, inboxOpen, cancelled, phase, toStop, taskVars>>

-------------------------------------------------------------------------------
(* Start tasks.                                                             *)

\* before_start runs and the child's task is spawned, or nothing comes of it.
\* A panic ends the start task itself: nobody reports.
Build(h) ==
    /\ inc[h].life = "building"
    /\ \/ /\ "ok" \in BuildOutcomes
          /\ inc' = [inc EXCEPT ![h].life = "live"]
       \/ /\ "error" \in BuildOutcomes
          /\ inc' = [inc EXCEPT ![h].life = "dead", ![h].holder = "failed"]
       \/ /\ "panic" \in BuildOutcomes
          /\ inc' = [inc EXCEPT ![h].life = "dead", ![h].holder = "nobody"]
    /\ UNCHANGED <<regVars, born, faults, loopVars, taskVars>>

\* Slip: an undeliverable child is dropped.
ReportOrDrop(h) ==
    /\ inc[h].holder \in {"starter", "failed"}
    /\ inc[h].life \in {"live", "dead"}
    /\ Deliver(StartedMsg(h))
    /\ inc' = [inc EXCEPT ![h] = Held(@, "nobody")]
    /\ UNCHANGED <<regVars, born, faults, inboxOpen, cancelled, phase, toStop, taskVars>>

\* The outcome is delivered, or the child is stopped rather than lost.
Report(h) ==
    /\ inc[h].holder \in {"starter", "failed"}
    /\ inc[h].life \in {"live", "dead"}
    /\ Deliver(StartedMsg(h))
    /\ inc' = [inc EXCEPT ![h] =
                 IF inboxOpen \/ @.holder = "failed"
                 THEN Held(@, "nobody")
                 ELSE Held(Signalled(@, "Terminate"), "stray")]
    /\ UNCHANGED <<regVars, born, faults, inboxOpen, cancelled, phase, toStop, taskVars>>

\* A stop returns: the child is down or the deadline has passed.
Over(h) == inc[h].life = "dead" \/ inc[h].name \in Overruns

\* stop_stray_child returns.
StrayStopped(h) ==
    /\ inc[h].holder = "stray"
    /\ Over(h)
    /\ inc' = [inc EXCEPT ![h] = Held(@, "nobody")]
    /\ UNCHANGED <<regVars, born, faults, loopVars, taskVars>>

-------------------------------------------------------------------------------
(* Group restarts: `stops` are the siblings still to be stopped, `dues` the *)
(* restarts still to be asked for.  One runs per accepted failure, so the   *)
(* incarnation that failed identifies it.                                   *)

NextStop(t) == CHOOSE s \in t.stops : \A r \in t.stops : s.idx >= r.idx
\* Slip: the last child first.
LastDue(t) == CHOOSE d \in t.dues : \A r \in t.dues : d.idx >= r.idx
NextDue(t) == CHOOSE d \in t.dues : \A r \in t.dues : d.idx <= r.idx
Advance(t, u) == groups' = (groups \ {t}) \cup {u}

AskSibling(t) ==
    /\ t.stops # {} /\ ~t.asked
    /\ Advance(t, [t EXCEPT !.asked = TRUE])
    /\ inc' = [inc EXCEPT ![NextStop(t).inc] = Signalled(@, "Terminate")]
    /\ UNCHANGED <<regVars, born, faults, loopVars, kids, releaser>>

\* Slip: the stop is sent and not waited for.
SiblingAsked(t) ==
    /\ t.stops # {} /\ t.asked
    /\ Advance(t, [t EXCEPT !.asked = FALSE, !.stops = @ \ {NextStop(t)}])
    /\ UNCHANGED <<regVars, childVars, loopVars, kids, releaser>>

\* stop() returned, or the deadline has passed.
SiblingDown(t) ==
    /\ t.stops # {} /\ t.asked
    /\ Over(NextStop(t).inc)
    /\ Advance(t, [t EXCEPT !.asked = FALSE, !.stops = @ \ {NextStop(t)}])
    /\ UNCHANGED <<regVars, childVars, loopVars, kids, releaser>>

\* The backoff has elapsed; the restarts are asked for one by one, in start
\* order, until one cannot be delivered.
SendDue(t) ==
    /\ t.stops = {}
    /\ Deliver(DueMsg(NextDue(t)))
    /\ LET left == t.dues \ {NextDue(t)} IN
         IF inboxOpen /\ left # {} THEN Advance(t, [t EXCEPT !.dues = left, !.due = TRUE])
                                   ELSE groups' = groups \ {t}
    /\ UNCHANGED <<regVars, childVars, inboxOpen, cancelled, phase, toStop, kids, releaser>>

\* The token fires before the backoff has elapsed.
AbandonBackoff(t) ==
    /\ t.stops = {} /\ ~t.due /\ cancelled
    /\ groups' = groups \ {t}
    /\ UNCHANGED <<regVars, childVars, loopVars, kids, releaser>>

-------------------------------------------------------------------------------
(* Callers.                                                                 *)

\* Registrations already on their way, so that MaxSlots bounds them all.
Coming == {h \in Handle : \/ inc[h].holder \in {"hirer", "adopter"}
                          \/ \E r \in BOOLEAN : InInbox(RegisterMsg(h, r))}
NeverBuilt(n) == \A h \in 1..born : inc[h].name # n
RoomForOne == used + Cardinality(Coming) < MaxSlots

\* supervise_with and supervise build and start the child first; supervise's
\* children have a freshly minted name.
Hire(n) ==
    /\ RoomForOne
    /\ \/ /\ n \in Hired /\ (n \in Reused \/ NeverBuilt(n))
          /\ Create([Unborn EXCEPT !.name = n, !.life = "live", !.holder = "hirer"])
          /\ UNCHANGED kids
       \/ /\ n \in Adopted /\ NeverBuilt(n)
          /\ Create([Unborn EXCEPT !.name = n, !.life = "live", !.holder = "adopter"])
          /\ kids' = [kids EXCEPT ![n] = Fresh]
    /\ UNCHANGED <<regVars, faults, loopVars, groups, releaser>>

\* Then they ask the supervisor to record it.  supervise does not wait: the
\* child is the supervisor's, or nobody's if the supervisor is gone.
AskToRegister(h) ==
    /\ inc[h].holder \in {"hirer", "adopter"}
    /\ Deliver(RegisterMsg(h, inc[h].holder = "hirer"))
    /\ inc' = [inc EXCEPT ![h] = Held(@, IF @.holder = "hirer" THEN "waiting"
                                          ELSE IF inboxOpen THEN "nobody" ELSE "owner")]
    /\ UNCHANGED <<regVars, born, faults, inboxOpen, cancelled, phase, toStop, taskVars>>

\* Slip: the caller waits for the outcome cell alone.
CallerAnsweredByCell(h) ==
    /\ inc[h].holder \in {"accepted", "refused"}
    /\ inc' = [inc EXCEPT ![h] =
                 Held(IF @.holder = "accepted" THEN @ ELSE Signalled(@, "Terminate"),
                      "nobody")]
    /\ UNCHANGED <<regVars, born, faults, loopVars, taskVars>>

\* Slip: a child whose registration was lost is left running.
CallerAnsweredLeaving(h) ==
    /\ \/ inc[h].holder \in {"accepted", "refused"}
       \/ inc[h].holder = "waiting" /\ ~InInbox(RegisterMsg(h, TRUE))
    /\ inc' = [inc EXCEPT ![h] =
                 Held(IF @.holder = "refused" THEN Signalled(@, "Terminate") ELSE @,
                      "nobody")]
    /\ UNCHANGED <<regVars, born, faults, loopVars, taskVars>>

\* supervise_with returns.  A refusal, or a registration that no longer exists
\* and was never answered, has the caller stop the child.
CallerAnswered(h) ==
    /\ \/ inc[h].holder \in {"accepted", "refused"}
       \/ inc[h].holder = "waiting" /\ ~InInbox(RegisterMsg(h, TRUE))
    /\ inc' = [inc EXCEPT ![h] =
                 Held(IF @.holder = "accepted" THEN @ ELSE Signalled(@, "Terminate"),
                      "nobody")]
    /\ UNCHANGED <<regVars, born, faults, loopVars, taskVars>>

\* unsupervise or release.
AskToRelease(n) ==
    /\ n \in Released
    /\ releaser.at = "idle"
    /\ \E stopping \in BOOLEAN :
         releaser' = [at |-> "waiting", name |-> n, stopping |-> stopping, got |-> NoHandle]
    /\ Deliver(UnregisterMsg(n))
    /\ UNCHANGED <<regVars, childVars, inboxOpen, cancelled, phase, toStop, groups, kids>>

\* The answer is in, or the request was dropped unanswered.
ReleaserReturns ==
    /\ \/ releaser.at = "answered"
       \/ releaser.at = "waiting" /\ ~InInbox(UnregisterMsg(releaser.name))
    /\ releaser' = [releaser EXCEPT !.at = "done"]
    /\ inc' = [h \in Handle |->
                 IF h # releaser.got THEN inc[h]
                 ELSE IF releaser.stopping THEN Signalled(inc[h], "Terminate")
                                           ELSE Held(inc[h], "owner")]
    /\ UNCHANGED <<regVars, born, faults, loopVars, groups, kids>>

AskSupervisorToStop ==
    /\ MayStop
    /\ inboxOpen
    /\ ~InInbox(StopMsg)
    /\ Deliver(StopMsg)
    /\ UNCHANGED <<regVars, childVars, inboxOpen, cancelled, phase, toStop, taskVars>>

-------------------------------------------------------------------------------
(* The message loop.  Pending starts are launched at the top of every turn, *)
(* then the loop waits for its token or its inbox, whichever it sees first. *)

LaunchDue == pending # <<>> /\ ~cancelled
Waiting == phase = "loop" /\ ~LaunchDue

\* A queued child is handed to a start task; a stale entry is skipped.
LaunchStart ==
    /\ phase = "loop" /\ LaunchDue
    /\ BeginStart
    /\ LET i == Head(pending) IN
         IF Launchable(i)
         THEN Create([Unborn EXCEPT !.name = slots[i].ern, !.idx = i,
                                    !.life = "building", !.holder = "starter"])
         ELSE UNCHANGED <<inc, born>>
    /\ UNCHANGED <<faults, loopVars, taskVars>>

\* A user handler records a child whose start it leaves to the loop.
SuperviseDeferred(n) ==
    /\ Waiting
    /\ n \in Deferred /\ (n \in Reused \/ NeverBuilt(n))
    /\ RoomForOne
    /\ RegisterPending(n)
    /\ UNCHANGED <<childVars, loopVars, taskVars>>

Receive(type) ==
    /\ Waiting
    /\ inbox # <<>>
    /\ Head(inbox).type = type
    /\ inbox' = Tail(inbox)
    /\ UNCHANGED <<inboxOpen, phase, toStop>>

ReceiveRegister ==
    /\ Receive("RegisterSupervisedChild")
    /\ LET m == Head(inbox)
           answer == IF Supervised(m.name) THEN "refused" ELSE "accepted"
       IN  /\ Register(m.name, m.inc, m.restartable) \/ RegisterDuplicate(m.name)
           /\ inc' = IF m.restartable THEN [inc EXCEPT ![m.inc] = Held(@, answer)] ELSE inc
    /\ UNCHANGED <<born, faults, cancelled, taskVars>>

\* A child that was built is recorded, disowned and stopped, or reported lost.
ReceiveStarted ==
    /\ Receive("SupervisedChildStarted")
    /\ LET m == Head(inbox) IN
         \/ /\ m.inc # NoHandle
            /\ CompleteStart(m.idx, m.name, m.inc)
            /\ UNCHANGED inc
         \/ /\ m.inc # NoHandle
            /\ ~StartAccepted(m.idx, m.name)
            /\ inc' = [inc EXCEPT ![m.inc] = Held(Signalled(@, "Terminate"), "stray")]
            /\ UNCHANGED regVars
         \/ /\ m.inc = NoHandle
            /\ \/ FailStart(m.idx)
               \/ slots[m.idx].state \notin Owed /\ UNCHANGED regVars
            /\ UNCHANGED inc
    /\ UNCHANGED <<born, faults, cancelled, taskVars>>

ReceiveUnregister ==
    /\ Receive("UnregisterSupervisedChild")
    /\ LET n == Head(inbox).name IN
         /\ Retire(n) \/ RetireUnknown(n)
         /\ releaser' = [releaser EXCEPT !.at = "answered",
                            !.got = IF Supervised(n) THEN slots[byErn[n]].handle
                                                     ELSE NoHandle]
    /\ UNCHANGED <<childVars, cancelled, groups, kids>>

ReceiveDue ==
    /\ Receive("RestartDue")
    /\ LET m == Head(inbox) IN
         \/ QueueRestart(m.idx, m.name, m.gen)
         \/ ~TimerMatches(m.idx, m.name, m.gen) /\ UNCHANGED regVars
    /\ UNCHANGED <<childVars, cancelled, taskVars>>

\* A notice that needs no restart.
NoticeSettled ==
    /\ Receive("ChildTerminated")
    /\ LET m == Head(inbox) IN
         \/ IgnoreNotice(m.name)
         \/ GroupStopLanded(m.name)
         \/ ForgetChild(m.name, m.reason)
    /\ UNCHANGED <<childVars, cancelled, taskVars>>

NoticeEscalates ==
    /\ Receive("ChildTerminated")
    /\ LET m == Head(inbox) IN Escalates(m.name, m.reason)
    /\ cancelled' = (cancelled \/ Escalation = "StopSupervisor")
    /\ UNCHANGED <<childVars, taskVars>>

GroupTask(h, plan) ==
    [id    |-> h,
     stops |-> {[idx |-> i, inc |-> slots[i].handle] : i \in plan.stop},
     asked |-> FALSE,
     dues  |-> {[idx |-> i, name |-> slots[i].ern, gen |-> slots[i].gen] : i \in plan.restart},
     due   |-> FALSE]

NoticeRestarts ==
    /\ Receive("ChildTerminated")
    /\ LET m == Head(inbox) IN
         /\ Restarts(m.name, m.reason)
         /\ groups' = groups \cup {GroupTask(m.inc, RestartPlanFor(m.name))}
    /\ UNCHANGED <<childVars, cancelled, kids, releaser>>

\* Slip: the inbox stays open, so the drain has no end.
ReceiveStopLeavingOpen ==
    /\ Waiting
    /\ inbox # <<>>
    /\ Head(inbox).type = "Terminate"
    /\ inbox' = Tail(inbox)
    /\ UNCHANGED <<regVars, childVars, inboxOpen, cancelled, phase, toStop, taskVars>>

\* The supervisor's own stop signal: it closes its inbox and keeps draining.
ReceiveStop ==
    /\ Waiting
    /\ inbox # <<>>
    /\ Head(inbox).type = "Terminate"
    /\ inbox' = Tail(inbox)
    /\ inboxOpen' = FALSE
    /\ UNCHANGED <<regVars, childVars, cancelled, phase, toStop, taskVars>>

-------------------------------------------------------------------------------
(* Shutdown.                                                                *)

\* The loop ends on its token, or on a closed inbox that has been drained.
\* Every unfinished start is settled and the inbox closed before any await.
LeaveLoop ==
    /\ Waiting
    /\ cancelled \/ (~inboxOpen /\ inbox = <<>>)
    /\ phase' = "awaitStarts"
    /\ SettleForShutdown
    /\ inboxOpen' = FALSE
    /\ UNCHANGED <<childVars, inbox, cancelled, toStop, taskVars>>

NamesOf(handles) == {inc[h].name : h \in handles}

\* Children that came up too late to be recorded; what else is queued is
\* dropped with its envelope.
StartedIn(k) == inbox[k].type = "SupervisedChildStarted" /\ inbox[k].inc # NoHandle
LateArrivals == {k \in 1..Len(inbox) : StartedIn(k)}
FirstOfItsName(k) ==
    \A e \in LateArrivals : e < k => inbox[e].name # inbox[k].name

\* Slip: late arrivals are dropped with the inbox.
ShutdownChildrenOnRecord ==
    LiveHandles \cup ({kids[n] : n \in Name \ NamesOf(LiveHandles)} \ {NoHandle})

\* One handle per name: the registry's first, then the children map's, then the
\* late arrivals'.
ShutdownChildren ==
    LET adopted == {kids[n] : n \in Name \ NamesOf(LiveHandles)} \ {NoHandle}
        seen == NamesOf(LiveHandles \cup adopted)
        late == {inbox[k].inc : k \in {j \in LateArrivals :
                    inbox[j].name \notin seen /\ FirstOfItsName(j)}}
    IN  LiveHandles \cup adopted \cup late

\* The start tasks are done, or the deadline has passed.
TerminateChildren ==
    /\ phase = "awaitStarts"
    /\ \A h \in StartTasks : inc[h].name \in Overruns
    /\ phase' = "terminating"
    /\ toStop' = ShutdownChildren
    /\ inc' = [h \in Handle |-> IF h \in ShutdownChildren THEN Signalled(inc[h], "Cascade")
                                                          ELSE inc[h]]
    /\ inbox' = <<>>
    /\ UNCHANGED <<regVars, born, faults, inboxOpen, cancelled, taskVars>>

Stopped ==
    /\ phase = "terminating"
    /\ \A h \in toStop : Over(h)
    /\ phase' = "stopped"
    /\ UNCHANGED <<regVars, childVars, inbox, inboxOpen, cancelled, toStop, taskVars>>

-------------------------------------------------------------------------------
Init ==
    /\ RegInit
    /\ inc = [h \in Handle |-> Unborn]
    /\ born = 0
    /\ faults = 0
    /\ inbox = <<>>
    /\ inboxOpen = TRUE
    /\ cancelled = FALSE
    /\ phase = "loop"
    /\ toStop = {}
    /\ groups = {}
    /\ kids = [n \in Name |-> NoHandle]
    /\ releaser = [at |-> "idle", name |-> CHOOSE n \in Name : TRUE, stopping |-> FALSE,
                   got |-> NoHandle]

Loop ==
    \/ LaunchStart
    \/ ReceiveRegister \/ ReceiveStarted \/ ReceiveUnregister \/ ReceiveDue
    \/ NoticeSettled \/ NoticeEscalates \/ NoticeRestarts
    \/ ReceiveStop
    \/ LeaveLoop \/ TerminateChildren \/ Stopped

Tasks ==
    \/ \E h \in Handle : Build(h) \/ Report(h) \/ StrayStopped(h) \/ CallerAnswered(h)
    \/ \E t \in groups : AskSibling(t) \/ SiblingDown(t) \/ SendDue(t) \/ AbandonBackoff(t)

Environment ==
    \/ \E n \in Name : SuperviseDeferred(n) \/ Hire(n) \/ AskToRelease(n)
    \/ \E h \in Handle : Fault(h) \/ AskToRegister(h)
    \/ ReleaserReturns
    \/ AskSupervisorToStop

Next == Loop \/ Tasks \/ Environment \/ \E h \in Handle : Obey(h)

Spec == Init /\ [][Next]_vars

\* Every task the runtime spawned is polled until it is done, a child handles a
\* stop signal it was sent, and a select whose token has fired sees it.  Nothing
\* makes a child fail, a caller call, or a backoff lose against the token.
Advances(h) == Build(h) \/ Report(h) \/ StrayStopped(h) \/ AskToRegister(h) \/ CallerAnswered(h)
GroupAdvances(h) ==
    \E t \in groups : t.id = h /\ (AskSibling(t) \/ SiblingDown(t) \/ SendDue(t))

Fairness ==
    /\ WF_vars(Loop) /\ WF_vars(LeaveLoop)
    /\ \A h \in Handle :
         WF_vars(Obey(h)) /\ WF_vars(Advances(h)) /\ WF_vars(GroupAdvances(h))
    /\ WF_vars(ReleaserReturns)

FairSpec == Spec /\ Fairness

===============================================================================
