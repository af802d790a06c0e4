----------------------------- MODULE ScheduledSend ------------------------------
(***************************************************************************)
(* One scheduled send: a timer task that waits for its deadline, for its   *)
(* cancellation and for the target's inbox to close, whichever the select  *)
(* takes, and delivers a copy of the message at each deadline.             *)
(*                                                                         *)
(* The target's inbox is a bounded queue other senders use too; only how   *)
(* full it is matters here.  Time is a number of ticks from the moment the *)
(* schedule is armed.                                                      *)
(***************************************************************************)
EXTENDS Integers, Sequences

CONSTANTS
    Interval,    \* the gap between ticks; the delay of a one-shot send
    Capacity,    \* of the target's inbox
    Horizon      \* bound: the last instant of a behaviour

ASSUME ScheduleConstants ==
    /\ Interval \in Nat \ {0}
    /\ Capacity \in Nat \ {0}
    /\ Horizon \in Nat

VARIABLES
    plan,          \* "Once", "FixedRate" or "FixedDelay", for good
    clock,
    open,          \* the inbox accepts messages
    queued,        \* how many it holds
    cancelled,     \* the schedule's token
    cancelledAhead,\* history: it was cancelled before the armed deadline
    task,          \* where the timer task is
    progress,      \* the watch channel: deliveries, due, settled
    sent           \* history: the instants messages reached the inbox

sendVars == <<plan, clock, open, queued, cancelled, cancelledAhead, task, progress, sent>>
target == <<open, queued>>

None == "none"
Outcomes == {"Delivered", "Cancelled", "Abandoned", "Undeliverable"}
NoDue == -1

-------------------------------------------------------------------------------
(* Plan.                                                                    *)

\* The first point of the grid anchored at the arming that is after `at`.
NextFixedRate(at) == (at \div Interval + 1) * Interval

FirstDeadline == IF plan = "Once" THEN Interval ELSE NextFixedRate(0)

\* Slip: both cadences go on from the deadline that was serviced.
DeadlineAfterDue(at) == IF plan = "Once" THEN NoDue ELSE progress.due + Interval

DeadlineAfterTick(at) ==
    CASE plan = "Once"       -> NoDue
      [] plan = "FixedRate"  -> NextFixedRate(at)
      [] plan = "FixedDelay" -> at + Interval

-------------------------------------------------------------------------------
(* The timer task.                                                          *)

Settle(outcome) ==
    /\ progress' = [progress EXCEPT !.due = NoDue, !.settled = outcome]
    /\ task' = "done"

SettleCancelled ==
    /\ task = "waiting"
    /\ cancelled
    /\ Settle("Cancelled")
    /\ UNCHANGED <<plan, clock, target, cancelled, cancelledAhead, sent>>

SettleAbandoned ==
    /\ task = "waiting"
    /\ ~open
    /\ Settle("Abandoned")
    /\ UNCHANGED <<plan, clock, target, cancelled, cancelledAhead, sent>>

\* The select has no bias: a due timer may win over a cancellation or a
\* closure that is just as ready.  Once it has won, nothing but the inbox can
\* end the delivery.
TimerWins ==
    /\ task = "waiting"
    /\ clock >= progress.due
    /\ task' = "delivering"
    /\ UNCHANGED <<plan, clock, target, cancelled, cancelledAhead, progress, sent>>

\* Slip: the message is pushed without waiting for a permit.
DeliverAnyway ==
    /\ task = "delivering"
    /\ open
    /\ queued' = queued + 1
    /\ sent' = Append(sent, clock)
    /\ task' = "sent"
    /\ UNCHANGED <<plan, clock, open, cancelled, cancelledAhead, progress>>

Deliver ==
    /\ task = "delivering"
    /\ open
    /\ queued < Capacity
    /\ queued' = queued + 1
    /\ sent' = Append(sent, clock)
    /\ task' = "sent"
    /\ UNCHANGED <<plan, clock, open, cancelled, cancelledAhead, progress>>

\* Slip: a delivery that waits for room is not woken by the inbox closing.
DeliveryFailsWithRoom ==
    /\ task = "delivering"
    /\ ~open
    /\ queued < Capacity
    /\ Settle("Undeliverable")
    /\ UNCHANGED <<plan, clock, target, cancelled, cancelledAhead, sent>>

DeliveryFails ==
    /\ task = "delivering"
    /\ ~open
    /\ Settle("Undeliverable")
    /\ UNCHANGED <<plan, clock, target, cancelled, cancelledAhead, sent>>

\* Slip: the delivery is only counted when another one follows.
PublishUncounted ==
    /\ task = "sent"
    /\ LET next == DeadlineAfterTick(clock) IN
         /\ progress' =
              [deliveries |-> progress.deliveries + (IF next = NoDue THEN 0 ELSE 1),
               due        |-> next,
               settled    |-> IF next = NoDue THEN "Delivered" ELSE None]
         /\ task' = IF next = NoDue THEN "done" ELSE "waiting"
    /\ UNCHANGED <<plan, clock, target, cancelled, cancelledAhead, sent>>

\* The count, the next deadline and the outcome change in one update.
Publish ==
    /\ task = "sent"
    /\ LET next == DeadlineAfterTick(clock) IN
         /\ progress' =
              [deliveries |-> progress.deliveries + 1,
               due        |-> next,
               settled    |-> IF next = NoDue THEN "Delivered" ELSE None]
         /\ task' = IF next = NoDue THEN "done" ELSE "waiting"
    /\ UNCHANGED <<plan, clock, target, cancelled, cancelledAhead, sent>>

-------------------------------------------------------------------------------
(* The caller, the target actor and the clock.                              *)

\* Slip: a cancellation settles the schedule on the spot.
CancelSettling ==
    /\ ~cancelled
    /\ cancelled' = TRUE
    /\ cancelledAhead' = (task = "waiting" /\ clock < progress.due)
    /\ progress' = [progress EXCEPT !.settled = "Cancelled"]
    /\ UNCHANGED <<plan, clock, target, task, sent>>

Cancel ==
    /\ ~cancelled
    /\ cancelled' = TRUE
    /\ cancelledAhead' = (task = "waiting" /\ clock < progress.due)
    /\ UNCHANGED <<plan, clock, target, task, progress, sent>>

OtherSend ==
    /\ open
    /\ queued < Capacity
    /\ queued' = queued + 1
    /\ UNCHANGED <<plan, clock, open, cancelled, cancelledAhead, task, progress, sent>>

Receive ==
    /\ queued > 0
    /\ queued' = queued - 1
    /\ UNCHANGED <<plan, clock, open, cancelled, cancelledAhead, task, progress, sent>>

CloseInbox ==
    /\ open
    /\ open' = FALSE
    /\ UNCHANGED <<plan, clock, queued, cancelled, cancelledAhead, task, progress, sent>>

ClockTicks ==
    /\ clock < Horizon
    /\ clock' = clock + 1
    /\ UNCHANGED <<plan, target, cancelled, cancelledAhead, task, progress, sent>>

SendInit ==
    /\ plan \in {"Once", "FixedRate", "FixedDelay"}
    /\ clock = 0
    /\ open = TRUE
    /\ queued = 0
    /\ cancelled = FALSE
    /\ cancelledAhead = FALSE
    /\ task = "waiting"
    /\ progress = [deliveries |-> 0, due |-> FirstDeadline, settled |-> None]
    /\ sent = <<>>

SendNext ==
    \/ SettleCancelled \/ SettleAbandoned \/ TimerWins
    \/ Deliver \/ DeliveryFails \/ Publish
    \/ Cancel \/ OtherSend \/ Receive \/ CloseInbox \/ ClockTicks

SendSpec == SendInit /\ [][SendNext]_sendVars

\* The runtime polls a task that is ready, the target's loop receives while its
\* inbox is open, the clock moves.  The select starts at a random branch and the
\* inbox grants its permits in order, so neither a branch nor the delivery is
\* passed over forever.
SendFairness ==
    /\ WF_sendVars(Publish) /\ WF_sendVars(DeliveryFails) /\ WF_sendVars(TimerWins)
    /\ SF_sendVars(SettleCancelled) /\ SF_sendVars(SettleAbandoned) /\ SF_sendVars(Deliver)
    /\ WF_sendVars(open /\ Receive) /\ WF_sendVars(ClockTicks)

SendFairSpec == SendSpec /\ SendFairness

-------------------------------------------------------------------------------
(* Properties.                                                              *)

\* The types of a schedule's state; in particular the inbox never exceeds its
\* capacity, whoever sends.
SendTypeOK ==
    /\ plan \in {"Once", "FixedRate", "FixedDelay"}
    /\ clock \in 0..Horizon
    /\ open \in BOOLEAN
    /\ queued \in 0..Capacity
    /\ cancelled \in BOOLEAN
    /\ cancelledAhead \in BOOLEAN
    /\ task \in {"waiting", "delivering", "sent", "done"}
    /\ progress \in [deliveries : Nat, due : Nat \cup {NoDue},
                     settled : Outcomes \cup {None}]
    /\ sent \in Seq(0..clock)

\* Observers are told the truth: the published count is behind the inbox only
\* while the task is between the send and the update, and a settled schedule
\* reports exactly what was sent, with `due` gone and the task over.
SnapshotIsConsistent ==
    /\ Len(sent) = progress.deliveries + (IF task = "sent" THEN 1 ELSE 0)
    /\ (progress.settled # None) <=> task = "done"
    /\ (progress.due = NoDue) <=> task = "done"
    /\ progress.settled = "Delivered" <=> plan = "Once" /\ progress.deliveries = 1

\* The types, and an observer's view, of a schedule.
ScheduleIsConsistent == SendTypeOK /\ SnapshotIsConsistent

\* However late the target makes room, missed ticks are never made up for in a
\* burst: a fixed-rate schedule sends at most once per interval of its grid, a
\* fixed-delay one never twice within an interval.
NoCatchUpBurst ==
    \A i \in 1..Len(sent) - 1 :
        /\ plan # "Once"
        /\ plan = "FixedRate" => sent[i] \div Interval < sent[i + 1] \div Interval
        /\ plan = "FixedDelay" => sent[i + 1] - sent[i] >= Interval

\* A settled schedule is over: the outcome stands, whatever is cancelled or
\* closed afterwards, and nothing more is sent.
SettledIsFinal ==
    [][progress.settled # None => UNCHANGED <<progress, sent>>]_sendVars

\* `outcome` always resolves: a schedule that was cancelled, whose target went
\* away, or that sends only once, settles.
OutcomeResolves ==
    (cancelled \/ ~open \/ plan = "Once") ~> (progress.settled # None)

\* What the test of cancel and its doc promise whoever cancels before the armed
\* deadline: nothing more is sent.
CancelledInTimeSendsNothing == [][cancelledAhead => sent' = sent]_sendVars
===============================================================================
