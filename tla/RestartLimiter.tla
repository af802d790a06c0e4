---------------------------- MODULE RestartLimiter -----------------------------
(***************************************************************************)
(* One supervised child's restart allowance: the sliding window of restart *)
(* timestamps, the exponential backoff, and the steps of `evaluate` that   *)
(* consult them.  SupervisionRegistry only counts the timestamps a limiter *)
(* holds; here they are instants and time passes.                          *)
(*                                                                         *)
(* A granted restart takes any time: the backoff, the stops, the start of  *)
(* the replacement.  (A sibling's group restart may also bring the child   *)
(* back before its own backoff is over.)                                   *)
(***************************************************************************)
EXTENDS Integers, Sequences

CONSTANTS
    Enabled,         \* RestartLimiterConfig::enabled
    MaxRestarts,     \* ... max_restarts
    Window,          \* ... window_secs
    InitialBackoff,  \* ... initial_backoff_ms
    MaxBackoff,      \* ... max_backoff_ms
    Multiplier,      \* ... backoff_multiplier
    FloatMax,        \* the greatest power of Multiplier an f64 still holds
    MaxTime,         \* bound: the last instant of a behaviour
    MaxGrants        \* bound: restarts a behaviour grants

ASSUME LimiterConstants ==
    /\ Enabled \in BOOLEAN
    /\ MaxRestarts \in Nat
    /\ Window \in Nat
    /\ InitialBackoff \in Nat
    /\ MaxBackoff \in Nat
    /\ Multiplier \in Nat
    /\ FloatMax \in Nat
    /\ MaxTime \in Nat
    /\ MaxGrants \in Nat

VARIABLES
    now,
    stamps,       \* restart_timestamps
    consecutive,  \* consecutive_restarts
    lastRestart,  \* when the child last came back, or Never
    child,        \* "running", "restarting" or "escalated"
    granted       \* history: the instant and the backoff of every restart

vars == <<now, stamps, consecutive, lastRestart, child, granted>>

Never == -1

-------------------------------------------------------------------------------

\* powi: the powers of the multiplier, as a function so that they can be proved
\* about.
Power[k \in Nat] == IF k = 0 THEN 1 ELSE Multiplier * Power[k - 1]

\* Slip: the exponent wraps where it should saturate.
BackoffWrapped(k) == InitialBackoff * Power[k % 2]

\* The delay before a restart that `k` others came before.  A power past
\* FloatMax is infinite, and zero times infinity a NaN, which `min` discards:
\* both give the cap.
Backoff(k) ==
    IF Power[k] > FloatMax \/ InitialBackoff * Power[k] > MaxBackoff
    THEN MaxBackoff
    ELSE InitialBackoff * Power[k]

\* Slip: a timestamp is kept one instant too long.
PrunesLate(k) ==
    IF Enabled
    THEN \A i \in 1..Len(stamps) : i > k <=> now - stamps[i] <= Window
    ELSE k = 0

\* retain(now - ts < window), which drops the first k timestamps since they are
\* pushed in order.  A disabled limiter returns before it prunes.
Prunes(k) ==
    IF Enabled
    THEN \A i \in 1..Len(stamps) : i > k <=> now - stamps[i] < Window
    ELSE k = 0

Kept(k) == SubSeq(stamps, k + 1, Len(stamps))

\* Slip: the limit itself is still allowed.
WithinLimitInclusive(kept) == Enabled => Len(kept) <= MaxRestarts

\* can_restart, after pruning.
WithinLimit(kept) == Enabled => Len(kept) < MaxRestarts

\* Slip: the window of another, shorter configuration.
RecoveredByAnotherWindow == lastRestart # Never /\ now - lastRestart >= 1

\* evaluate: a child that has been back for longer than the window recovered.
Recovered == lastRestart # Never /\ now - lastRestart > Window

\* How many consecutive restarts come before the one being decided.
Streak == IF Recovered THEN 0 ELSE consecutive

-------------------------------------------------------------------------------
(* The running child terminates and its policy calls for a restart.         *)

\* Slip: the restart is dated when its backoff will be over.
RecordWhenDue(kept) ==
    /\ Len(granted) < MaxGrants
    /\ stamps' = Append(kept, now + Backoff(Streak))
    /\ consecutive' = Streak + 1
    /\ granted' = Append(granted, [at |-> now, backoff |-> Backoff(Streak)])
    /\ child' = "restarting"

\* record_restart, whose charge stands whatever becomes of the restart.
Record(kept) ==
    /\ Len(granted) < MaxGrants
    /\ stamps' = Append(kept, now)
    /\ consecutive' = Streak + 1
    /\ granted' = Append(granted, [at |-> now, backoff |-> Backoff(Streak)])
    /\ child' = "restarting"

GrantRestart ==
    /\ child = "running"
    /\ \E k \in 0..Len(stamps) :
         /\ Prunes(k)
         /\ WithinLimit(Kept(k))
         /\ Record(Kept(k))
    /\ UNCHANGED <<now, lastRestart>>

Escalate ==
    /\ child = "running"
    /\ \E k \in 0..Len(stamps) :
         /\ Prunes(k)
         /\ ~WithinLimit(Kept(k))
         /\ stamps' = Kept(k)
    /\ consecutive' = Streak
    /\ child' = "escalated"
    /\ UNCHANGED <<now, lastRestart, granted>>

\* complete_start marks the moment a replacement is back.
CompleteStart ==
    /\ child = "restarting"
    /\ child' = "running"
    /\ lastRestart' = now
    /\ UNCHANGED <<now, stamps, consecutive, granted>>

\* A sibling's failure had this child rebuilt, which its limiter is not
\* charged for.
RebuiltWithGroup ==
    /\ child = "running"
    /\ lastRestart' = now
    /\ UNCHANGED <<now, stamps, consecutive, child, granted>>

Tick ==
    /\ now < MaxTime
    /\ now' = now + 1
    /\ UNCHANGED <<stamps, consecutive, lastRestart, child, granted>>

Init ==
    /\ now = 0
    /\ stamps = <<>>
    /\ consecutive = 0
    /\ lastRestart = Never
    /\ child = "running"
    /\ granted = <<>>

Next ==
    \/ GrantRestart
    \/ Escalate
    \/ CompleteStart
    \/ RebuiltWithGroup
    \/ Tick

Spec == Init /\ [][Next]_vars

-------------------------------------------------------------------------------
(* Properties.                                                              *)

Grant == [at : 0..now, backoff : {Backoff(k) : k \in 0..MaxGrants}]

\* Types; and an instant is never in the future (Instant::duration_since).
LimiterTypeOK ==
    /\ now \in Nat
    /\ stamps \in Seq(0..now)
    /\ consecutive \in Nat
    /\ lastRestart \in 0..now \cup {Never}
    /\ child \in {"running", "restarting", "escalated"}
    /\ granted \in Seq(Grant)

\* Whatever the crashes are timed like, an enabled limiter never grants more
\* than max_restarts restarts within any window_secs: of any two restarts that
\* are max_restarts apart, the later is at least a whole window later.
IntensityIsBounded ==
    Enabled =>
        \A i \in 1..Len(granted) : i + MaxRestarts <= Len(granted) =>
            granted[i + MaxRestarts].at - granted[i].at >= Window

\* A supervisor gives a child up only when the allowance really is spent: the
\* window that ends now holds max_restarts restarts.
GivesUpOnlyWhenSpent ==
    [][child' = "escalated" /\ child # "escalated" =>
        /\ MaxRestarts <= Len(granted)
        /\ \A i \in 1..Len(granted) :
             i + MaxRestarts > Len(granted) => now - granted[i].at < Window]_vars

\* The two counters a limiter keeps agree on what a recovery is: the streak
\* the backoff grows with never starts over while a restart it counted is
\* still in the window (what `RestartLimiter::window` exists for).
StreakCoversTheWindow == Enabled => Len(stamps) <= consecutive

\* The limiter's fields agree with each other and with the clock.
LimiterIsConsistent == LimiterTypeOK /\ StreakCoversTheWindow

\* A child that falls over again within the window of its last restart never
\* waits less than it did then.
BackoffCompounds ==
    \A i \in 1..Len(granted) - 1 :
        granted[i + 1].at - granted[i].at <= Window =>
            granted[i + 1].backoff >= granted[i].backoff

\* What the doc of restarts_in_window promises of the number `publish` sends
\* after a restart was charged: it is the number of restarts in the window.
CountIsOfTheWindow ==
    [][Len(granted') > Len(granted) =>
        \A i \in 1..Len(granted) :
            Len(stamps') > Len(granted) + 1 - i => now - granted[i].at < Window]_vars

\* What the doc of backoff_multiplier promises: each consecutive restart
\* multiplies the backoff by it, up to the cap.
EachBackoffIsAMultiple ==
    \A i \in 1..Len(granted) - 1 :
        LET grown == Multiplier * granted[i].backoff
        IN  granted[i + 1].backoff \in
                {Backoff(0), IF grown > MaxBackoff THEN MaxBackoff ELSE grown}
===============================================================================
