------------------------------ MODULE TimedProofs ------------------------------
(***************************************************************************)
(* The two components that decide by the clock: the sliding window of      *)
(* RestartLimiter, and a scheduled send.  Neither knows of the other; their *)
(* proofs share a module, one part each, because both turn on how far      *)
(* apart two instants are that no single step sees together.               *)
(*                                                                         *)
(* The limiter keeps its promises for every configuration and every timing *)
(* of the crashes.  The properties speak of the history of restarts, the   *)
(* code only of the timestamps it kept.  The inductive invariant ties the  *)
(* two together: the timestamps are the end of the history, and the rest   *)
(* of the history is older than the window.                                *)
(*                                                                         *)
(* A scheduled send tells its observers the truth and never bursts, for    *)
(* every interval, capacity and interleaving of its task, its target and   *)
(* its caller.  NoCatchUpBurst relates the instants of two deliveries; a   *)
(* step only sees the deadline.  The inductive invariant carries the gap   *)
(* from one to the other: while the task waits, the deadline keeps its     *)
(* distance from the last delivery.                                        *)
(***************************************************************************)
EXTENDS RestartLimiter, ScheduledSend, WellFoundedInduction, TLAPS

-----------------------------------------------------------------------------
(* Part one: the restart limiter *)

\* How much of the history is no longer among the timestamps.
Dropped == Len(granted) - Len(stamps)

EndOfHistory ==
    /\ Dropped >= 0
    /\ \A i \in 1..Len(stamps) : stamps[i] = granted[Dropped + i].at

RestIsOld ==
    Enabled => \A i \in 1..Len(granted) :
                   i <= Dropped => now - granted[i].at >= Window

\* While the child runs, no restart was recorded after it last came back.
BackSinceEveryStamp ==
    child = "running" => \A i \in 1..Len(stamps) : stamps[i] <= lastRestart

Bounded == consecutive <= Len(granted) /\ Len(granted) <= MaxGrants

LimiterInv ==
    /\ LimiterTypeOK
    /\ EndOfHistory
    /\ RestIsOld
    /\ BackSinceEveryStamp
    /\ Bounded
    /\ IntensityIsBounded
    /\ StreakCoversTheWindow

-------------------------------------------------------------------------------

\* What pruning leaves is the timestamps from k + 1 on.
LEMMA KeptFacts ==
    ASSUME NEW S, stamps \in Seq(S), NEW k \in 0..Len(stamps)
    PROVE  /\ Kept(k) \in Seq(S)
           /\ Len(Kept(k)) = Len(stamps) - k
           /\ \A i \in 1..Len(Kept(k)) : Kept(k)[i] = stamps[k + i]
BY DEF Kept

\* A type may be widened.
LEMMA SeqMono ==
    ASSUME NEW S, NEW T, S \subseteq T, NEW s \in Seq(S)
    PROVE  s \in Seq(T)
OBVIOUS

\* Pruning in a reachable state leaves the end of the history, all of it in
\* the window, and drops only what is older.
LEMMA KeptIsTheWindow ==
    ASSUME LimiterInv, NEW k \in 0..Len(stamps), Prunes(k)
    PROVE  /\ Kept(k) \in Seq(0..now)
           /\ Len(Kept(k)) = Len(stamps) - k
           /\ Len(Kept(k)) \in Nat
           /\ Len(granted) - Len(Kept(k)) = Dropped + k
           /\ \A i \in 1..Len(Kept(k)) :
                /\ Kept(k)[i] = granted[Dropped + k + i].at
                /\ Kept(k)[i] = stamps[k + i]
                /\ Enabled => now - Kept(k)[i] < Window
           /\ Enabled => \A i \in 1..Len(granted) :
                           i <= Dropped + k => now - granted[i].at >= Window
<1> DEFINE kept == Kept(k)
<1>1. /\ stamps \in Seq(0..now) /\ now \in Nat /\ Len(stamps) \in Nat
      /\ granted \in Seq(Grant) /\ Len(granted) \in Nat
  BY DEF LimiterInv, LimiterTypeOK
<1>2. /\ kept \in Seq(0..now)
      /\ Len(kept) = Len(stamps) - k
      /\ \A i \in 1..Len(kept) : kept[i] = stamps[k + i]
  BY <1>1, KeptFacts
<1>3. ASSUME NEW i \in 1..Len(kept)
      PROVE  /\ kept[i] = granted[Dropped + k + i].at
             /\ Enabled => now - kept[i] < Window
  <2>1. k + i \in 1..Len(stamps) /\ k + i > k
    BY <1>1, <1>2
  <2>2. kept[i] = stamps[k + i]
    BY <1>2
  <2>3. stamps[k + i] = granted[Dropped + (k + i)].at
    BY <2>1 DEF LimiterInv, EndOfHistory
  <2>4. Dropped + (k + i) = Dropped + k + i
    BY <1>1, <1>2 DEF Dropped
  <2>5. Enabled => now - stamps[k + i] < Window
    BY <2>1 DEF Prunes
  <2> QED
    BY <2>2, <2>3, <2>4, <2>5
<1>4. ASSUME Enabled, NEW i \in 1..Len(granted), i <= Dropped + k
      PROVE  now - granted[i].at >= Window
  <2>1. CASE i <= Dropped
    BY <2>1, <1>4 DEF LimiterInv, RestIsOld
  <2>2. CASE i > Dropped
    <3> DEFINE j == i - Dropped
    <3>1. j \in 1..Len(stamps) /\ ~(j > k) /\ Dropped + j = i
      BY <1>1, <1>4, <2>2 DEF Dropped
    <3>2. stamps[j] = granted[i].at
      BY <3>1 DEF LimiterInv, EndOfHistory
    <3>3. ~(now - stamps[j] < Window)
      BY <3>1 DEF Prunes
    <3>4. stamps[j] \in 0..now
      BY <1>1, <3>1
    <3> QED
      BY <1>1, <3>2, <3>3, <3>4, LimiterConstants
  <2> QED
    BY <2>1, <2>2, <1>1 DEF Dropped
<1> QED
  BY <1>1, <1>2, <1>3, <1>4 DEF Dropped

\* Types that mention `now` survive as time passes.
LEMMA GrantTypeMono ==
    ASSUME NEW m \in Nat, NEW n \in Nat, m <= n, NEW B
    PROVE  [at : 0..m, backoff : B] \subseteq [at : 0..n, backoff : B]
OBVIOUS

\* Recording a restart after the timestamps `kept`, the end of the history.
LEMMA RecordKeepsTheInvariant ==
    ASSUME LimiterInv, child = "running", NEW kept \in Seq(0..now),
           UNCHANGED <<now, lastRestart>>, Record(kept),
           Len(granted) - Len(kept) \in Nat,
           \A i \in 1..Len(kept) :
               kept[i] = granted[(Len(granted) - Len(kept)) + i].at,
           Enabled => /\ Len(kept) < MaxRestarts
                      /\ \A i \in 1..Len(granted) :
                           i <= Len(granted) - Len(kept) =>
                               now - granted[i].at >= Window
                      /\ Len(kept) <= Streak
    PROVE  LimiterInv'
<1> DEFINE n == Len(granted)
           g == [at |-> now, backoff |-> Backoff(Streak)]
<1>1. /\ now \in Nat /\ stamps \in Seq(0..now) /\ consecutive \in Nat
      /\ lastRestart \in 0..now \cup {Never} /\ granted \in Seq(Grant)
      /\ n \in Nat /\ Len(kept) \in Nat /\ n - Len(kept) >= 0
      /\ consecutive <= n
  BY DEF LimiterInv, LimiterTypeOK, Bounded
<1>2. /\ now' = now /\ lastRestart' = lastRestart
      /\ stamps' = Append(kept, now) /\ consecutive' = Streak + 1
      /\ granted' = Append(granted, g) /\ child' = "restarting"
      /\ n < MaxGrants /\ MaxGrants \in Nat
  BY LimiterConstants DEF Record
<1>3. Streak \in Nat /\ Streak <= n /\ Streak \in 0..MaxGrants
  BY <1>1, <1>2 DEF Streak
<1>4. g \in Grant
  BY <1>1, <1>3 DEF Grant
<1>5. /\ Len(granted') = n + 1 /\ granted' \in Seq(Grant)
      /\ \A i \in 1..n : granted'[i] = granted[i]
      /\ granted'[n + 1] = g /\ g.at = now
  BY <1>1, <1>2, <1>4
<1>6. /\ Len(stamps') = Len(kept) + 1 /\ stamps' \in Seq(0..now)
      /\ \A i \in 1..Len(kept) : stamps'[i] = kept[i]
      /\ stamps'[Len(kept) + 1] = now
  BY <1>1, <1>2
<1>7. LimiterTypeOK'
  BY <1>1, <1>2, <1>3, <1>5, <1>6 DEF LimiterTypeOK, Grant
<1>8. Dropped' = n - Len(kept)
  BY <1>1, <1>5, <1>6 DEF Dropped
<1> HIDE DEF g
<1>9. EndOfHistory'
  <2>1. ASSUME NEW i \in 1..Len(stamps')
        PROVE  stamps'[i] = granted'[Dropped' + i].at
    <3>1. CASE i = Len(kept) + 1
      <4>1. Dropped' + i = n + 1
        BY <1>1, <1>8, <3>1
      <4> QED
        BY <4>1, <3>1, <1>5, <1>6
    <3>2. CASE i # Len(kept) + 1
      <4>1. i \in 1..Len(kept)
        BY <1>1, <1>6, <3>2
      <4>2. Dropped' + i \in 1..n
        BY <1>1, <1>8, <4>1
      <4>3. kept[i] = granted[(n - Len(kept)) + i].at
        BY <4>1
      <4> QED
        BY <4>1, <4>2, <4>3, <1>5, <1>6, <1>8
    <3> QED
      BY <3>1, <3>2
  <2> QED
    BY <2>1, <1>8 DEF EndOfHistory
<1>10. RestIsOld'
  <2>1. ASSUME Enabled, NEW i \in 1..(n + 1), i <= n - Len(kept)
        PROVE  now - granted'[i].at >= Window
    <3>1. i \in 1..n
      BY <1>1, <2>1
    <3>2. now - granted[i].at >= Window
      BY <2>1, <3>1
    <3> QED
      BY <3>1, <3>2, <1>5
  <2> QED
    BY <2>1, <1>2, <1>5, <1>8 DEF RestIsOld
<1>11. IntensityIsBounded'
  <2>1. SUFFICES ASSUME Enabled, NEW i \in 1..(n + 1), i + MaxRestarts <= n + 1
                 PROVE  granted'[i + MaxRestarts].at - granted'[i].at >= Window
    BY <1>5 DEF IntensityIsBounded
  <2>2. MaxRestarts \in Nat /\ Len(kept) < MaxRestarts
    BY <2>1, LimiterConstants
  <2>3. i \in 1..n
    BY <1>1, <2>1, <2>2
  <2>4. CASE i + MaxRestarts = n + 1
    <3>1. i <= n - Len(kept)
      BY <1>1, <2>2, <2>4
    <3>2. now - granted[i].at >= Window
      BY <2>1, <2>3, <3>1
    <3>3. granted'[i + MaxRestarts] = g
      BY <2>4, <1>5
    <3>4. granted'[i + MaxRestarts].at = now
      BY <3>3, <1>5
    <3>5. granted'[i] = granted[i]
      BY <2>3, <1>5
    <3> QED
      BY <3>2, <3>4, <3>5
  <2>5. CASE i + MaxRestarts # n + 1
    <3> HIDE DEF n
    <3>1. i + MaxRestarts \in 1..n
      <4>1. n \in Nat /\ i \in Nat /\ i >= 1 /\ MaxRestarts \in Nat
        BY <1>1, <2>2, <2>3
      <4> QED
        BY <4>1, <2>1, <2>5
    <3> USE DEF n
    <3>2. granted[i + MaxRestarts].at - granted[i].at >= Window
      BY <2>1, <2>3, <3>1 DEF LimiterInv, IntensityIsBounded
    <3> QED
      BY <2>3, <3>1, <3>2, <1>5
  <2> QED
    BY <2>4, <2>5
<1>12. StreakCoversTheWindow'
  BY <1>1, <1>2, <1>3, <1>6 DEF StreakCoversTheWindow
<1>13. BackSinceEveryStamp' /\ Bounded'
  BY <1>1, <1>2, <1>3, <1>5 DEF BackSinceEveryStamp, Bounded
<1> QED
  BY <1>7, <1>9, <1>10, <1>11, <1>12, <1>13 DEF LimiterInv

-------------------------------------------------------------------------------

\* A restart is granted.
LEMMA GrantKeepsTheInvariant ==
    ASSUME LimiterInv, GrantRestart
    PROVE  LimiterInv'
<1>1. PICK k \in 0..Len(stamps) :
        Prunes(k) /\ WithinLimit(Kept(k)) /\ Record(Kept(k))
  BY DEF GrantRestart
<1> DEFINE kept == Kept(k)
<1>2. /\ kept \in Seq(0..now)
      /\ Len(kept) = Len(stamps) - k
      /\ Len(kept) \in Nat
      /\ Len(granted) - Len(kept) = Dropped + k
      /\ \A i \in 1..Len(kept) : kept[i] = granted[Dropped + k + i].at
      /\ \A i \in 1..Len(kept) :
           kept[i] = stamps[k + i] /\ (Enabled => now - kept[i] < Window)
      /\ Enabled => \A i \in 1..Len(granted) :
                      i <= Dropped + k => now - granted[i].at >= Window
  BY <1>1, KeptIsTheWindow
<1>3. /\ now \in Nat /\ lastRestart \in 0..now \cup {Never} /\ consecutive \in Nat
      /\ stamps \in Seq(0..now) /\ Len(stamps) \in Nat
      /\ child = "running" /\ UNCHANGED <<now, lastRestart>>
      /\ Window \in Nat
  BY LimiterConstants DEF LimiterInv, LimiterTypeOK, GrantRestart
<1>4. Len(granted) - Len(kept) \in Nat
  <2>1. Dropped >= 0 /\ Dropped \in Int
    BY DEF LimiterInv, EndOfHistory, Dropped, LimiterTypeOK
  <2> QED
    BY <2>1, <1>2, <1>3
<1>5. Enabled => Len(kept) < MaxRestarts
  BY <1>1 DEF WithinLimit
<1>6. ASSUME Enabled PROVE Len(kept) <= Streak
  <2>1. CASE Recovered
    <3>1. SUFFICES ASSUME Len(kept) # 0 PROVE FALSE
      BY <1>2, <2>1 DEF Streak
    <3>2. 1 \in 1..Len(kept) /\ k + 1 \in 1..Len(stamps)
      BY <1>2, <1>3, <3>1
    <3>3. stamps[k + 1] <= lastRestart
      BY <1>3, <3>2 DEF LimiterInv, BackSinceEveryStamp
    <3>4. now - stamps[k + 1] < Window
      BY <1>6, <1>2, <3>2
    <3>5. stamps[k + 1] \in 0..now
      BY <1>3, <3>2
    <3>6. lastRestart \in 0..now /\ now - lastRestart > Window
      BY <2>1, <1>3 DEF Recovered
    <3> QED
      BY <1>3, <3>3, <3>4, <3>5, <3>6
  <2>2. CASE ~Recovered
    <3>1. Len(stamps) <= consecutive
      BY <1>6 DEF LimiterInv, StreakCoversTheWindow
    <3> QED
      BY <2>2, <3>1, <1>2, <1>3 DEF Streak
  <2> QED
    BY <2>1, <2>2
<1> HIDE DEF kept
<1>7. Record(kept)
  BY <1>1 DEF kept
<1>8. \A i \in 1..Len(kept) :
        kept[i] = granted[(Len(granted) - Len(kept)) + i].at
  BY <1>2
<1>9. Enabled => \A i \in 1..Len(granted) :
                   i <= Len(granted) - Len(kept) => now - granted[i].at >= Window
  BY <1>2, <1>3
<1> QED
  BY <1>2, <1>3, <1>4, <1>5, <1>6, <1>7, <1>8, <1>9, RecordKeepsTheInvariant

\* Giving the child up prunes, and perhaps restarts the streak.
LEMMA EscalateKeepsTheInvariant ==
    ASSUME LimiterInv, Escalate
    PROVE  LimiterInv'
<1>1. PICK k \in 0..Len(stamps) :
        Prunes(k) /\ ~WithinLimit(Kept(k)) /\ stamps' = Kept(k)
  BY DEF Escalate
<1>2. /\ stamps' \in Seq(0..now)
      /\ Len(stamps') = Len(stamps) - k
      /\ Len(stamps') \in Nat
      /\ Len(granted) - Len(stamps') = Dropped + k
      /\ \A i \in 1..Len(stamps') : stamps'[i] = granted[Dropped + k + i].at
      /\ \A i \in 1..Len(stamps') :
           stamps'[i] = stamps[k + i] /\ (Enabled => now - stamps'[i] < Window)
      /\ Enabled => \A i \in 1..Len(granted) :
                      i <= Dropped + k => now - granted[i].at >= Window
  BY <1>1, KeptIsTheWindow
<1>3. /\ now \in Nat /\ lastRestart \in 0..now \cup {Never} /\ consecutive \in Nat
      /\ stamps \in Seq(0..now) /\ Len(stamps) \in Nat
      /\ granted \in Seq(Grant) /\ Len(granted) \in Nat
      /\ Window \in Nat
  BY LimiterConstants DEF LimiterInv, LimiterTypeOK
<1>4. /\ child = "running" /\ Enabled /\ child' = "escalated"
      /\ consecutive' = Streak
      /\ now' = now /\ lastRestart' = lastRestart /\ granted' = granted
  BY <1>1 DEF Escalate, WithinLimit
<1>5. Streak \in Nat /\ Streak <= consecutive
  BY <1>3 DEF Streak
<1>6. Dropped' = Dropped + k /\ Dropped' >= 0
  <2>1. Dropped >= 0 /\ Dropped \in Int
    BY DEF LimiterInv, EndOfHistory, Dropped, LimiterTypeOK
  <2> QED
    BY <2>1, <1>2, <1>4 DEF Dropped
<1>7. LimiterTypeOK'
  BY <1>2, <1>3, <1>4, <1>5 DEF LimiterTypeOK, Grant
<1>8. EndOfHistory' /\ RestIsOld'
  BY <1>2, <1>4, <1>6 DEF EndOfHistory, RestIsOld
<1>9. BackSinceEveryStamp' /\ Bounded'
  BY <1>3, <1>4, <1>5 DEF BackSinceEveryStamp, Bounded, LimiterInv
<1>10. IntensityIsBounded'
  BY <1>4 DEF IntensityIsBounded, LimiterInv
<1>11. StreakCoversTheWindow'
  <2>1. CASE Recovered
    <3>1. SUFFICES ASSUME Len(stamps') # 0 PROVE FALSE
      BY <1>2, <1>4, <1>5, <2>1 DEF StreakCoversTheWindow
    <3>2. 1 \in 1..Len(stamps') /\ k + 1 \in 1..Len(stamps)
      BY <1>2, <1>3, <3>1
    <3>3. stamps[k + 1] <= lastRestart
      BY <1>4, <3>2 DEF LimiterInv, BackSinceEveryStamp
    <3>4. now - stamps[k + 1] < Window
      BY <1>2, <1>4, <3>2
    <3>5. stamps[k + 1] \in 0..now
      BY <1>3, <3>2
    <3>6. lastRestart \in 0..now /\ now - lastRestart > Window
      BY <2>1, <1>3 DEF Recovered
    <3> QED
      BY <1>3, <3>3, <3>4, <3>5, <3>6
  <2>2. CASE ~Recovered
    <3>1. Len(stamps) <= consecutive
      BY <1>4 DEF LimiterInv, StreakCoversTheWindow
    <3>2. consecutive' = consecutive
      BY <1>4, <2>2 DEF Streak
    <3> QED
      BY <3>1, <3>2, <1>2, <1>3 DEF StreakCoversTheWindow
  <2> QED
    BY <2>1, <2>2
<1> QED
  BY <1>7, <1>8, <1>9, <1>10, <1>11 DEF LimiterInv

\* Time passes, or the child comes back.
LEMMA OtherStepsKeepTheInvariant ==
    ASSUME LimiterInv, Tick \/ CompleteStart \/ RebuiltWithGroup
    PROVE  LimiterInv'
<1>1. /\ now \in Nat /\ lastRestart \in 0..now \cup {Never}
      /\ stamps \in Seq(0..now) /\ granted \in Seq(Grant)
      /\ Len(granted) \in Nat /\ Len(stamps) \in Nat /\ Window \in Nat
  BY LimiterConstants DEF LimiterInv, LimiterTypeOK
<1>2. /\ stamps' = stamps /\ granted' = granted /\ consecutive' = consecutive
      /\ now' \in Nat /\ now' >= now
      /\ \/ lastRestart' = lastRestart /\ child' = child
         \/ lastRestart' = now /\ now' = now /\ child' = "running"
  BY <1>1 DEF Tick, CompleteStart, RebuiltWithGroup
<1>3. stamps' \in Seq(0..now')
  BY <1>1, <1>2, SeqMono
<1>4. granted' \in Seq(Grant')
  <2>1. Grant \subseteq Grant'
    BY <1>1, <1>2 DEF Grant
  <2> QED
    BY <1>1, <1>2, <2>1, SeqMono
<1>5. LimiterTypeOK'
  BY <1>1, <1>2, <1>3, <1>4 DEF LimiterInv, LimiterTypeOK
<1>6. EndOfHistory'
  BY <1>2 DEF LimiterInv, EndOfHistory, Dropped
<1>7. RestIsOld'
  <2>1. ASSUME Enabled, NEW i \in 1..Len(granted), i <= Dropped
        PROVE  now' - granted[i].at >= Window
    <3>1. now - granted[i].at >= Window
      BY <2>1 DEF LimiterInv, RestIsOld
    <3>2. granted[i] \in Grant
      BY <1>1
    <3>3. granted[i].at \in 0..now
      BY <3>2 DEF Grant
    <3> QED
      BY <1>1, <1>2, <3>1, <3>3
  <2> QED
    BY <1>2, <2>1 DEF RestIsOld, Dropped
<1>8. BackSinceEveryStamp'
  <2>1. ASSUME NEW i \in 1..Len(stamps) PROVE stamps[i] \in 0..now
    BY <1>1
  <2> QED
    BY <1>1, <1>2, <2>1 DEF LimiterInv, BackSinceEveryStamp
<1>9. Bounded' /\ IntensityIsBounded' /\ StreakCoversTheWindow'
  BY <1>2 DEF LimiterInv, Bounded, IntensityIsBounded, StreakCoversTheWindow
<1> QED
  BY <1>5, <1>6, <1>7, <1>8, <1>9 DEF LimiterInv

LEMMA LimiterInvStays ==
    ASSUME LimiterInv, [Next]_vars
    PROVE  LimiterInv'
<1>1. CASE UNCHANGED vars
  BY <1>1 DEF vars, LimiterInv, LimiterTypeOK, Grant, EndOfHistory, Dropped,
     RestIsOld, BackSinceEveryStamp, Bounded, IntensityIsBounded,
     StreakCoversTheWindow
<1>2. CASE GrantRestart
  BY <1>2, GrantKeepsTheInvariant
<1>3. CASE Escalate
  BY <1>3, EscalateKeepsTheInvariant
<1>4. CASE Tick \/ CompleteStart \/ RebuiltWithGroup
  BY <1>4, OtherStepsKeepTheInvariant
<1> QED
  BY <1>1, <1>2, <1>3, <1>4 DEF Next

LEMMA LimiterInvAtFirst == Init => LimiterInv
<1> SUFFICES ASSUME Init PROVE LimiterInv
  OBVIOUS
<1>1. /\ now = 0 /\ stamps = <<>> /\ consecutive = 0 /\ lastRestart = Never
      /\ child = "running" /\ granted = <<>>
  BY DEF Init
<1>2. LimiterTypeOK
  BY <1>1 DEF LimiterTypeOK
<1>3. EndOfHistory /\ RestIsOld /\ BackSinceEveryStamp
  BY <1>1 DEF EndOfHistory, RestIsOld, BackSinceEveryStamp, Dropped
<1>4. Bounded /\ StreakCoversTheWindow
  BY <1>1, LimiterConstants DEF Bounded, StreakCoversTheWindow
<1>5. IntensityIsBounded
  BY <1>1 DEF IntensityIsBounded
<1> QED
  BY <1>2, <1>3, <1>4, <1>5 DEF LimiterInv

-------------------------------------------------------------------------------

\* The timestamps, the streak and the history of RestartLimiter keep their
\* types, and no instant it kept lies in the future.
THEOREM LimiterTypeCorrect == Spec => []LimiterTypeOK
<1>1. LimiterInv => LimiterTypeOK
  BY DEF LimiterInv
<1> QED
  BY <1>1, LimiterInvAtFirst, LimiterInvStays, PTL DEF Spec

\* can_restart and record_restart never let more than max_restarts restarts
\* through within any window, however the crashes are timed.
THEOREM IntensityHolds == Spec => []IntensityIsBounded
<1>1. LimiterInv => IntensityIsBounded
  BY DEF LimiterInv
<1> QED
  BY <1>1, LimiterInvAtFirst, LimiterInvStays, PTL DEF Spec

\* evaluate resets the streak only when the window holds nothing any more.
THEOREM StreakHolds == Spec => []StreakCoversTheWindow
<1>1. LimiterInv => StreakCoversTheWindow
  BY DEF LimiterInv
<1> QED
  BY <1>1, LimiterInvAtFirst, LimiterInvStays, PTL DEF Spec

\* The fields of a limiter agree with each other and with the clock.
THEOREM LimiterHolds == Spec => []LimiterIsConsistent
<1>1. LimiterTypeOK /\ StreakCoversTheWindow => LimiterIsConsistent
  BY DEF LimiterIsConsistent
<1> QED BY <1>1, LimiterTypeCorrect, StreakHolds, PTL

\* evaluate escalates only a child whose allowance is spent.
THEOREM EscalationIsEarned == Spec => GivesUpOnlyWhenSpent
<1> DEFINE Spent == /\ MaxRestarts <= Len(granted)
                    /\ \A i \in 1..Len(granted) :
                         i + MaxRestarts > Len(granted) => now - granted[i].at < Window
           Step == child' = "escalated" /\ child # "escalated" => Spent
<1>1. ASSUME LimiterInv, Escalate PROVE Spent
  <2>1. PICK k \in 0..Len(stamps) : Prunes(k) /\ ~WithinLimit(Kept(k))
    BY <1>1 DEF Escalate
  <2> DEFINE kept == Kept(k)
  <2>2. /\ Len(kept) = Len(stamps) - k /\ Len(kept) \in Nat
        /\ Len(granted) - Len(kept) = Dropped + k
        /\ \A i \in 1..Len(kept) :
             kept[i] = granted[Dropped + k + i].at /\ now - kept[i] < Window
    BY <1>1, <2>1, KeptIsTheWindow DEF WithinLimit
  <2>3. /\ Len(granted) \in Nat /\ Len(stamps) \in Nat /\ MaxRestarts \in Nat
        /\ Dropped \in Int /\ Dropped >= 0 /\ k \in Nat
    BY <1>1, LimiterConstants
       DEF LimiterInv, LimiterTypeOK, EndOfHistory, Dropped
  <2>4. MaxRestarts <= Len(kept)
    BY <2>1, <2>2, <2>3 DEF WithinLimit
  <2> HIDE DEF kept
  <2>5. ASSUME NEW i \in 1..Len(granted), i + MaxRestarts > Len(granted)
        PROVE  now - granted[i].at < Window
    <3> DEFINE j == i - (Dropped + k)
    <3>1. j \in 1..Len(kept) /\ Dropped + k + j = i
      BY <2>2, <2>3, <2>4, <2>5
    <3> QED
      BY <2>2, <3>1
  <2> QED
    BY <2>2, <2>3, <2>4, <2>5
<1>2. ASSUME LimiterInv, [Next]_vars PROVE [Step]_vars
  <2>1. CASE Escalate
    BY <1>1, <1>2, <2>1
  <2>2. CASE ~Escalate
    BY <1>2, <2>2 DEF Next, vars, GrantRestart, Record,
       CompleteStart, RebuiltWithGroup, Tick
  <2> QED
    BY <2>1, <2>2
<1>3. (Spec => [][Step]_vars) => (Spec => GivesUpOnlyWhenSpent)
  BY DEF GivesUpOnlyWhenSpent
<1> HIDE DEF Step
<1> QED
  BY <1>2, <1>3, LimiterInvAtFirst, LimiterInvStays, PTL DEF Spec
-------------------------------------------------------------------------------
(* The powers of the multiplier.  The library's induction theorems take an    *)
(* operator, which the provers cannot instantiate; its theorem on the least   *)
(* element of a well-founded set takes a set, which serves as well.           *)

\* A set of natural numbers that is not empty has a least element.
LEMMA LeastExists ==
    ASSUME NEW S, S \subseteq Nat, S # {}
    PROVE  \E x \in S : \A y \in S : x <= y
<1> DEFINE R == {ss \in Nat \X Nat : ss[1] < ss[2]}
<1>1. ASSUME NEW x \in S, NEW y \in S, ~(<<y, x>> \in R)
      PROVE  x <= y
  <2>1. x \in Nat /\ y \in Nat /\ ~(y < x)
    BY <1>1
  <2> QED BY ONLY <2>1
<1>2. IsWellFoundedOn(R, Nat)
  BY NatLessThanWellFounded DEF OpToRel
<1>0. S \subseteq Nat /\ S # {}
  OBVIOUS
<1> HIDE DEF R
<1>3. \E x \in S : \A y \in S : ~(<<y, x>> \in R)
  BY <1>0, <1>2, WFMin, Zenon
<1> QED BY <1>1, <1>3

\* So a set that 0 is in, and n + 1 with every n, holds every natural number.
LEMMA AllNumbers ==
    ASSUME NEW T, 0 \in T, \A n \in Nat : n \in T => n + 1 \in T
    PROVE  Nat \subseteq T
<1> SUFFICES ASSUME ~(Nat \subseteq T) PROVE FALSE
  OBVIOUS
<1>1. PICK x \in Nat \ T : \A y \in Nat \ T : x <= y
  BY LeastExists
<1>2. x # 0
  BY <1>1
<1>3. PICK w : w = x - 1
  OBVIOUS
<1>4. w \in Nat /\ w + 1 = x /\ ~(x <= w)
  BY <1>1, <1>2, <1>3
<1> QED BY <1>1, <1>4

\* The first n powers, by their recursion.
Powers(n, g) ==
    /\ g \in [Nat -> Nat] /\ g[0] = 1
    /\ \A k \in Nat : k < n => g[k + 1] = Multiplier * g[k]

LEMMA PowersExist == \A n \in Nat : \E g : Powers(n, g)
<1> DEFINE T == {n \in Nat : \E g : Powers(n, g)}
<1>1. 0 \in T
  <2>1. PICK g : g = [k \in Nat |-> 1]
    OBVIOUS
  <2> QED BY <2>1 DEF Powers
<1>2. ASSUME NEW n \in Nat, n \in T PROVE n + 1 \in T
  <2>1. PICK g : Powers(n, g)
    BY <1>2
  <2>2. PICK m : m = Multiplier * g[n]
    OBVIOUS
  <2>3. m \in Nat
    BY <2>1, <2>2, LimiterConstants DEF Powers
  <2>4. PICK h : h = [g EXCEPT ![n + 1] = m]
    OBVIOUS
  <2>5. h \in [Nat -> Nat] /\ h[n + 1] = m /\ \A k \in Nat : k # n + 1 => h[k] = g[k]
    BY <2>1, <2>3, <2>4 DEF Powers
  <2>6. h[0] = 1
    BY <2>1, <2>5 DEF Powers
  <2>7. ASSUME NEW k \in Nat, k < n + 1 PROVE h[k + 1] = Multiplier * h[k]
    <3>1. h[k] = g[k]
      BY <2>5, <2>7
    <3>2. CASE k = n
      BY <2>2, <2>5, <3>1, <3>2
    <3>3. CASE k # n
      <4>1. k < n /\ k + 1 \in Nat /\ k + 1 # n + 1
        BY <2>7, <3>3
      <4> QED BY <2>1, <2>5, <3>1, <4>1 DEF Powers
    <3> QED BY <3>2, <3>3
  <2> QED BY <2>5, <2>6, <2>7 DEF Powers
<1> HIDE DEF T
<1>3. Nat \subseteq T
  BY <1>1, <1>2, AllNumbers
<1> QED BY <1>3 DEF T

LEMMA PowersAgree ==
    ASSUME NEW n \in Nat, NEW g, NEW m \in Nat, NEW h, Powers(n, g), Powers(m, h),
           NEW k \in Nat, k <= n, k <= m
    PROVE  g[k] = h[k]
<1> DEFINE T == {i \in Nat : i <= n /\ i <= m => g[i] = h[i]}
<1>1. 0 \in T
  BY DEF Powers
<1>2. ASSUME NEW i \in Nat, i \in T PROVE i + 1 \in T
  BY <1>2 DEF Powers
<1> HIDE DEF T
<1>3. k \in T
  BY <1>1, <1>2, AllNumbers
<1> QED BY <1>3 DEF T

\* Power is the function its recursion says.
LEMMA PowerUnfolds ==
    Power = [k \in Nat |-> IF k = 0 THEN 1 ELSE Multiplier * Power[k - 1]]
<1> DEFINE G(n) == CHOOSE g : Powers(n, g)
           F == [n \in Nat |-> G(n)[n]]
<1>1. \A n \in Nat : Powers(n, G(n))
  BY PowersExist
<1> HIDE DEF G
<1>2. ASSUME NEW k \in Nat PROVE F[k] = IF k = 0 THEN 1 ELSE Multiplier * F[k - 1]
  <2>1. CASE k = 0
    BY <1>1, <2>1 DEF Powers
  <2>2. CASE k # 0
    <3>1. PICK i : i = k - 1
      OBVIOUS
    <3>2. i \in Nat /\ k = i + 1 /\ i < k
      BY <2>2, <3>1
    <3>3. PICK g, h : g = G(k) /\ h = G(i)
      OBVIOUS
    <3>4. Powers(k, g) /\ Powers(i, h)
      BY <1>1, <3>2, <3>3
    <3>5. g[i] = h[i]
      BY <3>2, <3>4, PowersAgree
    <3>6. g[k] = Multiplier * g[i]
      BY <3>2, <3>4 DEF Powers
    <3> QED BY <2>2, <3>1, <3>2, <3>3, <3>5, <3>6
  <2> QED BY <2>1, <2>2
<1>3. F = [k \in Nat |-> IF k = 0 THEN 1 ELSE Multiplier * F[k - 1]]
  BY <1>2
<1> HIDE DEF F
<1> QED BY <1>3 DEF Power

\* A multiplier of at least one makes no power less than the one before.
LEMMA PowerFacts ==
    ASSUME NEW k \in Nat
    PROVE  /\ Power[k] \in Nat /\ Power[k + 1] = Multiplier * Power[k]
           /\ Multiplier >= 1 => Power[k] <= Power[k + 1]
<1> DEFINE T == {i \in Nat : Power[i] \in Nat}
<1>1. Power[0] = 1 /\ \A i \in Nat : Power[i + 1] = Multiplier * Power[i]
  BY PowerUnfolds
<1>2. 0 \in T /\ \A i \in Nat : i \in T => i + 1 \in T
  BY <1>1, LimiterConstants
<1> HIDE DEF T
<1>3. k \in T
  BY <1>2, AllNumbers
<1>4. PICK p : p = Power[k]
  OBVIOUS
<1>5. p \in Nat
  BY <1>3, <1>4 DEF T
<1>6. Multiplier >= 1 => p <= Multiplier * p
  BY <1>5, LimiterConstants
<1> QED BY <1>1, <1>4, <1>5, <1>6

\* So no backoff of a streak is less than the one before it, the cap included.
LEMMA BackoffGrows ==
    ASSUME NEW k \in Nat, Multiplier >= 1
    PROVE  Backoff(k) <= Backoff(k + 1)
<1>1. PICK p, q : p = Power[k] /\ q = Power[k + 1]
  OBVIOUS
<1>2. p \in Nat /\ q \in Nat /\ p <= q
  BY <1>1, PowerFacts
<1>3. PICK x, y : x = InitialBackoff * p /\ y = InitialBackoff * q
  OBVIOUS
<1>4. x \in Nat /\ y \in Nat /\ x <= y
  BY <1>2, <1>3, LimiterConstants
<1>5. /\ Backoff(k) = IF p > FloatMax \/ x > MaxBackoff THEN MaxBackoff ELSE x
      /\ Backoff(k + 1) = IF q > FloatMax \/ y > MaxBackoff THEN MaxBackoff ELSE y
  BY <1>1, <1>3 DEF Backoff
<1>6. FloatMax \in Nat /\ MaxBackoff \in Nat
  BY LimiterConstants
<1> QED BY ONLY <1>2, <1>4, <1>5, <1>6

\* The last restart had the backoff of the streak it ended, until the next is
\* decided, and the child is back since.
StreakIsOfTheLast ==
    child # "escalated" =>
        \A i \in 1..Len(granted) : i = Len(granted) =>
            /\ consecutive >= 1 /\ granted[i].backoff = Backoff(consecutive - 1)
            /\ child = "running" => lastRestart >= granted[i].at

LEMMA CompoundingStep ==
    ASSUME LimiterInv, StreakIsOfTheLast, BackoffCompounds, [Next]_vars, Multiplier >= 1
    PROVE  StreakIsOfTheLast' /\ BackoffCompounds'
<1>1. /\ now \in Nat /\ granted \in Seq(Grant) /\ Len(granted) \in Nat
      /\ consecutive \in Nat /\ lastRestart \in 0..now \cup {Never}
      /\ \A i \in 1..Len(granted) : granted[i].at \in 0..now
  <2>1. now \in Nat /\ granted \in Seq(Grant) /\ consecutive \in Nat
        /\ lastRestart \in 0..now \cup {Never}
    BY DEF LimiterInv, LimiterTypeOK
  <2>2. \A i \in 1..Len(granted) : granted[i] \in Grant
    BY <2>1
  <2> QED BY <2>1, <2>2 DEF Grant
<1>2. CASE GrantRestart
  <2>1. PICK n, g : n = Len(granted) /\ g = [at |-> now, backoff |-> Backoff(Streak)]
    OBVIOUS
  <2>2. /\ child = "running" /\ child' = "restarting" /\ consecutive' = Streak + 1
        /\ granted' = Append(granted, g)
    BY <1>2, <2>1 DEF GrantRestart, Record
  <2>3. /\ n \in Nat /\ Len(granted') = n + 1 /\ granted'[n + 1] = g
        /\ \A i \in 1..n : granted'[i] = granted[i]
    BY <1>1, <2>1, <2>2
  <2>4. Streak \in Nat /\ g.at = now /\ g.backoff = Backoff(Streak)
    BY <1>1, <2>1 DEF Streak
  <2>5. StreakIsOfTheLast'
    <3>1. consecutive' >= 1 /\ consecutive' - 1 = Streak
      BY <2>2, <2>4
    <3>2. granted'[n + 1].backoff = Backoff(consecutive' - 1)
      BY <2>3, <2>4, <3>1
    <3>3. Len(granted') = n + 1
      BY <2>3
    <3> QED BY <2>2, <3>1, <3>2, <3>3 DEF StreakIsOfTheLast, Backoff
  <2>6. ASSUME n \in 1..n, now - granted[n].at <= Window
        PROVE  granted[n].backoff <= Backoff(Streak)
    <3>1. /\ consecutive >= 1 /\ granted[n].backoff = Backoff(consecutive - 1)
          /\ lastRestart >= granted[n].at
      BY <2>1, <2>2, <2>6 DEF StreakIsOfTheLast
    <3>2. ~Recovered
      <4>1. granted[n].at \in 0..now /\ Window \in Nat
        BY <1>1, <2>1, <2>6, LimiterConstants
      <4> QED BY <1>1, <2>6, <3>1, <4>1 DEF Recovered, Never
    <3>3. Streak = consecutive
      BY <3>2 DEF Streak
    <3>4. PICK k : k = consecutive - 1
      OBVIOUS
    <3>5. k \in Nat /\ k + 1 = consecutive
      BY <1>1, <3>1, <3>4
    <3> QED BY <3>1, <3>3, <3>4, <3>5, BackoffGrows
  <2>7. ASSUME NEW i \in 1..n, granted'[i + 1].at - granted'[i].at <= Window
        PROVE  granted'[i + 1].backoff >= granted'[i].backoff
    <3>1. CASE i = n
      <4>1. \A b \in Int, c \in Int : b <= c => c >= b
        OBVIOUS
      <4>2. granted[n].backoff <= g.backoff
        BY <2>3, <2>4, <2>6, <2>7, <3>1
      <4> QED BY <2>3, <3>1, <4>2
    <3>2. CASE i # n
      <4>1. i \in 1..Len(granted) - 1 /\ i + 1 \in 1..n /\ i \in 1..n
        BY <2>1, <2>3, <3>2
      <4> QED BY <2>3, <2>7, <4>1 DEF BackoffCompounds
    <3> QED BY <3>1, <3>2
  <2>8. 1..Len(granted') - 1 = 1..n
    BY <2>3
  <2> QED BY <2>5, <2>7, <2>8 DEF BackoffCompounds
<1>3. CASE Escalate
  BY <1>3 DEF Escalate, StreakIsOfTheLast, BackoffCompounds
<1>4. CASE CompleteStart \/ RebuiltWithGroup
  <2>1. /\ lastRestart' = now /\ child # "escalated"
        /\ granted' = granted /\ consecutive' = consecutive
    BY <1>4 DEF CompleteStart, RebuiltWithGroup
  <2>2. \A i \in 1..Len(granted) : now >= granted[i].at
    BY <1>1
  <2> QED BY <2>1, <2>2 DEF StreakIsOfTheLast, BackoffCompounds, Backoff
<1>5. CASE Tick \/ UNCHANGED vars
  BY <1>5 DEF Tick, vars, StreakIsOfTheLast, BackoffCompounds, Backoff
<1> QED BY <1>2, <1>3, <1>4, <1>5 DEF Next

\* A child that falls over again within the window of its last restart never waits
\* less than it did then, whatever the caps and however its crashes are timed.  It
\* takes a multiplier of at least one, which the configuration does not check.
THEOREM BackoffNeverShrinks ==
    ASSUME Multiplier >= 1
    PROVE  Spec => []BackoffCompounds
<1>1. Init => StreakIsOfTheLast /\ BackoffCompounds
  <2> SUFFICES ASSUME Init PROVE StreakIsOfTheLast /\ BackoffCompounds
    OBVIOUS
  <2>1. 1..Len(granted) = {} /\ 1..Len(granted) - 1 = {}
    BY DEF Init
  <2> QED BY <2>1 DEF StreakIsOfTheLast, BackoffCompounds
<1>2. LimiterInv /\ StreakIsOfTheLast /\ BackoffCompounds /\ [Next]_vars
        => StreakIsOfTheLast' /\ BackoffCompounds'
  BY CompoundingStep
<1> QED BY <1>1, <1>2, LimiterInvAtFirst, LimiterInvStays, PTL DEF Spec

-----------------------------------------------------------------------------
(* Part two: the scheduled send *)

LastSent == sent[Len(sent)]

\* The deadline, while there is one to wait for, is far enough from the last
\* delivery for the plan.
DueKeepsItsDistance ==
    task \in {"waiting", "delivering"} /\ Len(sent) > 0 =>
        /\ plan # "Once"
        /\ plan = "FixedRate" => progress.due >= (LastSent \div Interval + 1) * Interval
        /\ plan = "FixedDelay" => progress.due >= LastSent + Interval

\* A delivery under way has seen its deadline pass.
DeliveriesAreDue == task = "delivering" => clock >= progress.due

\* A one-shot schedule that has not settled has delivered nothing it counted.
OneShotCountsOnce == plan = "Once" /\ task # "done" => progress.deliveries = 0

SendInv ==
    /\ SendTypeOK
    /\ SnapshotIsConsistent
    /\ NoCatchUpBurst
    /\ DueKeepsItsDistance
    /\ DeliveriesAreDue
    /\ OneShotCountsOnce

-------------------------------------------------------------------------------
(* Points of the grid.                                                      *)

\* What \div means here.
LEMMA Quotient ==
    ASSUME NEW n \in Nat
    PROVE  /\ n \div Interval \in Nat
           /\ (n \div Interval) * Interval <= n
           /\ n < (n \div Interval + 1) * Interval
BY ScheduleConstants

\* Multiples of the interval are ordered like their factors.
LEMMA GridIsOrdered ==
    ASSUME NEW p \in Nat, NEW q \in Nat
    PROVE  p <= q => p * Interval <= q * Interval
BY ScheduleConstants

\* An instant at or after a point of the grid is in that interval or later.
LEMMA AfterThePoint ==
    ASSUME NEW n \in Nat, NEW q \in Nat, q * Interval <= n
    PROVE  q <= n \div Interval
<1>1. SUFFICES ASSUME n \div Interval + 1 <= q PROVE FALSE
  BY Quotient
<1>2. (n \div Interval + 1) * Interval <= q * Interval
  BY <1>1, Quotient, GridIsOrdered
<1> QED
  BY <1>2, Quotient, ScheduleConstants

\* What NextFixedRate returns: a deadline in the future, on the grid.
LEMMA NextPointIsLater ==
    ASSUME NEW n \in Nat
    PROVE  NextFixedRate(n) \in Nat /\ NextFixedRate(n) > n
<1>1. n \div Interval + 1 \in Nat
  BY Quotient
<1>2. (n \div Interval + 1) * Interval \in Nat
  BY <1>1, ScheduleConstants
<1> QED
  BY <1>2, Quotient DEF NextFixedRate

-------------------------------------------------------------------------------
(* The steps.                                                               *)

LEMMA SendInvAtFirst == SendInit => SendInv
<1> SUFFICES ASSUME SendInit PROVE SendInv
  OBVIOUS
<1>1. FirstDeadline \in Nat
  BY NextPointIsLater, ScheduleConstants DEF FirstDeadline
<1>2. SendTypeOK
  <2>1. progress \in [deliveries : Nat, due : Nat \cup {NoDue},
                      settled : Outcomes \cup {None}]
    BY <1>1 DEF SendInit
  <2>2. sent \in Seq(0..clock)
    BY DEF SendInit
  <2>3. clock \in 0..Horizon /\ queued \in 0..Capacity
    BY ScheduleConstants DEF SendInit
  <2>4. open \in BOOLEAN /\ cancelled \in BOOLEAN /\ cancelledAhead \in BOOLEAN
    BY DEF SendInit
  <2>5. plan \in {"Once", "FixedRate", "FixedDelay"} /\ task = "waiting"
    BY DEF SendInit
  <2> QED
    BY <2>1, <2>2, <2>3, <2>4, <2>5 DEF SendTypeOK
<1>3. SnapshotIsConsistent
  <2>1. FirstDeadline # NoDue /\ None # "Delivered"
    BY <1>1 DEF NoDue, None
  <2>2. /\ progress.deliveries = 0 /\ progress.due = FirstDeadline
        /\ progress.settled = None /\ Len(sent) = 0 /\ task = "waiting"
    BY DEF SendInit
  <2> QED
    BY <2>1, <2>2 DEF SnapshotIsConsistent
<1>4. NoCatchUpBurst /\ DueKeepsItsDistance
  BY DEF SendInit, NoCatchUpBurst, DueKeepsItsDistance
<1>5. DeliveriesAreDue /\ OneShotCountsOnce
  BY DEF SendInit, DeliveriesAreDue, OneShotCountsOnce
<1> QED
  BY <1>2, <1>3, <1>4, <1>5 DEF SendInv

\* Settling without a further delivery, from a wait or from a delivery that
\* the inbox refused.
LEMMA SettlingKeepsTheInvariant ==
    ASSUME SendInv, task \in {"waiting", "delivering"},
           NEW outcome \in Outcomes \ {"Delivered"}, Settle(outcome),
           UNCHANGED <<plan, clock, target, cancelled, cancelledAhead, sent>>
    PROVE  SendInv'
<1> USE DEF SendInv, Settle, target
<1>1. SendTypeOK'
  BY DEF SendTypeOK, NoDue, None
<1>2. SnapshotIsConsistent'
  <2>1. /\ progress'.deliveries = progress.deliveries
        /\ progress'.due = NoDue /\ progress'.settled = outcome
    BY DEF SendTypeOK
  <2>2. outcome # None /\ outcome # "Delivered"
    BY DEF Outcomes, None
  <2>3. ~(plan = "Once" /\ progress.deliveries = 1)
    BY DEF OneShotCountsOnce
  <2> QED
    BY <2>1, <2>2, <2>3 DEF SnapshotIsConsistent
<1>3. NoCatchUpBurst'
  BY DEF NoCatchUpBurst
<1>4. DueKeepsItsDistance' /\ DeliveriesAreDue' /\ OneShotCountsOnce'
  BY DEF DueKeepsItsDistance, DeliveriesAreDue, OneShotCountsOnce
<1> QED
  BY <1>1, <1>2, <1>3, <1>4

\* A step of the caller, of the target or of the clock leaves the task, what
\* it published and what it sent alone.
LEMMA OthersKeepTheInvariant ==
    ASSUME SendInv, SendTypeOK', clock' >= clock,
           UNCHANGED <<plan, task, progress, sent>>
    PROVE  SendInv'
<1> USE DEF SendInv
<1>1. SnapshotIsConsistent' /\ NoCatchUpBurst'
  BY DEF SnapshotIsConsistent, NoCatchUpBurst
<1>2. DueKeepsItsDistance' /\ OneShotCountsOnce'
  BY DEF DueKeepsItsDistance, OneShotCountsOnce, LastSent
<1>3. DeliveriesAreDue'
  <2>1. ASSUME task = "delivering" PROVE progress.due \in Int
    BY <2>1 DEF SendTypeOK, NoDue
  <2> QED
    BY <2>1 DEF DeliveriesAreDue, SendTypeOK
<1> QED
  BY <1>1, <1>2, <1>3

\* A message reaches the inbox: its instant has the distance from the one
\* before that the deadline had.
LEMMA DeliverKeepsTheInvariant ==
    ASSUME SendInv, Deliver
    PROVE  SendInv'
<1> USE DEF SendInv, Deliver
<1> DEFINE n == Len(sent)
<1>1. /\ n \in Nat /\ sent \in Seq(0..clock) /\ clock \in Nat
      /\ sent' = Append(sent, clock) /\ clock' = clock /\ clock \in 0..clock
      /\ plan' = plan /\ progress' = progress /\ task = "delivering" /\ task' = "sent"
  BY DEF SendTypeOK
<1>2. /\ Len(sent') = n + 1 /\ sent'[n + 1] = clock
      /\ \A i \in 1..n : sent'[i] = sent[i] /\ sent[i] \in 0..clock
  BY <1>1
<1>3. progress.due \in Nat /\ progress.due <= clock
  BY <1>1 DEF SendTypeOK, SnapshotIsConsistent, DeliveriesAreDue
<1>4. SendTypeOK'
  <2>1. sent' \in Seq(0..clock)
    BY <1>1
  <2>2. queued' \in 0..Capacity
    BY ScheduleConstants DEF SendTypeOK
  <2> QED
    BY <1>1, <2>1, <2>2 DEF SendTypeOK
<1>5. SnapshotIsConsistent'
  BY <1>1, <1>2 DEF SnapshotIsConsistent, SendTypeOK
<1>6. NoCatchUpBurst'
  <2>1. SUFFICES ASSUME NEW i \in 1..n
                 PROVE  /\ plan # "Once"
                        /\ plan = "FixedRate" =>
                             sent'[i] \div Interval < sent'[i + 1] \div Interval
                        /\ plan = "FixedDelay" => sent'[i + 1] - sent'[i] >= Interval
    BY <1>1, <1>2 DEF NoCatchUpBurst
  <2>2. CASE i < n
    BY <1>1, <1>2, <2>2 DEF NoCatchUpBurst
  <2>3. CASE i = n
    <3>1. sent'[i] = LastSent /\ sent'[i + 1] = clock /\ LastSent \in Nat
      BY <1>1, <1>2, <2>3 DEF LastSent
    <3>2. /\ plan # "Once"
          /\ plan = "FixedDelay" => progress.due >= LastSent + Interval
          /\ plan = "FixedRate" =>
               progress.due >= (LastSent \div Interval + 1) * Interval
      BY <1>1, <2>3 DEF DueKeepsItsDistance
    <3>3. ASSUME plan = "FixedRate"
          PROVE  LastSent \div Interval < clock \div Interval
      <4> DEFINE q == LastSent \div Interval + 1
      <4>1. /\ LastSent \div Interval \in Nat /\ clock \div Interval \in Nat
            /\ q \in Nat /\ q * Interval \in Nat
        BY <1>1, <3>1, Quotient, ScheduleConstants
      <4>2. q * Interval <= clock
        BY <1>1, <1>3, <3>2, <3>3, <4>1
      <4>3. q <= clock \div Interval
        BY <1>1, <4>1, <4>2, AfterThePoint
      <4> QED
        BY <4>1, <4>3
    <3>4. ASSUME plan = "FixedDelay" PROVE clock - LastSent >= Interval
      BY <1>1, <1>3, <3>1, <3>2, <3>4, ScheduleConstants
    <3> QED
      BY <3>1, <3>2, <3>3, <3>4
  <2> QED
    BY <1>1, <2>2, <2>3
<1>7. DueKeepsItsDistance' /\ DeliveriesAreDue' /\ OneShotCountsOnce'
  BY <1>1 DEF DueKeepsItsDistance, DeliveriesAreDue, OneShotCountsOnce
<1> QED
  BY <1>4, <1>5, <1>6, <1>7

\* The update that counts a delivery and arms the next deadline from the
\* present instant, which no delivery is ahead of.
LEMMA PublishKeepsTheInvariant ==
    ASSUME SendInv, Publish
    PROVE  SendInv'
<1> USE DEF SendInv, Publish
<1> DEFINE next == DeadlineAfterTick(clock)
<1>1. /\ clock \in Nat /\ task = "sent" /\ Len(sent) > 0 /\ Len(sent) \in Nat
      /\ progress.deliveries \in Nat /\ sent' = sent /\ plan' = plan /\ clock' = clock
      /\ plan \in {"Once", "FixedRate", "FixedDelay"}
      /\ LastSent \in 0..clock
  BY DEF SendTypeOK, SnapshotIsConsistent, LastSent
<1>2. /\ progress'.deliveries = progress.deliveries + 1 /\ progress'.due = next
      /\ progress'.settled = IF next = NoDue THEN "Delivered" ELSE None
      /\ task' = IF next = NoDue THEN "done" ELSE "waiting"
  OBVIOUS
<1>3. IF plan = "Once" THEN next = NoDue ELSE next \in Nat /\ next # NoDue
  BY <1>1, NextPointIsLater, ScheduleConstants DEF DeadlineAfterTick, NoDue
<1>4. SendTypeOK'
  <2>1. progress' \in [deliveries : Nat, due : Nat \cup {NoDue},
                       settled : Outcomes \cup {None}]
    BY <1>1, <1>3 DEF Outcomes
  <2>2. task' \in {"waiting", "done"}
    BY <1>2
  <2> QED
    BY <2>1, <2>2 DEF SendTypeOK, target
<1>5. SnapshotIsConsistent'
  <2>1. None # "Delivered"
    BY DEF None
  <2>2. Len(sent) = progress.deliveries + 1
    BY <1>1 DEF SnapshotIsConsistent
  <2>3. plan = "Once" => progress.deliveries = 0
    BY <1>1 DEF OneShotCountsOnce
  <2> QED
    BY <1>1, <1>2, <1>3, <2>1, <2>2, <2>3 DEF SnapshotIsConsistent
<1>6. NoCatchUpBurst'
  BY <1>1 DEF NoCatchUpBurst
<1>7. DueKeepsItsDistance'
  <2>1. ASSUME plan = "FixedRate" PROVE next >= (LastSent \div Interval + 1) * Interval
    <3>1. LastSent \in Nat
      BY <1>1
    <3>2. LastSent \div Interval \in Nat /\ clock \div Interval \in Nat
      BY <1>1, <3>1, Quotient
    <3>3. (LastSent \div Interval) * Interval <= clock
      BY <1>1, <3>1, <3>2, Quotient, ScheduleConstants
    <3>4. LastSent \div Interval <= clock \div Interval
      BY <1>1, <3>2, <3>3, AfterThePoint
    <3>5. (LastSent \div Interval + 1) * Interval <= (clock \div Interval + 1) * Interval
      BY <3>2, <3>4, GridIsOrdered
    <3>6. next = (clock \div Interval + 1) * Interval
      BY <2>1 DEF DeadlineAfterTick, NextFixedRate
    <3> QED
      BY <1>3, <2>1, <3>2, <3>5, <3>6, ScheduleConstants
  <2>2. ASSUME plan = "FixedDelay" PROVE next >= LastSent + Interval
    BY <1>1, <2>2, ScheduleConstants DEF DeadlineAfterTick
  <2>3. LastSent' = LastSent
    BY <1>1 DEF LastSent
  <2> QED
    BY <1>1, <1>2, <1>3, <2>1, <2>2, <2>3 DEF DueKeepsItsDistance
<1>8. DeliveriesAreDue' /\ OneShotCountsOnce'
  BY <1>1, <1>2, <1>3 DEF DeliveriesAreDue, OneShotCountsOnce
<1> QED
  BY <1>4, <1>5, <1>6, <1>7, <1>8

LEMMA SendInvStays == SendInv /\ [SendNext]_sendVars => SendInv'
<1> SUFFICES ASSUME SendInv, [SendNext]_sendVars PROVE SendInv'
  OBVIOUS
<1>1. CASE SettleCancelled
  BY <1>1, SettlingKeepsTheInvariant DEF SettleCancelled, Outcomes
<1>2. CASE SettleAbandoned
  BY <1>2, SettlingKeepsTheInvariant DEF SettleAbandoned, Outcomes
<1>3. CASE TimerWins
  <2> USE <1>3 DEF SendInv, TimerWins, target
  <2>1. SendTypeOK' /\ SnapshotIsConsistent' /\ NoCatchUpBurst'
    BY DEF SendTypeOK, SnapshotIsConsistent, NoCatchUpBurst
  <2>2. DueKeepsItsDistance' /\ DeliveriesAreDue' /\ OneShotCountsOnce'
    BY DEF DueKeepsItsDistance, DeliveriesAreDue, OneShotCountsOnce, LastSent
  <2> QED
    BY <2>1, <2>2
<1>4. CASE Deliver
  BY <1>4, DeliverKeepsTheInvariant
<1>5. CASE DeliveryFails
  BY <1>5, SettlingKeepsTheInvariant DEF DeliveryFails, Outcomes
<1>6. CASE Publish
  BY <1>6, PublishKeepsTheInvariant
<1>7. SendTypeOK /\ clock \in Nat
  BY DEF SendInv, SendTypeOK
<1>8. CASE Cancel
  <2>1. task = "waiting" => progress.due \in Int
    BY <1>7 DEF SendTypeOK, NoDue
  <2>2. SendTypeOK'
    BY <1>7, <1>8, <2>1 DEF Cancel, SendTypeOK, target
  <2> QED
    BY <1>7, <1>8, <2>2, OthersKeepTheInvariant DEF Cancel
<1>9. CASE OtherSend
  <2>1. SendTypeOK'
    BY <1>7, <1>9, ScheduleConstants DEF OtherSend, SendTypeOK
  <2> QED
    BY <1>7, <1>9, <2>1, OthersKeepTheInvariant DEF OtherSend
<1>10. CASE Receive
  <2>1. SendTypeOK'
    BY <1>7, <1>10, ScheduleConstants DEF Receive, SendTypeOK
  <2> QED
    BY <1>7, <1>10, <2>1, OthersKeepTheInvariant DEF Receive
<1>11. CASE CloseInbox
  <2>1. SendTypeOK'
    BY <1>7, <1>11 DEF CloseInbox, SendTypeOK
  <2> QED
    BY <1>7, <1>11, <2>1, OthersKeepTheInvariant DEF CloseInbox
<1>12. CASE ClockTicks
  <2>1. sent \in Seq(0..clock + 1)
    BY <1>7 DEF SendTypeOK
  <2>2. SendTypeOK'
    BY <1>7, <1>12, <2>1, ScheduleConstants DEF ClockTicks, SendTypeOK, target
  <2> QED
    BY <1>7, <1>12, <2>2, OthersKeepTheInvariant DEF ClockTicks
<1>13. CASE UNCHANGED sendVars
  <2>1. SendTypeOK'
    BY <1>7, <1>13 DEF sendVars, SendTypeOK
  <2> QED
    BY <1>7, <1>13, <2>1, OthersKeepTheInvariant DEF sendVars
<1> QED
  BY <1>1, <1>2, <1>3, <1>4, <1>5, <1>6, <1>8, <1>9, <1>10, <1>11, <1>12, <1>13
     DEF SendNext

-------------------------------------------------------------------------------

\* The count, the deadline and the outcome that run_schedule publishes are true
\* at every instant, and the inbox is never over its capacity.
THEOREM ScheduleHolds == SendSpec => []ScheduleIsConsistent
<1>1. SendInv => ScheduleIsConsistent
  BY DEF SendInv, ScheduleIsConsistent
<1> QED
  BY <1>1, SendInvAtFirst, SendInvStays, PTL DEF SendSpec

\* However long an inbox stays full, deadline_after_tick makes up for nothing:
\* two deliveries are an interval of the grid, or an interval, apart.
THEOREM NeverBursts == SendSpec => []NoCatchUpBurst
<1>1. SendInv => NoCatchUpBurst
  BY DEF SendInv
<1> QED
  BY <1>1, SendInvAtFirst, SendInvStays, PTL DEF SendSpec

\* Once run_schedule has published an outcome, no cancellation, closure or
\* passing of time changes it, and nothing more is sent.
THEOREM OutcomeStands == SendSpec => SettledIsFinal
<1> DEFINE Final == progress.settled # None => UNCHANGED <<progress, sent>>
<1>1. ASSUME SendInv, [SendNext]_sendVars PROVE Final
  <2>1. progress.settled # None => task = "done"
    BY <1>1 DEF SendInv, SnapshotIsConsistent
  <2>2. task = "done" /\ SendNext => UNCHANGED <<progress, sent>>
    BY DEF SendNext, SettleCancelled, SettleAbandoned, TimerWins, Deliver, DeliveryFails,
           Publish, Cancel, OtherSend, Receive, CloseInbox, ClockTicks
  <2> QED
    BY <1>1, <2>1, <2>2 DEF sendVars
<1>2. SendInv /\ [SendNext]_sendVars => [Final]_sendVars
  BY <1>1
<1> QED
  BY <1>2, SendInvAtFirst, SendInvStays, PTL DEF SendSpec, SettledIsFinal
================================================================================
