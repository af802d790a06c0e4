--------------------------- MODULE IpcListenerProofs ---------------------------
(***************************************************************************)
(* The listener's accounts, for any number of connections, any limit and   *)
(* any capacities: permits, requests in flight and the wake-up a graceful  *)
(* shutdown waits for.                                                     *)
(*                                                                         *)
(* ListenerInv is inductive.  Beside the accounts it says who the actor    *)
(* may still answer: a reply moves its connection, and only because that   *)
(* connection waits for it does the move leave the accounts alone.         *)
(***************************************************************************)
EXTENDS IpcListener, FiniteSetTheorems, TLAPS

Places == Connected \union {"none", "refused", "gone"}
Waits == {"asking", "streaming"}
Commands == {"answer", "other"}

ListenerTypes ==
    /\ limit \in Limits /\ permits \in Nat /\ inflight \in Nat
    /\ conn \in [Conns -> Places]
    /\ cancelled \subseteq Conns /\ guarded \subseteq Conns /\ notifying \subseteq Conns
    /\ writer \in [Conns -> {"none", "idle", "gone"} \union Commands]
    /\ wq \in [Conns -> Seq(Commands)]
    /\ \A c \in Conns : Len(wq[c]) <= WriterCap
    /\ inbox \in Seq(Conns \union {Nobody}) /\ Len(inbox) <= InboxCap
    /\ actor \in [at : {"idle", "handling", "locking"}, for : Conns \union {Nobody}]
    /\ shut \in [at : {"no", "begun", "looping", "armed", "waiting", "drained", "expired", "done"},
                 woken : BOOLEAN, drained : BOOLEAN]

(* The connections in a permit's care, given where each connection is. *)
Holders(where) == {c \in Conns : where[c] \in Connected}

PermitsAddUp == permits + Cardinality(Holders(conn)) = limit

RequestsAddUp ==
    /\ inflight = Cardinality(guarded)
    /\ \A c \in guarded : conn[c] \in Waits \union {"replying"}

(* A request that the actor has, or finds in its inbox, belongs to a       *)
(* connection that waits for it, and it is that connection's only one.     *)
OnlyWaitersAreServed ==
    /\ actor.for \in Conns => conn[actor.for] \in Waits
    /\ \A i \in 1..Len(inbox) :
         inbox[i] \in Conns =>
           /\ conn[inbox[i]] \in Waits
           /\ inbox[i] # actor.for
           /\ \A j \in 1..Len(inbox) : inbox[j] = inbox[i] => j = i

ListenerInv ==
    ListenerTypes /\ PermitsAddUp /\ RequestsAddUp /\ OnlyWaitersAreServed /\ NoLostWakeup

-----------------------------------------------------------------------------
(* Counting *)

LEMMA ConnsAreFinite == IsFiniteSet(Conns)
BY FS_Interval, ListenerAssumption DEF Conns

(* A set of connections is finite, and one more or one fewer counts as one. *)
LEMMA CountOfConns ==
    ASSUME NEW S, S \subseteq Conns
    PROVE  IsFiniteSet(S) /\ Cardinality(S) \in Nat
<1>1. S \in SUBSET Conns
  OBVIOUS
<1>2. IsFiniteSet(S)
  BY <1>1, ConnsAreFinite, FS_Subset
<1> QED BY <1>2, FS_CardinalityType

LEMMA OneMore ==
    ASSUME NEW S, S \subseteq Conns, NEW T, NEW c, c \notin S, T = S \union {c}
    PROVE  Cardinality(T) = Cardinality(S) + 1
BY CountOfConns, FS_AddElement

LEMMA OneFewer ==
    ASSUME NEW S, S \subseteq Conns, NEW T, NEW c, c \in S, T = S \ {c}
    PROVE  Cardinality(T) = Cardinality(S) - 1
BY CountOfConns, FS_RemoveElement

(* What the move of one connection does to the number of permits it stands *)
(* for.                                                                    *)
LEMMA HoldersAfterAMove ==
    ASSUME NEW before \in [Conns -> Places], NEW after, NEW c \in Conns, NEW at,
           after = [before EXCEPT ![c] = at]
    PROVE  /\ before[c] \notin Connected /\ at \in Connected =>
                Cardinality(Holders(after)) = Cardinality(Holders(before)) + 1
           /\ before[c] \in Connected /\ at \notin Connected =>
                Cardinality(Holders(after)) = Cardinality(Holders(before)) - 1
           /\ (before[c] \in Connected <=> at \in Connected) =>
                Holders(after) = Holders(before)
<1>0. Holders(before) \subseteq Conns
  BY DEF Holders
<1>1. ASSUME before[c] \notin Connected, at \in Connected
      PROVE  Cardinality(Holders(after)) = Cardinality(Holders(before)) + 1
  <2>1. c \notin Holders(before) /\ Holders(after) = Holders(before) \union {c}
    BY <1>1 DEF Holders
  <2> QED BY <2>1, <1>0, OneMore
<1>2. ASSUME before[c] \in Connected, at \notin Connected
      PROVE  Cardinality(Holders(after)) = Cardinality(Holders(before)) - 1
  <2>1. c \in Holders(before) /\ Holders(after) = Holders(before) \ {c}
    BY <1>2 DEF Holders
  <2> QED BY <2>1, <1>0, OneFewer
<1>3. ASSUME before[c] \in Connected <=> at \in Connected
      PROVE  Holders(after) = Holders(before)
  BY <1>3 DEF Holders
<1> QED BY <1>1, <1>2, <1>3

LEMMA HoldersAreCounted ==
    ASSUME NEW where
    PROVE  Cardinality(Holders(where)) \in Nat
<1>1. Holders(where) \subseteq Conns
  BY DEF Holders
<1> QED BY <1>1, CountOfConns

-----------------------------------------------------------------------------
(* Types *)

(* Queues stay queues of what they hold, within their capacity. *)
LEMMA AppendFits ==
    ASSUME NEW S, NEW q \in Seq(S), NEW e \in S, NEW cap \in Nat, Len(q) < cap
    PROVE  Append(q, e) \in Seq(S) /\ Len(Append(q, e)) <= cap
OBVIOUS

LEMMA TailFits ==
    ASSUME NEW S, NEW q \in Seq(S), q # <<>>, NEW cap \in Nat, Len(q) <= cap
    PROVE  Head(q) \in S /\ Tail(q) \in Seq(S) /\ Len(Tail(q)) <= cap
OBVIOUS

LEMMA Capacities == WriterCap \in Nat /\ InboxCap \in Nat /\ WriterCap > 0 /\ InboxCap > 0
BY ListenerAssumption

(* One writer's queue or place changes. *)
LEMMA QueueChanges ==
    ASSUME ListenerTypes, NEW c \in Conns, NEW q \in Seq(Commands), Len(q) <= WriterCap,
           wq' = [wq EXCEPT ![c] = q]
    PROVE  wq' \in [Conns -> Seq(Commands)] /\ \A d \in Conns : Len(wq'[d]) <= WriterCap
BY DEF ListenerTypes

LEMMA WriterAppends ==
    ASSUME ListenerTypes, NEW c \in Conns, NEW e \in Commands, Len(wq[c]) < WriterCap,
           wq' = [wq EXCEPT ![c] = Append(@, e)]
    PROVE  wq' \in [Conns -> Seq(Commands)] /\ \A d \in Conns : Len(wq'[d]) <= WriterCap
<1>1. PICK q \in Seq(Commands) : q = Append(wq[c], e) /\ Len(q) <= WriterCap
  BY AppendFits, Capacities DEF ListenerTypes
<1>2. wq' = [wq EXCEPT ![c] = q]
  BY <1>1 DEF ListenerTypes
<1> QED BY <1>1, <1>2, QueueChanges

(* Abandoning a request changes nothing but for whom it is done. *)
LEMMA AbandonFits ==
    ASSUME ListenerTypes, NEW c \in Conns, Abandon(c)
    PROVE  /\ inbox' \in Seq(Conns \union {Nobody}) /\ Len(inbox') = Len(inbox)
           /\ \A i \in 1..Len(inbox) :
                inbox'[i] = IF inbox[i] = c THEN Nobody ELSE inbox[i]
           /\ actor' \in [at : {"idle", "handling", "locking"}, for : Conns \union {Nobody}]
           /\ actor'.for = IF actor.for = c THEN Nobody ELSE actor.for
<1>1. Len(inbox) \in Nat /\ \A i \in 1..Len(inbox) : inbox[i] \in Conns \union {Nobody}
  BY DEF ListenerTypes
<1>2. actor \in [at : {"idle", "handling", "locking"}, for : Conns \union {Nobody}]
  BY DEF ListenerTypes
<1> QED BY <1>1, <1>2 DEF Abandon

(* The guard is dropped at most once, and the count with it. *)
LEMMA DropGuardCounts ==
    ASSUME ListenerTypes, RequestsAddUp, NEW c \in Conns, DropGuard(c)
    PROVE  /\ inflight' \in Nat /\ guarded' \subseteq Conns /\ notifying' \subseteq Conns
           /\ inflight' = Cardinality(guarded')
           /\ guarded' = guarded \ {c} /\ notifying \subseteq notifying'
           /\ inflight' = inflight \/ (inflight' = 0 => notifying' # {})
<1>0. guarded \subseteq Conns /\ inflight = Cardinality(guarded) /\ inflight \in Nat
      /\ notifying \subseteq Conns
  BY DEF ListenerTypes, RequestsAddUp
<1>1. CASE c \in guarded
  <2>1. PICK g : g = guarded \ {c}
    OBVIOUS
  <2>2. Cardinality(g) = Cardinality(guarded) - 1 /\ Cardinality(g) \in Nat
    BY <1>0, <1>1, <2>1, OneFewer, CountOfConns
  <2>3. guarded' = g /\ inflight' = inflight - 1
    BY <1>1, <2>1 DEF DropGuard
  <2>4. notifying' = IF inflight = 1 THEN notifying \union {c} ELSE notifying
    BY <1>1 DEF DropGuard
  <2>5. inflight' = 0 => notifying' # {}
    BY <2>3, <2>4, <1>0
  <2>6. Cardinality(guarded') = Cardinality(g)
    BY <2>3
  <2> QED BY <1>0, <2>1, <2>2, <2>3, <2>4, <2>5, <2>6
<1>2. CASE c \notin guarded
  <2>1. guarded' = guarded /\ inflight' = inflight /\ notifying' = notifying
    BY <1>2 DEF DropGuard
  <2> QED BY <1>0, <1>2, <2>1
<1> QED BY <1>1, <1>2

LEMMA TypesAtStart == Init => ListenerTypes
<1> SUFFICES ASSUME Init PROVE ListenerTypes
  OBVIOUS
<1>1. limit \in Nat
  BY ListenerAssumption DEF Init
<1>2. wq \in [Conns -> Seq(Commands)] /\ \A c \in Conns : Len(wq[c]) <= WriterCap
  BY Capacities DEF Init
<1>3. inbox \in Seq(Conns \union {Nobody}) /\ Len(inbox) <= InboxCap
  BY Capacities DEF Init
<1> QED BY <1>1, <1>2, <1>3 DEF Init, ListenerTypes, Places, Connected, Nobody

LEMMA TypesKept == ListenerTypes /\ RequestsAddUp /\ [Next]_vars => ListenerTypes'
<1> SUFFICES ASSUME ListenerTypes, RequestsAddUp, [Next]_vars
             PROVE  ListenerTypes'
  OBVIOUS
<1> USE DEF To
<1>1. ASSUME NEW c \in Conns, Accept(c) PROVE ListenerTypes'
  <2>1. permits' \in Nat
    BY <1>1 DEF Accept, ListenerTypes
  <2>2. conn' \in [Conns -> Places]
    BY <1>1 DEF Accept, ListenerTypes, Places, Connected
  <2> QED BY <1>1, <2>1, <2>2 DEF Accept, ListenerTypes, drain, ending, actors
<1>2. ASSUME NEW c \in Conns, Refuse(c) PROVE ListenerTypes'
  BY <1>2 DEF Refuse, ListenerTypes, Places, Connected, drain, ending, actors
<1>3. ASSUME NEW c \in Conns, Admission(c) PROVE ListenerTypes'
  <2>1. permits' \in Nat
    BY <1>3 DEF Admission, ListenerTypes
  <2>2. conn' \in [Conns -> Places]
    BY <1>3 DEF Admission, ListenerTypes, Places, Connected
  <2>3. writer' \in [Conns -> {"none", "idle", "gone"} \union Commands]
    BY <1>3 DEF Admission, ListenerTypes
  <2> QED BY <1>3, <2>1, <2>2, <2>3 DEF Admission, ListenerTypes, drain, ending, actors
<1>4. ASSUME NEW c \in Conns, ReadFrame(c) PROVE ListenerTypes'
  BY <1>4 DEF ReadFrame, Untracked, Discover, ListenerTypes, Places, Connected, drain, ending, actors
<1>5. ASSUME NEW c \in Conns, Dispatch(c) PROVE ListenerTypes'
  <2>1. conn' \in [Conns -> Places]
    BY <1>5 DEF Dispatch, TurnedAway, Tell, Ask, OpenStream, ListenerTypes, Places, Connected
  <2>2. inflight' \in Nat /\ guarded' \subseteq Conns
    BY <1>5 DEF Dispatch, Track, ListenerTypes
  <2>3. inbox' = inbox \/ \E e \in Conns \union {Nobody} : Len(inbox) < InboxCap /\ inbox' = Append(inbox, e)
    BY <1>5 DEF Dispatch, InboxTakes, TurnedAway, Tell, Ask, OpenStream
  <2>4. inbox' \in Seq(Conns \union {Nobody}) /\ Len(inbox') <= InboxCap
    <3>1. CASE inbox' = inbox
      BY <3>1 DEF ListenerTypes
    <3>2. ASSUME NEW e \in Conns \union {Nobody}, Len(inbox) < InboxCap, inbox' = Append(inbox, e)
          PROVE  inbox' \in Seq(Conns \union {Nobody}) /\ Len(inbox') <= InboxCap
      <4>1. inbox \in Seq(Conns \union {Nobody})
        BY DEF ListenerTypes
      <4> QED BY <3>2, <4>1, AppendFits, Capacities
    <3> QED BY <2>3, <3>1, <3>2
  <2> QED BY <1>5, <2>1, <2>2, <2>4 DEF Dispatch, ListenerTypes, ending
<1>6. ASSUME NEW c \in Conns, Reply(c) PROVE ListenerTypes'
  <2>1. conn' \in [Conns -> Places]
    BY <1>6 DEF Reply, ListenerTypes, Places, Connected
  <2>2. wq' \in [Conns -> Seq(Commands)] /\ \A d \in Conns : Len(wq'[d]) <= WriterCap
    <3>1. Kind(c) \in Commands
      BY DEF Kind, Commands
    <3> QED BY <1>6, <3>1, WriterAppends DEF Reply, ListenerTypes
  <2>3. inflight' \in Nat /\ guarded' \subseteq Conns /\ notifying' \subseteq Conns
    BY <1>6, DropGuardCounts DEF Reply
  <2> QED BY <1>6, <2>1, <2>2, <2>3 DEF Reply, ListenerTypes, ending, actors
<1>7. ASSUME NEW c \in Conns, CancelFrame(c) PROVE ListenerTypes'
  <2>1. conn' \in [Conns -> Places]
    BY <1>7 DEF CancelFrame, ListenerTypes, Places, Connected
  <2>2. inflight' \in Nat /\ guarded' \subseteq Conns /\ notifying' \subseteq Conns
    BY <1>7, DropGuardCounts DEF CancelFrame
  <2>3. Abandon(c)
    BY <1>7 DEF CancelFrame
  <2>4. UNCHANGED <<limit, permits, cancelled, wq, writer, shut>>
    BY <1>7 DEF CancelFrame, ending
  <2> QED BY <2>1, <2>2, <2>3, <2>4, AbandonFits DEF ListenerTypes
<1>8. ASSUME NEW c \in Conns, AskTimesOut(c) PROVE ListenerTypes'
  <2>1. conn' \in [Conns -> Places]
    BY <1>8 DEF AskTimesOut, ListenerTypes, Places, Connected
  <2>2. Abandon(c)
    BY <1>8 DEF AskTimesOut
  <2>3. UNCHANGED <<limit, permits, cancelled, wq, writer, inflight, guarded, notifying, shut>>
    BY <1>8 DEF AskTimesOut, ending, drain
  <2> QED BY <2>1, <2>2, <2>3, AbandonFits DEF ListenerTypes
<1>9. ASSUME NEW c \in Conns, Notify(c) PROVE ListenerTypes'
  BY <1>9 DEF Notify, ListenerTypes, tasks, actors
<1>10. ASSUME NEW c \in Conns, Join(c) PROVE ListenerTypes'
  BY <1>10 DEF Join, ListenerTypes, Places, Connected, drain, ending, actors
<1>11. ASSUME NEW c \in Conns, StopReading(c) PROVE ListenerTypes'
  BY <1>11 DEF StopReading, ListenerTypes, Places, Connected, drain, ending, actors
<1>12. ASSUME NEW c \in Conns, Leave(c),
              UNCHANGED <<limit, permits, conn, cancelled, drain, shut, actors>>
       PROVE  ListenerTypes'
  <2>1. wq' \in [Conns -> Seq(Commands)] /\ \A d \in Conns : Len(wq'[d]) <= WriterCap
    <3>1. << >> \in Seq(Commands) /\ Len(<< >>) <= WriterCap
      BY Capacities
    <3> QED BY <1>12, <3>1, QueueChanges DEF Leave
  <2> QED BY <1>12, <2>1 DEF Leave, ListenerTypes, drain, actors
<1>13. ASSUME NEW c \in Conns, WriterCancelled(c) PROVE ListenerTypes'
  BY <1>12, <1>13 DEF WriterCancelled, ending
<1>14. ASSUME NEW c \in Conns, WriterTakes(c) PROVE ListenerTypes'
  <2>1. Head(wq[c]) \in Commands /\ Tail(wq[c]) \in Seq(Commands) /\ Len(Tail(wq[c])) <= WriterCap
    BY <1>14, TailFits, Capacities DEF WriterTakes, ListenerTypes
  <2>2. wq' \in [Conns -> Seq(Commands)] /\ \A d \in Conns : Len(wq'[d]) <= WriterCap
    <3>1. PICK q \in Seq(Commands) : q = Tail(wq[c]) /\ Len(q) <= WriterCap
      BY <2>1
    <3>2. wq' = [wq EXCEPT ![c] = q]
      BY <1>14, <3>1 DEF WriterTakes, ListenerTypes
    <3> QED BY <3>1, <3>2, QueueChanges
  <2>3. writer' \in [Conns -> {"none", "idle", "gone"} \union Commands]
    BY <1>14, <2>1 DEF WriterTakes, ListenerTypes
  <2> QED BY <1>14, <2>2, <2>3 DEF WriterTakes, ListenerTypes, drain, ending, actors
<1>15. ASSUME NEW c \in Conns, WriterWrites(c) PROVE ListenerTypes'
  <2>1. CASE Leave(c)
    BY <1>12, <1>15, <2>1 DEF WriterWrites, ending
  <2>2. CASE writer' = [writer EXCEPT ![c] = "idle"] /\ UNCHANGED wq
    BY <1>15, <2>2 DEF WriterWrites, ListenerTypes, drain, ending, actors
  <2> QED BY <1>15, <2>1, <2>2 DEF WriterWrites
<1>16. ASSUME NEW c \in Conns, Revoke(c) PROVE ListenerTypes'
  BY <1>16 DEF Revoke, ListenerTypes, drain, ending, actors
<1>17. ASSUME NEW c \in Conns, ActorStreams(c) PROVE ListenerTypes'
  <2>1. wq' \in [Conns -> Seq(Commands)] /\ \A d \in Conns : Len(wq'[d]) <= WriterCap
    <3>1. "other" \in Commands
      BY DEF Commands
    <3> QED BY <1>17, <3>1, WriterAppends DEF ActorStreams
  <2> QED BY <1>17, <2>1 DEF ActorStreams, ListenerTypes, drain, ending, actors
<1>18. ASSUME AcceptorStops PROVE ListenerTypes'
  BY <1>18 DEF AcceptorStops, ListenerTypes, tasks, drain, ending, actors
<1>19. ASSUME ActorTakes PROVE ListenerTypes'
  <2>1. Head(inbox) \in Conns \union {Nobody} /\ Tail(inbox) \in Seq(Conns \union {Nobody})
        /\ Len(Tail(inbox)) <= InboxCap
    BY <1>19, TailFits, Capacities DEF ActorTakes, ListenerTypes
  <2> QED BY <1>19, <2>1 DEF ActorTakes, ListenerTypes, tasks, drain, ending
<1>20. ASSUME ActorFinishes PROVE ListenerTypes'
  BY <1>20 DEF ActorFinishes, ListenerTypes, Places, Connected, drain, ending
<1>21. ASSUME ActorChangesNames \/ ActorHasNames PROVE ListenerTypes'
  BY <1>21 DEF ActorChangesNames, ActorHasNames, ListenerTypes, tasks, drain, ending
<1>22. ASSUME Handle PROVE ListenerTypes'
  BY <1>22 DEF Handle, StopNow, BeginShutdown, WaitForDrain, DrainExpires, FinishShutdown, Shutting,
               ListenerTypes, tasks, drain, actors
<1>23. CASE UNCHANGED vars
  BY <1>23 DEF vars, ListenerTypes, tasks, drain, ending, actors
<1> QED
  BY <1>1, <1>2, <1>3, <1>4, <1>5, <1>6, <1>7, <1>8, <1>9, <1>10, <1>11, <1>13, <1>14, <1>15,
     <1>16, <1>17, <1>18, <1>19, <1>20, <1>21, <1>22, <1>23
  DEF Next, Running, Connection, Serve, Wind, Writer, Actor

-----------------------------------------------------------------------------
(* Permits *)

LEMMA PermitsAfterAMove ==
    ASSUME ListenerTypes, PermitsAddUp, NEW c \in Conns, NEW at, To(c, at), limit' = limit,
           \/ (conn[c] \in Connected <=> at \in Connected) /\ permits' = permits
           \/ conn[c] \notin Connected /\ at \in Connected /\ permits' = permits - 1
           \/ conn[c] \in Connected /\ at \notin Connected /\ permits' = permits + 1
    PROVE  PermitsAddUp'
<1>1. PICK before, after : before = conn /\ after = conn'
  OBVIOUS
<1>2. before \in [Conns -> Places] /\ after = [before EXCEPT ![c] = at] /\ before[c] = conn[c]
  BY <1>1 DEF ListenerTypes, To
<1>3. PICK m, n : m = Cardinality(Holders(before)) /\ n = Cardinality(Holders(after))
  OBVIOUS
<1>4. m \in Nat /\ n \in Nat
  BY <1>3, HoldersAreCounted
<1>5. /\ before[c] \notin Connected /\ at \in Connected => n = m + 1
      /\ before[c] \in Connected /\ at \notin Connected => n = m - 1
      /\ (before[c] \in Connected <=> at \in Connected) => n = m
  BY <1>2, <1>3, HoldersAfterAMove
<1>6. permits + m = limit /\ permits \in Nat
  BY <1>1, <1>3 DEF PermitsAddUp, ListenerTypes
<1>7. permits' + n = limit'
  BY <1>2, <1>4, <1>5, <1>6
<1> QED BY <1>1, <1>3, <1>7 DEF PermitsAddUp

LEMMA PermitsKept ==
    ListenerTypes /\ PermitsAddUp /\ OnlyWaitersAreServed /\ [Next]_vars => PermitsAddUp'
<1> SUFFICES ASSUME ListenerTypes, PermitsAddUp, OnlyWaitersAreServed, [Next]_vars
             PROVE  PermitsAddUp'
  OBVIOUS
<1>0. ASSUME UNCHANGED <<limit, permits, conn>> PROVE PermitsAddUp'
  BY <1>0 DEF PermitsAddUp
<1> USE DEF Connected
<1>1. ASSUME NEW c \in Conns, Accept(c) PROVE PermitsAddUp'
  <2>1. CASE permits > 0
    BY <1>1, <2>1, PermitsAfterAMove DEF Accept
  <2>2. CASE ~(permits > 0)
    BY <1>1, <2>2, PermitsAfterAMove DEF Accept
  <2> QED BY <2>1, <2>2
<1>2. ASSUME NEW c \in Conns, Refuse(c) PROVE PermitsAddUp'
  BY <1>2, PermitsAfterAMove DEF Refuse
<1>3. ASSUME NEW c \in Conns, Admission(c) PROVE PermitsAddUp'
  <2>1. CASE To(c, "reading") /\ UNCHANGED permits
    BY <1>3, <2>1, PermitsAfterAMove DEF Admission
  <2>2. CASE To(c, "gone") /\ permits' = permits + 1
    BY <1>3, <2>2, PermitsAfterAMove DEF Admission
  <2> QED BY <1>3, <2>1, <2>2 DEF Admission
<1>4. ASSUME NEW c \in Conns, ReadFrame(c) PROVE PermitsAddUp'
  <2>1. conn[c] = "reading" /\ UNCHANGED <<limit, permits>> /\ (To(c, "answering") \/ To(c, "checked"))
    BY <1>4 DEF ReadFrame, Runs, Untracked, Discover
  <2> QED BY <2>1, PermitsAfterAMove
<1>5. ASSUME NEW c \in Conns, Dispatch(c) PROVE PermitsAddUp'
  <2>1. conn[c] = "checked" /\ UNCHANGED <<limit, permits>>
        /\ (To(c, "replying") \/ To(c, "asking") \/ To(c, "streaming"))
    BY <1>5 DEF Dispatch, TurnedAway, Tell, Ask, OpenStream
  <2> QED BY <2>1, PermitsAfterAMove
<1>6. ASSUME NEW c \in Conns, Reply(c) PROVE PermitsAddUp'
  <2>1. conn[c] \in {"replying", "answering"} /\ UNCHANGED <<limit, permits>>
        /\ (To(c, "reading") \/ To(c, "closing"))
    BY <1>6 DEF Reply
  <2> QED BY <2>1, PermitsAfterAMove
<1>7. ASSUME NEW c \in Conns, CancelFrame(c) PROVE PermitsAddUp'
  BY <1>7, PermitsAfterAMove DEF CancelFrame
<1>8. ASSUME NEW c \in Conns, AskTimesOut(c) PROVE PermitsAddUp'
  BY <1>8, PermitsAfterAMove DEF AskTimesOut
<1>9. ASSUME NEW c \in Conns, Join(c) PROVE PermitsAddUp'
  BY <1>9, PermitsAfterAMove DEF Join
<1>10. ASSUME NEW c \in Conns, StopReading(c) PROVE PermitsAddUp'
  BY <1>10, PermitsAfterAMove DEF StopReading, Runs
<1>11. ASSUME NEW c \in Conns, Notify(c) \/ Writer(c) \/ Revoke(c) \/ ActorStreams(c)
       PROVE  PermitsAddUp'
  BY <1>0, <1>11 DEF Notify, Writer, WriterCancelled, WriterTakes, WriterWrites, Revoke, ActorStreams, tasks
<1>12. ASSUME ActorFinishes PROVE PermitsAddUp'
  <2>1. CASE actor.for \in Conns
    <3>1. PICK c \in Conns : c = actor.for
      BY <2>1
    <3>2. conn[c] \in {"asking", "streaming"}
      BY <3>1 DEF OnlyWaitersAreServed, Waits
    <3>3. To(c, "replying") /\ UNCHANGED <<limit, permits>>
      BY <1>12, <3>1 DEF ActorFinishes, To, ListenerTypes
    <3> QED BY <3>2, <3>3, PermitsAfterAMove
  <2>2. CASE actor.for \notin Conns
    <3>1. conn' = conn
      BY <1>12, <2>2 DEF ActorFinishes, ListenerTypes
    <3> QED BY <1>0, <1>12, <3>1 DEF ActorFinishes
  <2> QED BY <2>1, <2>2
<1>13. ASSUME AcceptorStops \/ ActorTakes \/ ActorChangesNames \/ ActorHasNames \/ Handle
       PROVE  PermitsAddUp'
  BY <1>0, <1>13 DEF AcceptorStops, ActorTakes, ActorChangesNames, ActorHasNames, Handle, StopNow,
                     BeginShutdown, WaitForDrain, Shutting, DrainExpires, FinishShutdown, tasks
<1>14. CASE UNCHANGED vars
  BY <1>0, <1>14 DEF vars, tasks
<1> QED
  BY <1>1, <1>2, <1>3, <1>4, <1>5, <1>6, <1>7, <1>8, <1>9, <1>10, <1>11, <1>12, <1>13, <1>14
  DEF Next, Running, Connection, Serve, Wind, Actor

-----------------------------------------------------------------------------
(* Requests in flight *)

LEMMA RequestsKept ==
    ListenerTypes /\ RequestsAddUp /\ OnlyWaitersAreServed /\ [Next]_vars => RequestsAddUp'
<1> SUFFICES ASSUME ListenerTypes, RequestsAddUp, OnlyWaitersAreServed, [Next]_vars
             PROVE  RequestsAddUp'
  OBVIOUS
<1>0. ASSUME UNCHANGED <<inflight, guarded>>, \A c \in guarded : conn'[c] = conn[c]
      PROVE  RequestsAddUp'
  BY <1>0 DEF RequestsAddUp
(* A connection that holds no guard may go anywhere. *)
<1>1. ASSUME NEW c \in Conns, NEW at, conn[c] \notin Waits \union {"replying"}, To(c, at),
             UNCHANGED <<inflight, guarded>>
      PROVE  RequestsAddUp'
  <2>1. c \notin guarded
    BY <1>1 DEF RequestsAddUp
  <2>2. \A d \in guarded : conn'[d] = conn[d]
    BY <1>1, <2>1 DEF To, ListenerTypes
  <2> QED BY <1>0, <1>1, <2>2
(* One that drops its guard, too. *)
<1>2. ASSUME NEW c \in Conns, NEW at, To(c, at), DropGuard(c) PROVE RequestsAddUp'
  <2>1. inflight' = Cardinality(guarded') /\ guarded' = guarded \ {c}
    BY <1>2, DropGuardCounts
  <2>2. \A d \in guarded' : conn'[d] \in Waits \union {"replying"}
    BY <1>2, <2>1 DEF To, ListenerTypes, RequestsAddUp
  <2> QED BY <2>1, <2>2 DEF RequestsAddUp
(* And one may move within what a guard is for. *)
<1>3. ASSUME NEW c \in Conns, To(c, "replying"), UNCHANGED <<inflight, guarded>>
      PROVE  RequestsAddUp'
  <2>1. \A d \in guarded' : conn'[d] \in Waits \union {"replying"}
    BY <1>3 DEF To, ListenerTypes, RequestsAddUp
  <2> QED BY <1>3, <2>1 DEF RequestsAddUp
<1>4. ASSUME NEW c \in Conns, Dispatch(c) PROVE RequestsAddUp'
  <2>1. c \notin guarded
    BY <1>4 DEF Dispatch, RequestsAddUp, Waits
  <2>2. PICK g : g = guarded \union {c}
    OBVIOUS
  <2>3. Cardinality(g) = Cardinality(guarded) + 1
    BY <2>1, <2>2, OneMore DEF ListenerTypes
  <2>4. inflight' = Cardinality(guarded')
    BY <1>4, <2>2, <2>3 DEF Dispatch, Track, RequestsAddUp
  <2>5. \E at \in Waits \union {"replying"} : To(c, at)
    BY <1>4 DEF Dispatch, TurnedAway, Tell, Ask, OpenStream, Waits
  <2>6. guarded' = g
    BY <1>4, <2>2 DEF Dispatch, Track
  <2>7. \A d \in guarded' : conn'[d] \in Waits \union {"replying"}
    BY <2>2, <2>5, <2>6 DEF To, ListenerTypes, RequestsAddUp
  <2> QED BY <2>4, <2>7 DEF RequestsAddUp
<1>5. ASSUME NEW c \in Conns, Reply(c) \/ CancelFrame(c) PROVE RequestsAddUp'
  <2>1. DropGuard(c) /\ (To(c, "reading") \/ To(c, "closing"))
    BY <1>5 DEF Reply, CancelFrame
  <2> QED BY <1>2, <2>1
<1>6. ASSUME NEW c \in Conns, AskTimesOut(c) PROVE RequestsAddUp'
  BY <1>3, <1>6 DEF AskTimesOut, drain
<1>7. ASSUME NEW c \in Conns,
             Accept(c) \/ Refuse(c) \/ Admission(c) \/ ReadFrame(c) \/ StopReading(c) \/ Join(c)
      PROVE  RequestsAddUp'
  <2>1. conn[c] \notin Waits \union {"replying"}
    BY <1>7 DEF Accept, Refuse, Admission, ReadFrame, StopReading, Join, Runs, Waits
  <2>2. \E at \in Places : To(c, at)
    BY <1>7 DEF Accept, Refuse, Admission, ReadFrame, Untracked, Discover, StopReading, Join,
                Places, Connected
  <2>3. UNCHANGED <<inflight, guarded>>
    BY <1>7 DEF Accept, Refuse, Admission, ReadFrame, StopReading, Join, drain
  <2> QED BY <1>1, <2>1, <2>2, <2>3
<1>8. ASSUME NEW c \in Conns, Notify(c) \/ Writer(c) \/ Revoke(c) \/ ActorStreams(c)
      PROVE  RequestsAddUp'
  BY <1>0, <1>8 DEF Notify, Writer, WriterCancelled, WriterTakes, WriterWrites, Revoke, ActorStreams,
                    tasks, drain
<1>9. ASSUME ActorFinishes PROVE RequestsAddUp'
  <2>1. \A d \in guarded' : conn'[d] \in Waits \union {"replying"}
    BY <1>9 DEF ActorFinishes, drain, RequestsAddUp, ListenerTypes
  <2> QED BY <1>9, <2>1 DEF ActorFinishes, drain, RequestsAddUp
<1>10. ASSUME AcceptorStops \/ ActorTakes \/ ActorChangesNames \/ ActorHasNames \/ Handle
       PROVE  RequestsAddUp'
  BY <1>0, <1>10 DEF AcceptorStops, ActorTakes, ActorChangesNames, ActorHasNames, Handle, StopNow,
                     BeginShutdown, WaitForDrain, Shutting, DrainExpires, FinishShutdown, tasks, drain
<1>11. CASE UNCHANGED vars
  BY <1>0, <1>11 DEF vars, tasks, drain
<1> QED
  BY <1>4, <1>5, <1>6, <1>7, <1>8, <1>9, <1>10, <1>11
  DEF Next, Running, Connection, Serve, Wind, Actor

-----------------------------------------------------------------------------
(* Who is served *)

LEMMA WaitersKept ==
    ListenerTypes /\ OnlyWaitersAreServed /\ [Next]_vars => OnlyWaitersAreServed'
<1> SUFFICES ASSUME ListenerTypes, OnlyWaitersAreServed, [Next]_vars
             PROVE  OnlyWaitersAreServed'
  OBVIOUS
<1>a. /\ inbox \in Seq(Conns \union {Nobody}) /\ Len(inbox) \in Nat
      /\ actor \in [at : {"idle", "handling", "locking"}, for : Conns \union {Nobody}]
      /\ conn \in [Conns -> Places] /\ Nobody \notin Conns
  BY DEF ListenerTypes, Nobody, Conns
<1>0. ASSUME inbox' = inbox, actor'.for = actor.for, \A d \in Conns : conn[d] \in Waits => conn'[d] = conn[d]
      PROVE  OnlyWaitersAreServed'
  BY <1>0, <1>a DEF OnlyWaitersAreServed
(* Who does not wait is in nobody's hands, and may go anywhere. *)
<1>1. ASSUME NEW c \in Conns, NEW at, conn[c] \notin Waits, To(c, at), UNCHANGED <<inbox, actor>>
      PROVE  OnlyWaitersAreServed'
  BY <1>0, <1>1, <1>a DEF To
(* Who gave up waiting is in nobody's hands any more. *)
<1>2. ASSUME NEW c \in Conns, NEW at, To(c, at), Abandon(c) PROVE OnlyWaitersAreServed'
  <2>1. /\ Len(inbox') = Len(inbox)
        /\ \A i \in 1..Len(inbox) : inbox'[i] = IF inbox[i] = c THEN Nobody ELSE inbox[i]
        /\ actor'.for = IF actor.for = c THEN Nobody ELSE actor.for
    BY <1>2, AbandonFits
  <2>2. \A d \in Conns : d # c => conn'[d] = conn[d]
    BY <1>2, <1>a DEF To
  <2> QED BY <1>a, <2>1, <2>2 DEF OnlyWaitersAreServed
(* A new request is the only one of its connection, or nobody's. *)
<1>3. ASSUME NEW c \in Conns, NEW at, NEW e, conn[c] \notin Waits, To(c, at),
             e = Nobody \/ (e = c /\ at \in Waits), inbox' = Append(inbox, e), UNCHANGED actor
      PROVE  OnlyWaitersAreServed'
  <2>1. /\ Len(inbox') = Len(inbox) + 1 /\ inbox'[Len(inbox) + 1] = e
        /\ \A i \in 1..Len(inbox) : inbox'[i] = inbox[i]
    BY <1>3, <1>a
  <2>2. conn'[c] = at /\ \A d \in Conns : d # c => conn'[d] = conn[d]
    BY <1>3, <1>a DEF To
  <2>3. actor.for # c /\ \A i \in 1..Len(inbox) : inbox[i] # c
    BY <1>3 DEF OnlyWaitersAreServed
  <2>4. PICK n \in Nat : n = Len(inbox)
    BY <1>a
  <2>5. actor'.for \in Conns => conn'[actor'.for] \in Waits
    BY <1>3, <2>2, <2>3 DEF OnlyWaitersAreServed
  <2>6. \A i \in 1..(n + 1) : i \in 1..n \/ i = n + 1
    BY <2>4
  <2>7. ASSUME NEW i \in 1..Len(inbox'), inbox'[i] \in Conns
        PROVE  /\ conn'[inbox'[i]] \in Waits /\ inbox'[i] # actor'.for
               /\ \A j \in 1..Len(inbox') : inbox'[j] = inbox'[i] => j = i
    <3>1. CASE i \in 1..n
      BY <1>3, <1>a, <2>1, <2>2, <2>3, <2>4, <2>6, <2>7, <3>1 DEF OnlyWaitersAreServed
    <3>2. CASE i = n + 1
      BY <1>3, <1>a, <2>1, <2>2, <2>3, <2>4, <2>6, <2>7, <3>2 DEF OnlyWaitersAreServed
    <3> QED BY <2>1, <2>4, <2>6, <2>7, <3>1, <3>2
  <2> QED BY <2>5, <2>7 DEF OnlyWaitersAreServed
<1>4. ASSUME NEW c \in Conns, Dispatch(c) PROVE OnlyWaitersAreServed'
  <2>1. conn[c] \notin Waits /\ UNCHANGED actor
    BY <1>4 DEF Dispatch, Waits
  <2>2. \/ To(c, "replying") /\ UNCHANGED inbox
        \/ To(c, "replying") /\ inbox' = Append(inbox, Nobody)
        \/ To(c, "asking") /\ inbox' = Append(inbox, c)
        \/ To(c, "streaming") /\ inbox' = Append(inbox, c)
    BY <1>4 DEF Dispatch, TurnedAway, Tell, Ask, OpenStream
  <2>3. "asking" \in Waits /\ "streaming" \in Waits
    BY DEF Waits
  <2> QED BY <1>1, <1>3, <2>1, <2>2, <2>3
<1>5. ASSUME NEW c \in Conns, CancelFrame(c) \/ AskTimesOut(c) PROVE OnlyWaitersAreServed'
  <2>1. Abandon(c) /\ (To(c, "closing") \/ To(c, "replying"))
    BY <1>5 DEF CancelFrame, AskTimesOut
  <2> QED BY <1>2, <2>1
<1>6. ASSUME NEW c \in Conns,
             \/ Accept(c) \/ Refuse(c) \/ Admission(c) \/ ReadFrame(c)
             \/ Reply(c) \/ StopReading(c) \/ Join(c)
      PROVE  OnlyWaitersAreServed'
  <2>1. conn[c] \notin Waits
    BY <1>6 DEF Accept, Refuse, Admission, ReadFrame, Reply, StopReading, Join, Runs, Waits
  <2>2. \E at \in Places : To(c, at)
    BY <1>6 DEF Accept, Refuse, Admission, ReadFrame, Untracked, Discover, Reply, StopReading, Join,
                Places, Connected
  <2>3. UNCHANGED <<inbox, actor>>
    BY <1>6 DEF Accept, Refuse, Admission, ReadFrame, Reply, StopReading, Join, actors
  <2> QED BY <1>1, <2>1, <2>2, <2>3
<1>7. ASSUME NEW c \in Conns, Notify(c) \/ Writer(c) \/ Revoke(c) \/ ActorStreams(c)
      PROVE  OnlyWaitersAreServed'
  BY <1>0, <1>7 DEF Notify, Writer, WriterCancelled, WriterTakes, WriterWrites, Revoke, ActorStreams,
                    tasks, actors
<1>8. ASSUME ActorTakes PROVE OnlyWaitersAreServed'
  <2>1. PICK n \in Nat : n = Len(inbox)
    BY <1>a
  <2>2. inbox # << >> /\ inbox' = Tail(inbox) /\ actor'.for = Head(inbox) /\ conn' = conn
    BY <1>8 DEF ActorTakes, tasks
  <2>3. n > 0 /\ Len(inbox') = n - 1 /\ Head(inbox) = inbox[1]
        /\ \A i \in 1..(n - 1) : inbox'[i] = inbox[i + 1]
    BY <1>a, <2>1, <2>2
  <2>4. \A i \in 1..(n - 1) : i + 1 \in 1..n /\ i + 1 # 1
    BY <2>1
  <2>5. actor'.for \in Conns => conn'[actor'.for] \in Waits
    BY <2>1, <2>2, <2>3 DEF OnlyWaitersAreServed
  <2>6. ASSUME NEW i \in 1..Len(inbox'), inbox'[i] \in Conns
        PROVE  /\ conn'[inbox'[i]] \in Waits /\ inbox'[i] # actor'.for
               /\ \A j \in 1..Len(inbox') : inbox'[j] = inbox'[i] => j = i
    <3>1. i \in 1..(n - 1) /\ inbox'[i] = inbox[i + 1]
      BY <2>3, <2>6
    <3>2. 1 \in 1..n
      BY <2>1, <2>3
    <3>3. conn[inbox[i + 1]] \in Waits /\ \A k \in 1..n : inbox[k] = inbox[i + 1] => k = i + 1
      BY <2>1, <2>4, <2>6, <3>1 DEF OnlyWaitersAreServed
    <3>4. inbox'[i] # actor'.for
      BY <2>2, <2>3, <2>4, <3>1, <3>2, <3>3
    <3>5. ASSUME NEW j \in 1..Len(inbox'), inbox'[j] = inbox'[i] PROVE j = i
      BY <2>1, <2>3, <2>4, <3>1, <3>3, <3>5
    <3> QED BY <2>2, <3>1, <3>3, <3>4, <3>5
  <2> QED BY <2>5, <2>6 DEF OnlyWaitersAreServed
<1>9. ASSUME ActorFinishes PROVE OnlyWaitersAreServed'
  <2>1. inbox' = inbox /\ actor'.for = Nobody
        /\ \A d \in Conns : d # actor.for => conn'[d] = conn[d]
    BY <1>9 DEF ActorFinishes
  <2> QED BY <1>a, <2>1 DEF OnlyWaitersAreServed
<1>10. ASSUME AcceptorStops \/ ActorChangesNames \/ ActorHasNames \/ Handle
       PROVE  OnlyWaitersAreServed'
  <2>1. UNCHANGED <<inbox, conn>> /\ actor'.for = actor.for
    BY <1>10, <1>a DEF AcceptorStops, ActorChangesNames, ActorHasNames, Handle, StopNow,
                     BeginShutdown, WaitForDrain, Shutting, DrainExpires, FinishShutdown, tasks, actors
  <2> QED BY <1>0, <2>1
<1>11. CASE UNCHANGED vars
  BY <1>0, <1>11 DEF vars, tasks, actors
<1> QED
  BY <1>4, <1>5, <1>6, <1>7, <1>8, <1>9, <1>10, <1>11
  DEF Next, Running, Connection, Serve, Wind, Actor

-----------------------------------------------------------------------------
(* The wake-up of a shutdown *)

LEMMA WakeUpKept ==
    ListenerTypes /\ RequestsAddUp /\ NoLostWakeup /\ [Next]_vars => NoLostWakeup'
<1> SUFFICES ASSUME ListenerTypes, RequestsAddUp, NoLostWakeup, [Next]_vars
             PROVE  NoLostWakeup'
  OBVIOUS
<1>0. ASSUME UNCHANGED <<inflight, notifying, shut>> PROVE NoLostWakeup'
  BY <1>0 DEF NoLostWakeup
<1>1. ASSUME NEW c \in Conns, Dispatch(c) PROVE NoLostWakeup'
  <2>1. inflight' # 0
    BY <1>1 DEF Dispatch, Track, ListenerTypes
  <2> QED BY <2>1 DEF NoLostWakeup
<1>2. ASSUME NEW c \in Conns, Reply(c) \/ CancelFrame(c) PROVE NoLostWakeup'
  <2>1. DropGuard(c) /\ UNCHANGED shut
    BY <1>2 DEF Reply, CancelFrame, ending
  <2>2. /\ notifying \subseteq notifying'
        /\ inflight' = inflight \/ (inflight' = 0 => notifying' # {})
    BY <2>1, DropGuardCounts
  <2> QED BY <2>1, <2>2 DEF NoLostWakeup
<1>3. ASSUME NEW c \in Conns, Notify(c) PROVE NoLostWakeup'
  <2>1. CASE Armed
    BY <1>3, <2>1 DEF Notify, NoLostWakeup, ListenerTypes
  <2>2. CASE ~Armed
    BY <1>3, <2>2 DEF Notify, Armed, NoLostWakeup
  <2> QED BY <2>1, <2>2
<1>4. ASSUME NEW c \in Conns,
             \/ Accept(c) \/ Refuse(c) \/ Admission(c) \/ ReadFrame(c) \/ AskTimesOut(c)
             \/ StopReading(c) \/ Join(c) \/ Writer(c) \/ Revoke(c) \/ ActorStreams(c)
      PROVE  NoLostWakeup'
  BY <1>0, <1>4 DEF Accept, Refuse, Admission, ReadFrame, AskTimesOut, StopReading, Join, Writer,
                    WriterCancelled, WriterTakes, WriterWrites, Revoke, ActorStreams, drain, ending
<1>5. ASSUME AcceptorStops \/ Actor \/ ActorHasNames \/ StopNow PROVE NoLostWakeup'
  BY <1>0, <1>5 DEF AcceptorStops, Actor, ActorTakes, ActorFinishes, ActorChangesNames, ActorHasNames,
                    StopNow, drain, ending
(* The waiter itself goes to wait only where the count is not 0. *)
<1>6. ASSUME BeginShutdown \/ WaitForDrain \/ DrainExpires \/ FinishShutdown PROVE NoLostWakeup'
  <2>1. shut'.at = "waiting" => inflight' # 0
    BY <1>6 DEF BeginShutdown, WaitForDrain, DrainExpires, FinishShutdown, Shutting, ListenerTypes, drain
  <2> QED BY <2>1 DEF NoLostWakeup
<1>7. CASE UNCHANGED vars
  BY <1>0, <1>7 DEF vars, drain, ending
<1> QED
  BY <1>1, <1>2, <1>3, <1>4, <1>5, <1>6, <1>7
  DEF Next, Running, Connection, Serve, Wind, Handle

-----------------------------------------------------------------------------
LEMMA ListenerInvAtStart == Init => ListenerInv
<1> SUFFICES ASSUME Init PROVE ListenerInv
  OBVIOUS
<1>1. ListenerTypes
  BY TypesAtStart
<1>2. PermitsAddUp
  <2>1. Holders(conn) = {}
    BY DEF Init, Holders, Connected
  <2>2. Cardinality(Holders(conn)) = 0
    BY <2>1, FS_EmptySet
  <2>3. limit \in Nat /\ permits = limit
    BY <1>1, ListenerAssumption DEF Init
  <2> QED BY <2>2, <2>3 DEF PermitsAddUp
<1>3. RequestsAddUp
  BY FS_EmptySet DEF Init, RequestsAddUp
<1>4. OnlyWaitersAreServed
  BY DEF Init, OnlyWaitersAreServed, Nobody, Conns
<1>5. NoLostWakeup
  BY DEF Init, NoLostWakeup
<1> QED BY <1>1, <1>2, <1>3, <1>4, <1>5 DEF ListenerInv

LEMMA ListenerInvKept == ListenerInv /\ [Next]_vars => ListenerInv'
BY TypesKept, PermitsKept, RequestsKept, WaitersKept, WakeUpKept DEF ListenerInv

LEMMA ListenerInvHolds == Spec => []ListenerInv
BY ListenerInvAtStart, ListenerInvKept, PTL DEF Spec

LEMMA ListenerInvSuffices == ListenerInv => ListenerIsConsistent
<1> SUFFICES ASSUME ListenerInv PROVE ListenerIsConsistent
  OBVIOUS
<1>1. ListenerTypes /\ PermitsAddUp /\ RequestsAddUp /\ NoLostWakeup
  BY DEF ListenerInv
<1>2. PICK n \in Nat : n = Cardinality(Holders(conn))
  BY HoldersAreCounted
<1>3. permits + n = limit /\ permits \in Nat
  BY <1>1, <1>2 DEF PermitsAddUp, ListenerTypes
<1>4. permits \in 0..limit
  BY <1>2, <1>3
<1>5. ListenerTypeOK
  BY <1>1, <1>4 DEF ListenerTypes, ListenerTypeOK, Places, Commands
<1>6. Holders(conn) = {c \in Conns : conn[c] \in Connected}
  BY DEF Holders
<1>7. permits + Cardinality({c \in Conns : conn[c] \in Connected}) = limit
  BY <1>2, <1>3, <1>6
<1>8. guarded \subseteq {c \in Conns : conn[c] \in {"asking", "streaming", "replying"}}
  BY <1>1 DEF RequestsAddUp, Waits, ListenerTypes
<1>9. NothingLeaks
  BY <1>1, <1>7, <1>8 DEF NothingLeaks, RequestsAddUp
<1> QED BY <1>1, <1>5, <1>9 DEF ListenerIsConsistent

(* The listener's accounts hold in every reachable state: every permit is  *)
(* free or one connection's, the count in flight is the number of guards,  *)
(* held by connections with a request, and a shutdown that waits for a     *)
(* count of 0 is woken (the guards of listener.rs, wait_for_drain).        *)
THEOREM ListenerHolds == Spec => []ListenerIsConsistent
BY ListenerInvHolds, ListenerInvSuffices, PTL
=============================================================================
