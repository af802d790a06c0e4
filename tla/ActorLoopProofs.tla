--------------------------- MODULE ActorLoopProofs ---------------------------
(***************************************************************************)
(* Theorems about ActorLoop, for any number of messages, any capacity of   *)
(* the inbox and any high-water mark, whichever way the crate is built:    *)
(* handlers never overlap more than they may, what the loop owes is done   *)
(* before the actor is gone, a revoked connection starts no handler, and   *)
(* an answer proves what was handled before it.                            *)
(***************************************************************************)
EXTENDS ActorLoop, FiniteSetTheorems, TLAPS

(* Where the loop stands determines what it holds: a message of its own    *)
(* only in a handler or on the way to one, and nothing once it has left.   *)
LoopIsWhereItSays ==
    /\ at \in {"select", "flushing", "cleaning", "gone"} => now = None
    /\ at \in {"select", "mutating", "stopping", "cleaning", "gone"} => then = Select
    /\ at \in {"erring", "mutating", "stopping"} => now \in Message
    /\ then.to \in {"mutate", "stop"} => then.m \in Message
    /\ then.to \in {"select", "leave"} => then.m = None
    /\ at \in {"cleaning", "gone"} => ~open
    /\ reason = "Panic" => at \in {"cleaning", "gone"}

(* The loop never waits for a message with a full batch.                   *)
SelectHasRoom == at = "select" => Cardinality(batch) < HighWater

(* Every message taken is handled, in the batch, failed, in hand or next.  *)
TakenIsAccounted ==
    reason # "Panic" =>
        \A i \in 1..taken :
            order[i] \in done \union batch \union errors \union {now, then.m}

(* Without a cancellation or a panic the loop leaves a closed, empty inbox.*)
LeavesAnEmptyInbox ==
    then.to = "leave" \/ at \in {"cleaning", "gone"} =>
        cancelled \/ reason = "Panic" \/ (~open /\ taken = Len(order))

ActorInv ==
    /\ HandlersDoNotClash /\ FailuresAreHeard
    /\ LoopIsWhereItSays /\ SelectHasRoom /\ TakenIsAccounted /\ LeavesAnEmptyInbox

-----------------------------------------------------------------------------
(* Every step is one of these.                                             *)
SendStep(m, o) == StartAsk(m) \/ FutureAsks(m, o) \/ Deliver(m)
OutcomeStep(m) ==
    \/ Refused(m) \/ NoReply(m) \/ TimesOut(m) \/ HandlerAnswers(m)
    \/ HandlerSpawns(m) \/ HandlerStores(m) \/ HandlerAnswersStored(m) \/ SpawnedEnds(m)
FlushStep == FlushTimer \/ InboxEnds \/ CancelSeen
MessageStep(m) == TakeMessage(m)
DriveStep(m) == FutureEnds(m) \/ ErrorHandlerStarts(m)
HandleStep ==
    ErrorHandlerEnds \/ FlushEnds \/ MutateStarts \/ MutateEnds \/ BeforeStop \/ StopTaken
EndStep == Leave \/ Panics \/ Gone
WorldStep == Cancel \/ Revoke

LEMMA Steps ==
    ASSUME Next
    PROVE  \/ \E m, o \in Message : SendStep(m, o)
           \/ \E m \in Message : OutcomeStep(m) \/ MessageStep(m) \/ DriveStep(m)
           \/ FlushStep \/ HandleStep \/ EndStep \/ WorldStep
BY DEF Next, CallerStep, Deadline, LoopStep, HandlerStep, FutureStep, SpawnedStep,
       SendStep, OutcomeStep, FlushStep, MessageStep, DriveStep, HandleStep, EndStep, WorldStep

(* The type invariant by groups of variables.                              *)
CallersTyped ==
    /\ kind \in [Message -> Kinds \union {"none"}]
    /\ call \in [Message -> {"none", "sending", "sent", "waiting", "answered",
                             "unanswered", "refused", "timedOut"}]
    /\ nested \in [Message -> {None} \union Message]
InboxTyped ==
    /\ order \in Seq(Message)
    /\ taken \in 0..Len(order) /\ Len(order) - taken <= InboxCap
    /\ open \in BOOLEAN
LoopTyped ==
    /\ at \in {"select", "flushing", "erring", "mutating", "stopping", "cleaning", "gone"}
    /\ now \in {None} \union Message
    /\ then \in [to : {"select", "mutate", "stop", "leave"}, m : {None} \union Message]
    /\ reason \in {"none", "Normal", "ParentShutdown", "InboxClosed", "Panic"}
    /\ revoked \in BOOLEAN /\ cancelled \in BOOLEAN
WorkTyped ==
    /\ batch \in SUBSET Message /\ errors \in SUBSET Message /\ done \in SUBSET Message
    /\ stored \in SUBSET Message /\ spawned \in SUBSET Message

LEMMA TypeInParts ==
    ActorTypeOK <=> /\ CallersTyped /\ InboxTyped /\ LoopTyped /\ WorkTyped
                    /\ Cardinality(batch) <= HighWater
BY DEF ActorTypeOK, CallersTyped, InboxTyped, LoopTyped, WorkTyped

LEMMA BatchFacts ==
    ASSUME ActorTypeOK
    PROVE  /\ IsFiniteSet(batch) /\ Cardinality(batch) \in Nat
           /\ \A m : /\ Cardinality(batch \union {m}) <= Cardinality(batch) + 1
                     /\ Cardinality(batch \union {m}) \in Nat
                     /\ Cardinality(batch \ {m}) <= Cardinality(batch)
                     /\ Cardinality(batch \ {m}) \in Nat
           /\ Cardinality({}) = 0
<1>1. IsFiniteSet(Message)
  BY ActorAssumption, FS_Interval DEF Message
<1>2. batch \subseteq Message
  BY DEF ActorTypeOK
<1>3. IsFiniteSet(batch) /\ Cardinality(batch) \in Nat
  BY <1>1, <1>2, FS_Subset, FS_CardinalityType
<1>4. Cardinality({}) = 0
  BY FS_EmptySet
<1>5. ASSUME NEW m
      PROVE  /\ Cardinality(batch \union {m}) <= Cardinality(batch) + 1
             /\ Cardinality(batch \union {m}) \in Nat
             /\ Cardinality(batch \ {m}) <= Cardinality(batch)
             /\ Cardinality(batch \ {m}) \in Nat
  <2>1. /\ IsFiniteSet(batch \union {m})
        /\ Cardinality(batch \union {m}) \in {Cardinality(batch), Cardinality(batch) + 1}
    BY <1>3, FS_AddElement
  <2>2. /\ IsFiniteSet(batch \ {m})
        /\ Cardinality(batch \ {m}) \in {Cardinality(batch), Cardinality(batch) - 1}
    BY <1>3, FS_RemoveElement
  <2>3. Cardinality(batch \union {m}) \in Nat /\ Cardinality(batch \ {m}) \in Nat
    BY <2>1, <2>2, FS_CardinalityType
  <2>4. QED
    BY <1>3, <2>1, <2>2, <2>3
<1>6. QED
  BY <1>3, <1>4, <1>5

-----------------------------------------------------------------------------
(* The initial state.                                                      *)
LEMMA InitSatisfies ==
    ASSUME Init
    PROVE  ActorInv
<1>1. Cardinality({}) = 0
  BY FS_EmptySet
<1>2. HighWater \in Nat \ {0} /\ MaxSends \in Nat \ {0} /\ InboxCap \in Nat \ {0}
  BY ActorAssumption
<1>3. ActorTypeOK
  <2>1. CallersTyped
    BY DEF Init, CallersTyped
  <2>2. InboxTyped
    BY <1>2 DEF Init, InboxTyped
  <2>3. LoopTyped /\ WorkTyped
    BY DEF Init, LoopTyped, WorkTyped, Select
  <2>4. QED
    BY <1>1, <1>2, <2>1, <2>2, <2>3, TypeInParts DEF Init
<1>4. QED
  BY <1>1, <1>2, <1>3
  DEF Init, ActorInv, HandlersDoNotClash, MutationsAreAlone, FailuresAreHeard, LoopIsWhereItSays,
      SelectHasRoom, TakenIsAccounted, LeavesAnEmptyInbox, Select

-----------------------------------------------------------------------------
(* What the groups of steps leave alone.                                   *)

(* An outcome touches the senders and the envelopes only.                  *)
LEMMA OutcomeLeaves ==
    ASSUME NEW m, OutcomeStep(m)
    PROVE  UNCHANGED <<inbox, loop, work, world>>
BY DEF OutcomeStep, Refused, NoReply, TimesOut, HandlerAnswers, HandlerSpawns, HandlerStores,
       HandlerAnswersStored, SpawnedEnds, inbox, loop, work, world

(* So does a sender whose message the inbox accepts, but for the message.  *)
LEMMA SendAccepts ==
    ASSUME NEW m \in Message, NEW o \in Message, SendStep(m, o)
    PROVE  /\ UNCHANGED <<taken, open, loop, work, addresses, world>>
           /\ \/ UNCHANGED order
              \/ open /\ Room /\ \E p \in Message : order' = Append(order, p)
BY DEF SendStep, StartAsk, FutureAsks, Send, Deliver, Accepted

(* The loop does not touch the senders, but for a panic.                   *)
LEMMA LoopLeavesCallers ==
    ASSUME \/ \E m \in Message : MessageStep(m) \/ DriveStep(m)
           \/ FlushStep \/ HandleStep \/ Leave \/ Gone \/ WorldStep
    PROVE  UNCHANGED callers
BY DEF MessageStep, TakeMessage, Takes, TakeNothing, TakeMutate, TakeRead, TakeReadSync, TakeStop,
       DriveStep, FutureEnds, ErrorHandlerStarts, FlushStep, FlushTimer, InboxEnds, CancelSeen,
       HandleStep, ErrorHandlerEnds, FlushEnds, MutateStarts, MutateEnds, BeforeStop, StopTaken,
       Leave, Gone, WorldStep, Cancel, Revoke, callers

(* Nor does it put anything into the inbox.                                *)
LEMMA LoopLeavesOrder ==
    ASSUME \/ \E m \in Message : MessageStep(m) \/ DriveStep(m)
           \/ FlushStep \/ HandleStep \/ EndStep \/ WorldStep
    PROVE  UNCHANGED order /\ (open' = open \/ open' = FALSE)
BY DEF MessageStep, TakeMessage, Takes, TakeNothing, TakeMutate, TakeRead, TakeReadSync, TakeStop,
       DriveStep, FutureEnds, ErrorHandlerStarts, FlushStep, FlushTimer, InboxEnds, CancelSeen,
       HandleStep, ErrorHandlerEnds, FlushEnds, MutateStarts, MutateEnds, BeforeStop, StopTaken,
       EndStep, Leave, Panics, Unwind, Leaves, Gone, WorldStep, Cancel, Revoke, inbox

LEMMA CallersStayTyped ==
    ASSUME ActorTypeOK, Next
    PROVE  CallersTyped'
<1>1. CallersTyped
  BY TypeInParts
<1>2. ASSUME NEW m \in Message, NEW o \in Message, SendStep(m, o)
      PROVE  CallersTyped'
  <2>1. ASSUME NEW p \in Message, NEW f \in {None} \union Message, NEW k \in Kinds, Send(p, k, f)
        PROVE  CallersTyped'
    BY <1>1, <2>1 DEF Send, Accepted, CallersTyped
  <2>2. CASE StartAsk(m)
    BY <2>1, <2>2 DEF StartAsk
  <2>3. CASE FutureAsks(m, o)
    BY <2>1, <2>3 DEF FutureAsks
  <2>4. CASE Deliver(m)
    BY <2>4, <1>1 DEF Deliver, Accepted, CallersTyped
  <2>5. QED
    BY <1>2, <2>2, <2>3, <2>4 DEF SendStep
<1>3. ASSUME NEW m \in Message, OutcomeStep(m)
      PROVE  CallersTyped'
  BY <1>1, <1>3 DEF OutcomeStep, Refused, NoReply, TimesOut, HandlerAnswers, HandlerSpawns,
       HandlerStores, HandlerAnswersStored, SpawnedEnds, Answered, CallersTyped, callers
<1>4. CASE Panics
  BY <1>1, <1>4 DEF Panics, Unwind, CallersTyped
<1>5. CASE UNCHANGED callers
  BY <1>1, <1>5 DEF CallersTyped, callers
<1>6. QED
  BY Steps, LoopLeavesCallers, <1>2, <1>3, <1>4, <1>5 DEF EndStep

LEMMA InboxStaysTyped ==
    ASSUME ActorTypeOK, Next
    PROVE  InboxTyped'
<1>1. InboxTyped /\ InboxCap \in Nat
  BY TypeInParts, ActorAssumption
<1>2. ASSUME NEW m \in Message, NEW o \in Message, SendStep(m, o)
      PROVE  InboxTyped'
  <2>1. UNCHANGED <<taken, open>>
    BY <1>2, SendAccepts
  <2>2. CASE UNCHANGED order
    BY <1>1, <2>1, <2>2 DEF InboxTyped
  <2>3. ASSUME NEW p \in Message, Room, order' = Append(order, p)
        PROVE  InboxTyped'
    <3>1. order' \in Seq(Message) /\ Len(order') = Len(order) + 1
      BY <1>1, <2>3 DEF InboxTyped
    <3>2. QED
      BY <1>1, <2>1, <2>3, <3>1 DEF InboxTyped, Room
  <2>4. QED
    BY <1>2, <2>2, <2>3, SendAccepts
<1>3. ASSUME NEW m \in Message, MessageStep(m)
      PROVE  InboxTyped'
  BY <1>1, <1>3 DEF MessageStep, TakeMessage, Takes, TakeNothing, TakeMutate, TakeRead,
       TakeReadSync, TakeStop, InboxTyped
<1>4. CASE UNCHANGED taken /\ UNCHANGED order /\ (open' = open \/ open' = FALSE)
  BY <1>1, <1>4 DEF InboxTyped
<1>5. ASSUME NEW m \in Message, DriveStep(m)
      PROVE  UNCHANGED taken
  BY <1>5 DEF DriveStep, FutureEnds, ErrorHandlerStarts, inbox
<1>6. ASSUME FlushStep \/ HandleStep \/ EndStep \/ WorldStep
      PROVE  UNCHANGED taken
  BY <1>6 DEF FlushStep, FlushTimer, InboxEnds, CancelSeen,
       HandleStep, ErrorHandlerEnds, FlushEnds, MutateStarts, MutateEnds, BeforeStop, StopTaken,
       EndStep, Leave, Panics, Unwind, Leaves, Gone, WorldStep, Cancel, Revoke, inbox
<1>7. ASSUME NEW m \in Message, OutcomeStep(m)
      PROVE  UNCHANGED inbox
  BY <1>7, OutcomeLeaves
<1>8. QED
  BY Steps, LoopLeavesOrder, <1>2, <1>3, <1>4, <1>5, <1>6, <1>7 DEF inbox

LEMMA LoopStaysTyped ==
    ASSUME ActorTypeOK, Next
    PROVE  LoopTyped'
<1>1. LoopTyped
  BY TypeInParts
<1>2. ASSUME UNCHANGED <<loop, world>>
      PROVE  LoopTyped'
  BY <1>1, <1>2 DEF LoopTyped, loop, world
<1>3. ASSUME NEW m \in Message, MessageStep(m)
      PROVE  LoopTyped'
  BY <1>1, <1>3 DEF MessageStep, TakeMessage, Takes, TakeNothing, TakeMutate, TakeRead,
       TakeReadSync, TakeStop, Flush, LoopTyped, loop, world
<1>4. ASSUME NEW m \in Message, DriveStep(m)
      PROVE  LoopTyped'
  BY <1>1, <1>4 DEF DriveStep, FutureEnds, ErrorHandlerStarts, LoopTyped, loop, world
<1>5. CASE FlushStep
  BY <1>1, <1>5 DEF FlushStep, FlushTimer, InboxEnds, CancelSeen, Flush, LoopTyped, world
<1>6. CASE HandleStep
  BY <1>1, <1>6 DEF HandleStep, ErrorHandlerEnds, FlushEnds, MutateStarts, MutateEnds, BeforeStop,
       StopTaken, StopReason, Flush, Select, LoopTyped, world
<1>7. CASE EndStep
  BY <1>1, <1>7 DEF EndStep, Leave, Panics, Unwind, Leaves, Gone, Select, LoopTyped, world
<1>8. CASE WorldStep
  BY <1>1, <1>8 DEF WorldStep, Cancel, Revoke, LoopTyped, loop
<1>9. QED
  BY Steps, SendAccepts, OutcomeLeaves, <1>2, <1>3, <1>4, <1>5, <1>6, <1>7, <1>8

LEMMA WorkStaysTyped ==
    ASSUME ActorTypeOK, LoopIsWhereItSays, Next
    PROVE  WorkTyped'
<1>1. WorkTyped /\ LoopTyped
  BY TypeInParts
<1>2. ASSUME NEW m \in Message, NEW o \in Message, SendStep(m, o)
      PROVE  WorkTyped'
  BY <1>1, <1>2, SendAccepts DEF WorkTyped, work, addresses
<1>3. ASSUME NEW m \in Message, OutcomeStep(m)
      PROVE  WorkTyped'
  BY <1>1, <1>3 DEF OutcomeStep, Refused, NoReply, TimesOut, HandlerAnswers, HandlerSpawns,
       HandlerStores, HandlerAnswersStored, SpawnedEnds, WorkTyped, work, addresses
<1>4. ASSUME NEW m \in Message, MessageStep(m)
      PROVE  WorkTyped'
  BY <1>1, <1>4 DEF MessageStep, TakeMessage, Takes, TakeNothing, TakeMutate, TakeRead,
       TakeReadSync, TakeStop, WorkTyped, work
<1>5. ASSUME NEW m \in Message, DriveStep(m)
      PROVE  WorkTyped'
  BY <1>1, <1>5 DEF DriveStep, FutureEnds, ErrorHandlerStarts, WorkTyped, addresses
<1>6. CASE FlushStep \/ WorldStep
  BY <1>1, <1>6 DEF FlushStep, FlushTimer, InboxEnds, CancelSeen, WorldStep, Cancel, Revoke,
       WorkTyped, work, addresses
<1>7. CASE HandleStep
  BY <1>1, <1>7 DEF HandleStep, ErrorHandlerEnds, FlushEnds, MutateStarts, MutateEnds, BeforeStop,
       StopTaken, LoopIsWhereItSays, WorkTyped, work, addresses
<1>8. CASE EndStep
  BY <1>1, <1>8 DEF EndStep, Leave, Panics, Unwind, Gone, WorkTyped, work, addresses
<1>9. QED
  BY Steps, <1>2, <1>3, <1>4, <1>5, <1>6, <1>7, <1>8

LEMMA LoopStaysWhereItSays ==
    ASSUME ActorTypeOK, LoopIsWhereItSays, Next
    PROVE  LoopIsWhereItSays'
<1>1. LoopTyped /\ InboxTyped
  BY TypeInParts
<1>2. CASE UNCHANGED <<open, loop>>
  BY <1>2 DEF LoopIsWhereItSays, loop, Select
<1>3. ASSUME NEW m \in Message, MessageStep(m)
      PROVE  LoopIsWhereItSays'
  BY <1>3 DEF MessageStep, TakeMessage, Takes, TakeNothing, TakeMutate, TakeRead,
       TakeReadSync, TakeStop, Flush, LoopIsWhereItSays, Select, None, loop
<1>4. ASSUME NEW m \in Message, DriveStep(m)
      PROVE  LoopIsWhereItSays'
  BY <1>4 DEF DriveStep, FutureEnds, ErrorHandlerStarts, LoopIsWhereItSays, Select, loop, inbox
<1>5. CASE FlushStep
  BY <1>5 DEF FlushStep, FlushTimer, InboxEnds, CancelSeen, Flush, LoopIsWhereItSays, Select, inbox
<1>6. CASE HandleStep
  <2>1. CASE ErrorHandlerEnds
    BY <2>1 DEF ErrorHandlerEnds, LoopIsWhereItSays, Select, inbox
  <2>2. CASE FlushEnds
    BY <2>2 DEF FlushEnds, Flushed, LoopIsWhereItSays, Select, inbox
  <2>3. CASE MutateStarts \/ BeforeStop
    BY <2>3 DEF MutateStarts, BeforeStop, Flushed, LoopIsWhereItSays, Select, inbox
  <2>4. CASE MutateEnds
    BY <2>4 DEF MutateEnds, Flush, LoopIsWhereItSays, Select, inbox
  <2>5. CASE StopTaken
    BY <2>5 DEF StopTaken, StopReason, LoopIsWhereItSays, Select
  <2>6. QED
    BY <1>6, <2>1, <2>2, <2>3, <2>4, <2>5 DEF HandleStep
<1>7. CASE EndStep
  BY <1>7 DEF EndStep, Leave, Panics, Unwind, Leaves, Gone, LoopIsWhereItSays, Select, inbox
<1>8. CASE WorldStep
  BY <1>2, <1>8 DEF WorldStep, Cancel, Revoke, inbox
<1>9. QED
  BY Steps, SendAccepts, OutcomeLeaves, <1>2, <1>3, <1>4, <1>5, <1>6, <1>7, <1>8 DEF inbox

(* What happens to the batch, and where.                                   *)
BatchIsBounded == Cardinality(batch) <= HighWater

LEMMA BatchStaysBounded ==
    ASSUME ActorTypeOK, MutationsAreAlone, SelectHasRoom, Next
    PROVE  BatchIsBounded' /\ SelectHasRoom'
<1>1. /\ Cardinality(batch) \in Nat /\ Cardinality(batch) <= HighWater
      /\ HighWater \in Nat \ {0} /\ Cardinality({}) = 0
  BY BatchFacts, ActorAssumption DEF ActorTypeOK
<1>2. CASE UNCHANGED batch /\ (at' # "select" \/ at = "select")
  BY <1>1, <1>2 DEF BatchIsBounded, SelectHasRoom
<1>3. CASE batch' = {}
  BY <1>1, <1>3 DEF BatchIsBounded, SelectHasRoom
<1>4. ASSUME NEW m \in Message, MessageStep(m)
      PROVE  BatchIsBounded' /\ SelectHasRoom'
  <2>1. CASE TakeRead(m)
    <3>1. at = "select" /\ batch' = batch \union {m}
      BY <2>1 DEF TakeRead, Takes
    <3>2. Cardinality(batch') \in Nat /\ Cardinality(batch') <= Cardinality(batch) + 1
      BY <3>1, BatchFacts
    <3>3. Cardinality(batch') < HighWater \/ at' = "flushing"
      BY <1>1, <2>1, <3>2 DEF TakeRead, Flush
    <3>4. QED
      BY <1>1, <3>1, <3>2, <3>3 DEF BatchIsBounded, SelectHasRoom
  <2>2. CASE TakeNothing(m) \/ TakeMutate(m) \/ TakeReadSync(m) \/ TakeStop(m)
    BY <1>2, <2>2 DEF TakeNothing, TakeMutate, TakeReadSync, TakeStop, Takes, work, loop
  <2>3. QED
    BY <1>4, <2>1, <2>2 DEF MessageStep, TakeMessage
<1>5. ASSUME NEW m \in Message, DriveStep(m)
      PROVE  BatchIsBounded' /\ SelectHasRoom'
  <2>1. CASE FutureEnds(m)
    <3>1. at = "flushing" /\ at' = at /\ batch' = batch \ {m}
      BY <2>1 DEF FutureEnds, loop
    <3>2. Cardinality(batch') \in Nat /\ Cardinality(batch') <= Cardinality(batch)
      BY <3>1, BatchFacts
    <3>3. QED
      BY <1>1, <3>1, <3>2 DEF BatchIsBounded, SelectHasRoom
  <2>2. CASE ErrorHandlerStarts(m)
    BY <1>2, <2>2 DEF ErrorHandlerStarts
  <2>3. QED
    BY <1>5, <2>1, <2>2 DEF DriveStep
<1>6. CASE FlushStep \/ WorldStep
  BY <1>2, <1>6 DEF FlushStep, FlushTimer, InboxEnds, CancelSeen, Flush, WorldStep, Cancel, Revoke,
       work, loop
<1>7. CASE HandleStep
  <2>1. batch = {} \/ at' # "select"
    BY <1>7 DEF HandleStep, ErrorHandlerEnds, FlushEnds, Flushed, MutateStarts, MutateEnds,
         BeforeStop, StopTaken, MutationsAreAlone
  <2>2. UNCHANGED batch
    BY <1>7 DEF HandleStep, ErrorHandlerEnds, FlushEnds, MutateStarts, MutateEnds, BeforeStop,
         StopTaken, work
  <2>3. QED
    BY <1>2, <1>3, <2>1, <2>2
<1>8. CASE EndStep
  BY <1>2, <1>3, <1>8 DEF EndStep, Leave, Leaves, Panics, Unwind, Gone, work
<1>9. ASSUME UNCHANGED <<loop, work>>
      PROVE  BatchIsBounded' /\ SelectHasRoom'
  BY <1>2, <1>9 DEF loop, work
<1>10. QED
  BY Steps, SendAccepts, OutcomeLeaves, <1>4, <1>5, <1>6, <1>7, <1>8, <1>9

(* What runs alone, and what a loop that leaves has finished.              *)
LEMMA HandlersStayAlone ==
    ASSUME MutationsAreAlone, FailuresAreHeard, LoopIsWhereItSays, Next
    PROVE  MutationsAreAlone' /\ FailuresAreHeard'
<1>1. CASE UNCHANGED <<loop, work>>
  BY <1>1 DEF MutationsAreAlone, FailuresAreHeard, loop, work
<1>2. ASSUME NEW m \in Message, MessageStep(m)
      PROVE  at' \in {"select", "flushing"}
  BY <1>2 DEF MessageStep, TakeMessage, Takes, TakeNothing, TakeMutate, TakeRead, TakeReadSync,
       TakeStop, Flush, loop
<1>3. ASSUME NEW m \in Message, DriveStep(m)
      PROVE  MutationsAreAlone' /\ FailuresAreHeard'
  BY <1>3 DEF DriveStep, FutureEnds, ErrorHandlerStarts, MutationsAreAlone, FailuresAreHeard, loop
<1>4. CASE FlushStep
  BY <1>4 DEF FlushStep, FlushTimer, InboxEnds, CancelSeen, Flush, MutationsAreAlone, FailuresAreHeard
<1>5. CASE HandleStep
  BY <1>5 DEF HandleStep, ErrorHandlerEnds, FlushEnds, MutateStarts, MutateEnds, BeforeStop,
       StopTaken, Flush, Flushed, work, MutationsAreAlone, FailuresAreHeard
<1>6. CASE EndStep
  BY <1>6 DEF EndStep, Leave, Panics, Unwind, Leaves, Gone, Flushed, work,
       MutationsAreAlone, FailuresAreHeard
<1>7. CASE WorldStep
  BY <1>1, <1>7 DEF WorldStep, Cancel, Revoke
<1>8. QED
  BY Steps, SendAccepts, OutcomeLeaves, <1>1, <1>2, <1>3, <1>4, <1>5, <1>6, <1>7
  DEF MutationsAreAlone, FailuresAreHeard

-----------------------------------------------------------------------------
(* The loop loses no message.                                              *)
Accounted(x) == x \in done \union batch \union errors \union {now, then.m}

(* A message the loop answers for it goes on answering for.                *)
LEMMA NothingIsDropped ==
    ASSUME ActorTypeOK, MutationsAreAlone, LoopIsWhereItSays, Next,
           NEW x \in Message, Accounted(x)
    PROVE  reason' = "Panic" \/ Accounted(x)'
<1>1. x # None
  BY ActorAssumption DEF Message, None
<1>2. CASE UNCHANGED <<loop, work>>
  BY <1>2 DEF Accounted, loop, work
<1>3. ASSUME NEW m \in Message, MessageStep(m)
      PROVE  Accounted(x)'
  <2>1. at = "select" /\ now = None /\ then.m = None
    BY <1>3 DEF MessageStep, TakeMessage, Takes, TakeNothing, TakeMutate, TakeRead,
         TakeReadSync, TakeStop, LoopIsWhereItSays, Select
  <2>2. x \in done \union batch \union errors
    BY <1>1, <2>1 DEF Accounted
  <2>3. QED
    BY <1>3, <2>2 DEF MessageStep, TakeMessage, TakeNothing, TakeMutate, TakeRead,
         TakeReadSync, TakeStop, Accounted, work
<1>4. ASSUME NEW m \in Message, DriveStep(m)
      PROVE  Accounted(x)'
  BY <1>1, <1>4 DEF DriveStep, FutureEnds, ErrorHandlerStarts, LoopIsWhereItSays, Accounted, loop
<1>5. CASE FlushStep
  BY <1>1, <1>5 DEF FlushStep, FlushTimer, InboxEnds, CancelSeen, Flush, Select,
       LoopIsWhereItSays, Accounted, work
<1>6. CASE HandleStep
  <2>1. CASE ErrorHandlerEnds
    BY <1>1, <2>1 DEF ErrorHandlerEnds, Accounted
  <2>2. CASE FlushEnds
    BY <1>1, <2>2, TypeInParts DEF FlushEnds, Flushed, LoopIsWhereItSays, LoopTyped, Select, Accounted
  <2>3. CASE MutateStarts \/ BeforeStop
    BY <1>1, <2>3 DEF MutateStarts, BeforeStop, Flushed, LoopIsWhereItSays, Accounted, work
  <2>4. CASE MutateEnds
    BY <1>1, <2>4 DEF MutateEnds, Flush, LoopIsWhereItSays, MutationsAreAlone, Select, Accounted
  <2>5. CASE StopTaken
    BY <1>1, <2>5 DEF StopTaken, LoopIsWhereItSays, Select, Accounted
  <2>6. QED
    BY <1>6, <2>1, <2>2, <2>3, <2>4, <2>5 DEF HandleStep
<1>7. CASE EndStep
  BY <1>1, <1>7 DEF EndStep, Leave, Panics, Unwind, Leaves, Gone, Flushed, LoopIsWhereItSays,
       Select, Accounted, work
<1>8. CASE WorldStep
  BY <1>2, <1>8 DEF WorldStep, Cancel, Revoke
<1>9. QED
  BY Steps, SendAccepts, OutcomeLeaves, <1>2, <1>3, <1>4, <1>5, <1>6, <1>7, <1>8

(* The message taken is answered for from the start.                       *)
LEMMA TakenIsAdded ==
    ASSUME NEW m \in Message, MessageStep(m)
    PROVE  m = order[taken + 1] /\ taken' = taken + 1 /\ Accounted(m)'
BY DEF MessageStep, TakeMessage, Takes, TakeNothing, TakeMutate, TakeRead, TakeReadSync, TakeStop,
       Flush, Accounted

LEMMA OnlyTakingTakes ==
    ASSUME Next, ~\E m \in Message : MessageStep(m)
    PROVE  UNCHANGED taken
BY Steps, SendAccepts, OutcomeLeaves
DEF DriveStep, FutureEnds, ErrorHandlerStarts, FlushStep, FlushTimer, InboxEnds, CancelSeen,
    HandleStep, ErrorHandlerEnds, FlushEnds, MutateStarts, MutateEnds, BeforeStop, StopTaken,
    EndStep, Leave, Panics, Unwind, Leaves, Gone, WorldStep, Cancel, Revoke, inbox

LEMMA OrderOnlyGrows ==
    ASSUME ActorTypeOK, Next
    PROVE  /\ Len(order) <= Len(order') /\ Len(order') \in Nat
           /\ \A i \in 1..Len(order) : order'[i] = order[i]
<1>1. order \in Seq(Message)
  BY DEF ActorTypeOK
<1>2. CASE UNCHANGED order
  BY <1>1, <1>2
<1>3. ASSUME NEW p \in Message, order' = Append(order, p)
      PROVE  /\ Len(order) <= Len(order') /\ Len(order') \in Nat
             /\ \A i \in 1..Len(order) : order'[i] = order[i]
  BY <1>1, <1>3
<1>4. QED
  BY Steps, SendAccepts, OutcomeLeaves, LoopLeavesOrder, <1>2, <1>3 DEF inbox

LEMMA PanicsLast ==
    ASSUME LoopIsWhereItSays, reason = "Panic", Next
    PROVE  reason' = "Panic"
BY Steps, SendAccepts, OutcomeLeaves
DEF LoopIsWhereItSays, MessageStep, TakeMessage, Takes, TakeNothing, TakeMutate, TakeRead,
    TakeReadSync, TakeStop, DriveStep, FutureEnds, ErrorHandlerStarts, FlushStep, FlushTimer,
    InboxEnds, CancelSeen, HandleStep, ErrorHandlerEnds, FlushEnds, Flushed, MutateStarts,
    MutateEnds, BeforeStop, StopTaken, EndStep, Leave, Panics, Unwind, Leaves, Gone,
    WorldStep, Cancel, Revoke, loop

LEMMA TakenStaysAccounted ==
    ASSUME ActorTypeOK, MutationsAreAlone, LoopIsWhereItSays, TakenIsAccounted, Next
    PROVE  TakenIsAccounted'
<1> SUFFICES ASSUME reason' # "Panic", NEW i \in 1..taken'
             PROVE  Accounted(order[i])'
  BY DEF TakenIsAccounted, Accounted
<1>1. /\ order \in Seq(Message) /\ taken \in 0..Len(order)
      /\ order' \in Seq(Message) /\ taken' \in 0..Len(order')
  BY InboxStaysTyped DEF InboxTyped, ActorTypeOK
<1>2. CASE i \in 1..taken
  <2>1. order[i] \in Message /\ order'[i] = order[i]
    BY <1>1, <1>2, OrderOnlyGrows
  <2>2. Accounted(order[i])
    BY <1>2, PanicsLast DEF TakenIsAccounted, Accounted
  <2> DEFINE x == order[i]
  <2>3. x \in Message /\ Accounted(x)
    BY <2>1, <2>2
  <2>4. order'[i] = x
    BY <2>1
  <2> HIDE DEF x
  <2>5. order'[i] \in done' \union batch' \union errors' \union {now', then'.m}
    BY <2>3, <2>4, NothingIsDropped DEF Accounted
  <2>6. QED
    BY <2>5 DEF Accounted
<1>3. CASE i \notin 1..taken
  <2>1. PICK m \in Message : MessageStep(m)
    BY <1>3, OnlyTakingTakes
  <2>2. m = order[taken + 1] /\ taken' = taken + 1 /\ Accounted(m)'
    BY <2>1, TakenIsAdded
  <2>3. i = taken + 1 /\ order' = order
    <3>1. order' = order
      BY <2>1, LoopLeavesOrder
    <3>2. taken \in Nat /\ taken' = taken + 1
      BY <1>1, <2>2
    <3>3. i \in Int /\ 1 <= i /\ i <= taken + 1 /\ ~(i <= taken)
      BY <1>3, <3>2
    <3>4. QED
      BY <3>1, <3>2, <3>3
  <2>4. order'[i] \in done' \union batch' \union errors' \union {now', then'.m}
    BY <2>2, <2>3 DEF Accounted
  <2>5. QED
    BY <2>4 DEF Accounted
<1>4. QED
  BY <1>2, <1>3

(* The loop is sent to its end by a cancellation, or when nothing is left. *)
LEMMA LeavesStayEmpty ==
    ASSUME ActorTypeOK, LoopIsWhereItSays, LeavesAnEmptyInbox, Next
    PROVE  LeavesAnEmptyInbox'
<1>1. ASSUME UNCHANGED <<taken, open, loop, cancelled>>, order' = order \/ open
      PROVE  LeavesAnEmptyInbox'
  BY <1>1 DEF LeavesAnEmptyInbox, loop
<1>2. ASSUME NEW m \in Message, MessageStep(m)
      PROVE  LeavesAnEmptyInbox'
  BY <1>2 DEF MessageStep, TakeMessage, Takes, TakeNothing, TakeMutate, TakeRead, TakeReadSync,
       TakeStop, Flush, LoopIsWhereItSays, LeavesAnEmptyInbox, Select, loop
<1>3. ASSUME NEW m \in Message, DriveStep(m)
      PROVE  LeavesAnEmptyInbox'
  BY <1>3 DEF DriveStep, FutureEnds, ErrorHandlerStarts, LeavesAnEmptyInbox, loop, inbox, world
<1>4. CASE FlushStep
  BY <1>4 DEF FlushStep, FlushTimer, InboxEnds, CancelSeen, Flush, LeavesAnEmptyInbox, inbox, world
<1>5. CASE HandleStep
  BY <1>5 DEF HandleStep, ErrorHandlerEnds, FlushEnds, MutateStarts, MutateEnds, BeforeStop,
       StopTaken, Flush, LeavesAnEmptyInbox, LoopIsWhereItSays, Select, inbox, world
<1>6. CASE EndStep
  BY <1>6 DEF EndStep, Leave, Panics, Unwind, Leaves, Gone, LeavesAnEmptyInbox, inbox, world
<1>7. CASE WorldStep
  BY <1>7 DEF WorldStep, Cancel, Revoke, LeavesAnEmptyInbox, inbox, loop
<1>8. QED
  BY Steps, SendAccepts, OutcomeLeaves, <1>1, <1>2, <1>3, <1>4, <1>5, <1>6, <1>7 DEF inbox, world

-----------------------------------------------------------------------------
(* What an answer proves.                                                  *)

(* A message is sent once and accepted once.                               *)
SentOnce ==
    /\ \A m \in Message : call[m] # "none" => kind[m] # "none"
    /\ \A i \in 1..Len(order) : call[order[i]] \notin {"none", "sending", "refused"}
    /\ \A i, j \in 1..Len(order) : order[i] = order[j] => i = j

(* The loop goes back for a message only when every failure was heard.     *)
FailuresAreHeardFirst == at = "select" => errors = {}

(* What a flush is for is the message taken last.                          *)
NextIsLastTaken == then.m # None => taken # 0 /\ then.m = order[taken]

BatchOnlyReads == \A m \in batch : kind[m] = "read"

(* Messages that were handed to a handler and may be answered, or were.    *)
Begun(m) ==
    \/ m \in batch \union errors \union stored \union spawned
    \/ at \in {"mutating", "erring"} /\ m = now
    \/ call[m] = "answered"

BegunWereTaken == \A m \in Message : Begun(m) => \E i \in 1..taken : order[i] = m

(* A mutation begins when everything before it is done, a read when every  *)
(* mutation is.                                                            *)
PastIsDone ==
    \A i, j \in 1..Len(order) :
        /\ i < j /\ Begun(order[j])
        /\ kind[order[i]] = "mutate" \/ kind[order[j]] = "mutate"
        => order[i] \in done

AnswersInv ==
    /\ SentOnce /\ FailuresAreHeardFirst /\ NextIsLastTaken /\ BatchOnlyReads
    /\ BegunWereTaken /\ PastIsDone

LEMMA KindsAreKept ==
    ASSUME ActorTypeOK, Next, NEW x \in Message, kind[x] # "none"
    PROVE  kind'[x] = kind[x]
<1>1. kind \in [Message -> Kinds \union {"none"}]
  BY DEF ActorTypeOK
<1>2. ASSUME NEW m \in Message, NEW o \in Message, SendStep(m, o)
      PROVE  kind'[x] = kind[x]
  BY <1>1, <1>2 DEF SendStep, StartAsk, FutureAsks, Send, Fresh, Deliver
<1>3. ASSUME NEW m \in Message, OutcomeStep(m)
      PROVE  kind' = kind
  BY <1>3 DEF OutcomeStep, Refused, NoReply, TimesOut, HandlerAnswers, HandlerSpawns,
       HandlerStores, HandlerAnswersStored, SpawnedEnds, callers
<1>4. CASE Panics
  BY <1>4 DEF Panics, Unwind
<1>5. QED
  BY Steps, LoopLeavesCallers, <1>2, <1>3, <1>4 DEF EndStep, callers

(* What a sender does: at most one message more, never accepted before.    *)
NewlySent(p) ==
    /\ \A i \in 1..Len(order) : order[i] # p
    /\ \A q \in Message \ {p} : call'[q] = call[q] /\ kind'[q] = kind[q]
    /\ kind'[p] # "none" /\ call'[p] # "answered"
    /\ \/ UNCHANGED order
       \/ order' = Append(order, p) /\ call'[p] \in {"sent", "waiting"}

LEMMA SendsOnce ==
    ASSUME ActorTypeOK, SentOnce, NEW m \in Message, NEW o \in Message, SendStep(m, o)
    PROVE  \E p \in Message : NewlySent(p)
<1>1. CallersTyped
  BY TypeInParts
<1>2. "none" \notin Kinds
  BY ActorAssumption DEF AllKinds, StopSignals
<1>3. ASSUME NEW p \in Message, NEW k \in Kinds, NEW f, Send(p, k, f)
      PROVE  NewlySent(p)
  <2>1. kind[p] = "none" /\ call[p] = "none"
    BY <1>1, <1>3 DEF Send, Fresh, SentOnce, CallersTyped
  <2>2. \A i \in 1..Len(order) : order[i] # p
    BY <2>1 DEF SentOnce
  <2>3. QED
    BY <1>1, <1>2, <1>3, <2>2 DEF Send, Accepted, CallersTyped, NewlySent
<1>4. ASSUME Deliver(m)
      PROVE  NewlySent(m)
  <2>1. call[m] = "sending"
    BY <1>4 DEF Deliver
  <2>2. \A i \in 1..Len(order) : order[i] # m
    BY <2>1 DEF SentOnce
  <2>3. QED
    BY <1>1, <1>4, <2>1, <2>2 DEF Deliver, Accepted, CallersTyped, NewlySent, SentOnce
<1>5. QED
  BY <1>3, <1>4 DEF SendStep, StartAsk, FutureAsks

(* How an ask goes on once it was sent.                                    *)
LEMMA CallsEnd ==
    ASSUME ActorTypeOK, Panics \/ \E m \in Message : OutcomeStep(m), NEW x \in Message
    PROVE  \/ call'[x] = call[x]
           \/ /\ call[x] \in {"sending", "waiting"}
              /\ call'[x] \in {"unanswered", "timedOut", "answered"}
           \/ call[x] = "sending" /\ call'[x] = "refused"
<1>1. CallersTyped
  BY TypeInParts
<1>2. CASE Panics
  BY <1>1, <1>2 DEF Panics, Unwind, CallersTyped
<1>3. ASSUME NEW m \in Message, OutcomeStep(m)
      PROVE  \/ call'[x] = call[x]
             \/ /\ call[x] \in {"sending", "waiting"}
                /\ call'[x] \in {"unanswered", "timedOut", "answered"}
             \/ call[x] = "sending" /\ call'[x] = "refused"
  BY <1>1, <1>3 DEF OutcomeStep, Refused, NoReply, TimesOut, HandlerAnswers, HandlerSpawns,
       HandlerStores, HandlerAnswersStored, SpawnedEnds, Answered, CallersTyped, callers
<1>4. QED
  BY <1>2, <1>3

LEMMA StaysSentOnce ==
    ASSUME ActorTypeOK, SentOnce, Next
    PROVE  SentOnce'
<1>1. order \in Seq(Message)
  BY DEF ActorTypeOK
<1>2. ASSUME NEW m \in Message, NEW o \in Message, SendStep(m, o)
      PROVE  SentOnce'
  <2>1. PICK p \in Message : NewlySent(p)
    BY <1>2, SendsOnce
  <2>2. \A i \in 1..Len(order) : order[i] \in Message /\ order[i] # p
    BY <1>1, <2>1 DEF NewlySent
  <2>3. \A q \in Message : call'[q] # "none" => kind'[q] # "none"
    BY <2>1 DEF NewlySent, SentOnce
  <2>4. CASE UNCHANGED order
    BY <2>1, <2>2, <2>3, <2>4 DEF NewlySent, SentOnce
  <2>5. CASE order' = Append(order, p) /\ call'[p] \in {"sent", "waiting"}
    <3>1. /\ Len(order') = Len(order) + 1 /\ order'[Len(order) + 1] = p
          /\ \A i \in 1..Len(order) : order'[i] = order[i]
      BY <1>1, <2>5
    <3>2. Len(order) \in Nat
      BY <1>1
    <3>3. \A i \in 1..Len(order') : i \in 1..Len(order) \/ i = Len(order) + 1
      BY <3>1, <3>2
    <3>4. \A i \in 1..Len(order') : call'[order'[i]] \notin {"none", "sending", "refused"}
      BY <2>1, <2>2, <2>5, <3>1, <3>3 DEF NewlySent, SentOnce
    <3>5. \A i, j \in 1..Len(order') : order'[i] = order'[j] => i = j
      BY <2>2, <3>1, <3>3 DEF SentOnce
    <3>6. QED
      BY <2>3, <3>4, <3>5 DEF SentOnce
  <2>6. QED
    BY <2>1, <2>4, <2>5 DEF NewlySent
<1>3. ASSUME Panics \/ \E m \in Message : OutcomeStep(m)
      PROVE  SentOnce'
  <2>1. order' = order
    BY <1>3, OutcomeLeaves DEF Panics, Unwind, inbox
  <2>2. \A q \in Message : kind'[q] = kind[q]
    BY <1>3 DEF Panics, Unwind, OutcomeStep, Refused, NoReply, TimesOut, HandlerAnswers,
         HandlerSpawns, HandlerStores, HandlerAnswersStored, SpawnedEnds, callers
  <2>3. \A q \in Message : call'[q] # "none" => kind'[q] # "none"
    BY <1>3, <2>2, CallsEnd DEF SentOnce
  <2>4. \A i \in 1..Len(order) : order[i] \in Message
    BY <1>1
  <2>5. \A i \in 1..Len(order) : call'[order[i]] \notin {"none", "sending", "refused"}
    BY <1>3, <2>4, CallsEnd DEF SentOnce
  <2>6. QED
    BY <2>1, <2>3, <2>5 DEF SentOnce
<1>4. CASE UNCHANGED <<order, callers>>
  BY <1>4 DEF SentOnce, callers
<1>5. QED
  BY Steps, LoopLeavesCallers, LoopLeavesOrder, <1>2, <1>3, <1>4 DEF EndStep

(* Nothing is forgotten of what was done.                                  *)
LEMMA DoneOnlyGrows ==
    ASSUME Next
    PROVE  done \subseteq done'
BY Steps, SendAccepts, OutcomeLeaves
DEF MessageStep, TakeMessage, TakeNothing, TakeMutate, TakeRead, TakeReadSync, TakeStop,
    DriveStep, FutureEnds, ErrorHandlerStarts, FlushStep, FlushTimer, InboxEnds, CancelSeen,
    HandleStep, ErrorHandlerEnds, FlushEnds, MutateStarts, MutateEnds, BeforeStop, StopTaken,
    EndStep, Leave, Panics, Unwind, Gone, WorldStep, Cancel, Revoke, work

LEMMA FailuresStayHeardFirst ==
    ASSUME MutationsAreAlone, FailuresAreHeardFirst, Next
    PROVE  FailuresAreHeardFirst'
<1>1. CASE UNCHANGED <<loop, work>>
  BY <1>1 DEF FailuresAreHeardFirst, loop, work
<1>2. ASSUME NEW m \in Message, MessageStep(m) \/ DriveStep(m)
      PROVE  FailuresAreHeardFirst'
  BY <1>2 DEF MessageStep, TakeMessage, Takes, TakeNothing, TakeMutate, TakeRead, TakeReadSync,
       TakeStop, Flush, DriveStep, FutureEnds, ErrorHandlerStarts, FailuresAreHeardFirst, loop, work
<1>3. CASE FlushStep \/ HandleStep \/ EndStep
  BY <1>3 DEF FlushStep, FlushTimer, InboxEnds, CancelSeen, Flush, HandleStep, ErrorHandlerEnds,
       FlushEnds, Flushed, MutateStarts, MutateEnds, BeforeStop, StopTaken, EndStep, Leave, Panics,
       Unwind, Leaves, Gone, FailuresAreHeardFirst, MutationsAreAlone, work
<1>4. CASE WorldStep
  BY <1>1, <1>4 DEF WorldStep, Cancel, Revoke
<1>5. QED
  BY Steps, SendAccepts, OutcomeLeaves, <1>1, <1>2, <1>3, <1>4

LEMMA NextStaysLastTaken ==
    ASSUME ActorTypeOK, LoopIsWhereItSays, NextIsLastTaken, Next
    PROVE  NextIsLastTaken'
<1>1. order \in Seq(Message) /\ taken \in 0..Len(order)
  BY DEF ActorTypeOK
<1>2. ASSUME then' = then \/ then'.m = None, UNCHANGED taken
      PROVE  NextIsLastTaken'
  <2> SUFFICES ASSUME then'.m # None
               PROVE  taken' # 0 /\ then'.m = order'[taken']
    BY DEF NextIsLastTaken
  <2>1. taken # 0 /\ then'.m = order[taken]
    BY <1>2 DEF NextIsLastTaken
  <2>2. taken \in 1..Len(order)
    BY <1>1, <2>1
  <2>3. QED
    BY <1>2, <2>1, <2>2, OrderOnlyGrows
<1>3. ASSUME NEW m \in Message, MessageStep(m)
      PROVE  NextIsLastTaken'
  <2>1. taken' = taken + 1 /\ m = order[taken + 1] /\ order' = order /\ then.m = None
    BY <1>3, TakenIsAdded, LoopLeavesOrder DEF MessageStep, TakeMessage, Takes, TakeNothing,
         TakeMutate, TakeRead, TakeReadSync, TakeStop, LoopIsWhereItSays, Select
  <2>2. then'.m = None \/ then'.m = m
    BY <1>3, <2>1 DEF MessageStep, TakeMessage, TakeNothing, TakeMutate, TakeRead, TakeReadSync,
         TakeStop, Flush, loop
  <2>3. QED
    BY <1>1, <2>1, <2>2 DEF NextIsLastTaken
<1>4. ASSUME ~\E m \in Message : MessageStep(m)
      PROVE  then' = then \/ then'.m = None
  <2>1. ASSUME NEW m \in Message, DriveStep(m)
        PROVE  then' = then
    BY <2>1 DEF DriveStep, FutureEnds, ErrorHandlerStarts, loop
  <2>2. CASE FlushStep \/ EndStep \/ WorldStep
    BY <2>2 DEF FlushStep, FlushTimer, InboxEnds, CancelSeen, Flush, EndStep, Leave, Panics, Unwind,
         Leaves, Gone, WorldStep, Cancel, Revoke, Select, loop
  <2>3. CASE HandleStep
    BY <2>3 DEF HandleStep, ErrorHandlerEnds, FlushEnds, MutateStarts, MutateEnds, BeforeStop,
         StopTaken, Flush, Select
  <2>4. CASE UNCHANGED loop
    BY <2>4 DEF loop
  <2>5. QED
    BY <1>4, Steps, SendAccepts, OutcomeLeaves, <2>1, <2>2, <2>3, <2>4
<1>5. QED
  BY <1>2, <1>3, <1>4, OnlyTakingTakes

LEMMA BatchStaysReads ==
    ASSUME ActorTypeOK, BatchOnlyReads, Next
    PROVE  BatchOnlyReads'
<1>1. \A x \in batch' : x \in batch \/ (x \in Message /\ kind[x] = "read")
  BY Steps, SendAccepts, OutcomeLeaves
  DEF MessageStep, TakeMessage, TakeNothing, TakeMutate, TakeRead, TakeReadSync, TakeStop,
      DriveStep, FutureEnds, ErrorHandlerStarts, FlushStep, FlushTimer, InboxEnds, CancelSeen,
      HandleStep, ErrorHandlerEnds, FlushEnds, MutateStarts, MutateEnds, BeforeStop, StopTaken,
      EndStep, Leave, Panics, Unwind, Gone, WorldStep, Cancel, Revoke, work
<1>2. \A x \in batch' : x \in Message /\ kind[x] = "read"
  BY <1>1 DEF BatchOnlyReads, ActorTypeOK
<1>3. QED
  BY <1>2, KindsAreKept DEF BatchOnlyReads

(* The only ways to begin.                                                 *)
LEMMA Beginnings ==
    ASSUME ActorTypeOK, SentOnce, MutationsAreAlone, LoopIsWhereItSays, Next,
           NEW x \in Message, Begun(x)'
    PROVE  \/ Begun(x)
           \/ MessageStep(x) /\ kind[x] = "read"
           \/ MutateStarts /\ x = then.m
<1>1. CallersTyped
  BY TypeInParts
<1>2. \/ x \in batch' \union errors' \union stored' \union spawned'
      \/ at' \in {"mutating", "erring"} /\ x = now'
      \/ call'[x] = "answered"
  BY DEF Begun
<1>3. ASSUME NEW m \in Message, NEW o \in Message, SendStep(m, o)
      PROVE  Begun(x)
  <2>1. UNCHANGED <<loop, work, addresses>>
    BY <1>3, SendAccepts
  <2>2. PICK p \in Message : NewlySent(p)
    BY <1>3, SendsOnce
  <2>3. call'[x] = call[x] \/ call'[x] # "answered"
    BY <2>2 DEF NewlySent
  <2>4. QED
    BY <1>2, <2>1, <2>3 DEF Begun, loop, work, addresses
<1>4. ASSUME NEW m \in Message, OutcomeStep(m)
      PROVE  Begun(x)
  BY <1>1, <1>2, <1>4 DEF OutcomeStep, Refused, NoReply, TimesOut, HandlerAnswers, HandlerSpawns,
       HandlerStores, HandlerAnswersStored, SpawnedEnds, Answered, Running, Begun, CallersTyped,
       callers, loop, work, addresses
<1>5. ASSUME NEW m \in Message, MessageStep(m)
      PROVE  Begun(x) \/ (MessageStep(x) /\ kind[x] = "read")
  <2>1. call' = call /\ stored' = stored /\ errors' = errors
    BY <1>5, LoopLeavesCallers DEF MessageStep, TakeMessage, Takes, TakeNothing, TakeMutate,
         TakeRead, TakeReadSync, TakeStop, callers, work
  <2>2. at' \notin {"mutating", "erring"}
    BY <1>5 DEF MessageStep, TakeMessage, Takes, TakeNothing, TakeMutate, TakeRead,
         TakeReadSync, TakeStop, Flush, loop
  <2>3. x \in batch' \union spawned' => x \in batch \union spawned \/ (x = m /\ kind[x] = "read")
    BY <1>5 DEF MessageStep, TakeMessage, TakeNothing, TakeMutate, TakeRead, TakeReadSync,
         TakeStop, work
  <2>4. QED
    BY <1>2, <1>5, <2>1, <2>2, <2>3 DEF Begun
<1>6. ASSUME NEW m \in Message, DriveStep(m)
      PROVE  Begun(x)
  BY <1>2, <1>6, LoopLeavesCallers DEF DriveStep, FutureEnds, ErrorHandlerStarts, Begun,
       callers, loop, addresses
<1>7. CASE FlushStep \/ WorldStep
  BY <1>2, <1>7, LoopLeavesCallers DEF FlushStep, FlushTimer, InboxEnds, CancelSeen, Flush,
       WorldStep, Cancel, Revoke, Begun, callers, loop, work, addresses
<1>8. CASE HandleStep
  BY <1>2, <1>8, LoopLeavesCallers DEF HandleStep, ErrorHandlerEnds, FlushEnds, MutateStarts,
       MutateEnds, BeforeStop, StopTaken, Flush, Begun, LoopIsWhereItSays, callers, work, addresses
<1>9. CASE EndStep
  BY <1>1, <1>2, <1>9, LoopLeavesCallers DEF EndStep, Leave, Leaves, Panics, Unwind, Gone, Begun,
       CallersTyped, callers, work, addresses
<1>10. QED
  BY Steps, <1>3, <1>4, <1>5, <1>6, <1>7, <1>8, <1>9

LEMMA BegunStayTaken ==
    ASSUME ActorInv, AnswersInv, Next
    PROVE  BegunWereTaken'
<1> SUFFICES ASSUME NEW x \in Message, Begun(x)'
             PROVE  \E i \in 1..taken' : order'[i] = x
  BY DEF BegunWereTaken
<1>1. ActorTypeOK /\ MutationsAreAlone /\ LoopIsWhereItSays
  BY DEF ActorInv, HandlersDoNotClash
<1>2. /\ order \in Seq(Message) /\ taken \in 0..Len(order)
      /\ \A i \in 1..Len(order) : order'[i] = order[i]
  BY <1>1, OrderOnlyGrows DEF ActorTypeOK
<1>3. taken' \in {taken, taken + 1}
  BY OnlyTakingTakes, TakenIsAdded
<1>4. ASSUME NEW i \in 1..taken, order[i] = x
      PROVE  \E j \in 1..taken' : order'[j] = x
  BY <1>2, <1>3, <1>4
<1>5. CASE Begun(x)
  BY <1>4, <1>5 DEF AnswersInv, BegunWereTaken
<1>6. CASE MessageStep(x)
  <2>1. taken' = taken + 1 /\ x = order[taken + 1] /\ order' = order
    BY <1>6, TakenIsAdded, LoopLeavesOrder
  <2>2. QED
    BY <1>2, <2>1
<1>7. CASE MutateStarts /\ x = then.m
  <2>1. taken # 0 /\ order[taken] = x
    BY <1>7, ActorAssumption DEF AnswersInv, NextIsLastTaken, Message, None
  <2>2. QED
    BY <1>2, <1>4, <2>1
<1>8. QED
  BY <1>1, <1>5, <1>6, <1>7, Beginnings DEF AnswersInv

(* Before a message is begun, the loop answers for all that came earlier.  *)
LEMMA PastStaysDone ==
    ASSUME ActorInv, AnswersInv, Next, BegunWereTaken', SentOnce'
    PROVE  PastIsDone'
<1> SUFFICES ASSUME NEW i \in 1..Len(order'), NEW j \in 1..Len(order'), i < j,
                    Begun(order[j])',
                    kind'[order'[i]] = "mutate" \/ kind'[order'[j]] = "mutate"
             PROVE  order'[i] \in done'
  BY DEF PastIsDone
<1> DEFINE p == order[i]
           x == order[j]
<1>1. /\ ActorTypeOK /\ MutationsAreAlone /\ LoopIsWhereItSays /\ TakenIsAccounted
      /\ SentOnce /\ NextIsLastTaken /\ FailuresAreHeardFirst /\ BatchOnlyReads
  BY DEF ActorInv, HandlersDoNotClash, AnswersInv
<1>2. /\ order \in Seq(Message) /\ taken \in 0..Len(order) /\ Len(order') \in Nat
      /\ \A k \in 1..Len(order) : order'[k] = order[k]
      /\ order' \in Seq(Message)
  BY <1>1, OrderOnlyGrows, InboxStaysTyped DEF ActorTypeOK, InboxTyped
<1>3. taken' \in 0..Len(order)
  <2>1. CASE taken' = taken
    BY <1>2, <2>1
  <2>2. ASSUME NEW m \in Message, MessageStep(m)
        PROVE  taken' \in 0..Len(order)
    <3>1. taken < Len(order) /\ taken' = taken + 1
      BY <2>2 DEF MessageStep, TakeMessage, TakeNothing, TakeMutate, TakeRead, TakeReadSync,
           TakeStop, Takes
    <3>2. QED
      BY <1>2, <3>1
  <2>3. QED
    BY <2>1, <2>2, OnlyTakingTakes
<1>4. i \in 1..Len(order) /\ j \in 1..Len(order) /\ i \in Nat /\ j \in Nat
  <2>1. order'[j] \in Message /\ Begun(order[j])'
    BY <1>2
  <2>2. PICK k \in 1..taken' : order'[k] = order'[j]
    BY <2>1 DEF BegunWereTaken, Begun
  <2>3. k \in 1..Len(order')
    BY <1>2, <1>3, <2>2, <1>1, OrderOnlyGrows
  <2>4. k = j
    BY <2>2, <2>3 DEF SentOnce
  <2>5. QED
    BY <1>2, <1>3, <2>2, <2>4
<1>5. /\ p \in Message /\ x \in Message /\ order'[i] = p /\ order'[j] = x /\ p # x
  BY <1>1, <1>2, <1>4 DEF SentOnce
<1>6. kind[p] # "none" /\ kind[x] # "none"
  BY <1>1, <1>4, <1>5 DEF SentOnce
<1>7. kind'[p] = kind[p] /\ kind'[x] = kind[x]
  BY <1>1, <1>5, <1>6, KindsAreKept
<1>8. kind[p] = "mutate" \/ kind[x] = "mutate"
  BY <1>5, <1>7
<1>9. Begun(x)'
  BY <1>5 DEF Begun
<1>10. SUFFICES p \in done
  BY <1>5, DoneOnlyGrows
<1>11. p # None
  BY <1>5, ActorAssumption DEF Message, None
<1>12. ASSUME i <= taken, reason # "Panic"
       PROVE  p \in done \union batch \union errors \union {now, then.m}
  BY <1>1, <1>2, <1>4, <1>12 DEF TakenIsAccounted
<1>13. CASE Begun(x)
  <2>1. Begun(order[j]) /\ (kind[order[i]] = "mutate" \/ kind[order[j]] = "mutate")
    BY <1>8, <1>13
  <2>2. order[i] \in done
    BY <1>4, <2>1 DEF AnswersInv, PastIsDone
  <2>3. QED
    BY <2>2
<1>14. CASE MessageStep(x) /\ kind[x] = "read"
  <2>1. taken' = taken + 1 /\ x = order[taken + 1] /\ taken < Len(order) /\ at = "select"
    BY <1>14, TakenIsAdded DEF MessageStep, TakeMessage, TakeNothing, TakeMutate, TakeRead,
         TakeReadSync, TakeStop, Takes
  <2>2. taken + 1 \in 1..Len(order)
    BY <1>2, <2>1
  <2>3. j = taken + 1
    BY <1>1, <1>4, <2>1, <2>2 DEF SentOnce
  <2>4. i <= taken
    BY <1>2, <1>4, <2>3
  <2>5. errors = {} /\ now = None /\ then.m = None /\ reason # "Panic"
    BY <1>1, <2>1 DEF FailuresAreHeardFirst, LoopIsWhereItSays, Select
  <2>6. p \notin batch
    BY <1>1, <1>8, <1>14 DEF BatchOnlyReads
  <2>7. QED
    BY <1>11, <1>12, <2>4, <2>5, <2>6
<1>15. CASE MutateStarts /\ x = then.m
  <2>1. at = "flushing" /\ batch = {} /\ errors = {}
    BY <1>15 DEF MutateStarts, Flushed
  <2>2. now = None /\ reason # "Panic"
    BY <1>1, <2>1 DEF LoopIsWhereItSays
  <2>3. x # None
    BY <1>5, ActorAssumption DEF Message, None
  <2>4. taken # 0 /\ order[taken] = x
    BY <1>1, <1>15, <2>3 DEF NextIsLastTaken
  <2>5. taken \in 1..Len(order)
    BY <1>2, <2>4
  <2>6. j = taken
    BY <1>1, <1>4, <2>4, <2>5 DEF SentOnce
  <2>7. i <= taken
    BY <1>2, <1>4, <2>6
  <2>8. QED
    BY <1>5, <1>11, <1>12, <1>15, <2>1, <2>2, <2>7
<1>16. QED
  BY <1>1, <1>5, <1>9, <1>13, <1>14, <1>15, Beginnings

-----------------------------------------------------------------------------
(* The theorems.                                                           *)
LEMMA NextPreserves ==
    ASSUME ActorInv, [Next]_vars
    PROVE  ActorInv'
<1>1. CASE Next
  <2>1. /\ ActorTypeOK /\ MutationsAreAlone /\ FailuresAreHeard /\ LoopIsWhereItSays
        /\ SelectHasRoom /\ TakenIsAccounted /\ LeavesAnEmptyInbox
    BY DEF ActorInv, HandlersDoNotClash
  <2>2. BatchIsBounded' /\ SelectHasRoom'
    BY <1>1, <2>1, BatchStaysBounded
  <2>3. CallersTyped' /\ InboxTyped' /\ LoopTyped' /\ WorkTyped'
    BY <1>1, <2>1, CallersStayTyped, InboxStaysTyped, LoopStaysTyped, WorkStaysTyped
  <2>4. ActorTypeOK'
    BY <2>2, <2>3 DEF ActorTypeOK, CallersTyped, InboxTyped, LoopTyped, WorkTyped, BatchIsBounded
  <2>5. MutationsAreAlone' /\ FailuresAreHeard' /\ LoopIsWhereItSays'
    BY <1>1, <2>1, HandlersStayAlone, LoopStaysWhereItSays
  <2>6. TakenIsAccounted' /\ LeavesAnEmptyInbox'
    BY <1>1, <2>1, TakenStaysAccounted, LeavesStayEmpty
  <2>7. QED
    BY <2>2, <2>4, <2>5, <2>6 DEF ActorInv, HandlersDoNotClash
<1>2. CASE UNCHANGED vars
  BY <1>2 DEF vars, callers, inbox, loop, work, addresses, world, Select,
       ActorInv, HandlersDoNotClash, ActorTypeOK, MutationsAreAlone, FailuresAreHeard,
       LoopIsWhereItSays, SelectHasRoom, TakenIsAccounted, LeavesAnEmptyInbox
<1>3. QED
  BY <1>1, <1>2

THEOREM ActorInvHolds == Spec => []ActorInv
<1>1. Init => ActorInv
  BY InitSatisfies
<1>2. ActorInv /\ [Next]_vars => ActorInv'
  BY NextPreserves
<1>3. QED
  BY <1>1, <1>2, PTL DEF Spec

(* A mutable handler, a stop hook and an error handler have the actor to   *)
(* themselves, and the batch never outgrows its mark (started.rs).         *)
THEOREM HandlersKeepApart == Spec => []HandlersDoNotClash
<1>1. ActorInv => HandlersDoNotClash
  BY DEF ActorInv
<1>2. QED
  BY <1>1, ActorInvHolds, PTL

(* What the inbox accepted is handled before a stopped actor is gone, and  *)
(* every failure is told to its handler, unless the actor was cancelled or *)
(* panicked (started.rs, the end of the loop).                             *)
THEOREM TheLoopPaysItsDebts == Spec => []NothingIsAbandoned
<1>1. ActorInv => NothingIsAbandoned
  <2> SUFFICES ASSUME ActorInv, at = "gone", reason # "Panic", ~cancelled,
                      NEW x \in Range(order)
               PROVE  x \in done
    BY DEF ActorInv, NothingIsAbandoned, AcceptedIsHandled
  <2>1. order \in Seq(Message) /\ taken = Len(order)
    BY DEF ActorInv, HandlersDoNotClash, ActorTypeOK, LeavesAnEmptyInbox
  <2>2. PICK i \in 1..Len(order) : x = order[i]
    BY <2>1 DEF Range
  <2>3. x \in Message /\ x # None
    BY <2>1, <2>2, ActorAssumption DEF Message, None
  <2>4. x \in done \union batch \union errors \union {now, then.m}
    BY <2>1, <2>2 DEF ActorInv, TakenIsAccounted
  <2>5. batch = {} /\ errors = {} /\ now = None /\ then.m = None
    BY DEF ActorInv, FailuresAreHeard, LoopIsWhereItSays, Select
  <2>6. QED
    BY <2>3, <2>4, <2>5
<1>2. QED
  BY <1>1, ActorInvHolds, PTL

LEMMA AnswersNext ==
    ASSUME ActorInv, AnswersInv, [Next]_vars
    PROVE  AnswersInv'
<1>1. CASE Next
  <2>1. ActorTypeOK /\ MutationsAreAlone /\ LoopIsWhereItSays
    BY DEF ActorInv, HandlersDoNotClash
  <2>2. SentOnce' /\ FailuresAreHeardFirst' /\ NextIsLastTaken' /\ BatchOnlyReads'
    BY <1>1, <2>1, StaysSentOnce, FailuresStayHeardFirst, NextStaysLastTaken, BatchStaysReads
    DEF AnswersInv
  <2>3. BegunWereTaken'
    BY <1>1, BegunStayTaken
  <2>4. PastIsDone'
    BY <1>1, <2>2, <2>3, PastStaysDone
  <2>5. QED
    BY <2>2, <2>3, <2>4 DEF AnswersInv
<1>2. CASE UNCHANGED vars
  BY <1>2 DEF vars, callers, inbox, loop, work, addresses, world, AnswersInv, SentOnce,
       FailuresAreHeardFirst, NextIsLastTaken, BatchOnlyReads, BegunWereTaken, PastIsDone, Begun
<1>3. QED
  BY <1>1, <1>2

(* An answer from a mutable handler proves everything accepted before it   *)
(* handled, failures included, and one from a read-only handler proves     *)
(* every earlier mutation: also when the answer is kept, or sent by a task *)
(* of its own, and whatever was cancelled or panicked (common/ask.rs,      *)
(* started.rs).                                                            *)
THEOREM AnAnswerProvesThePast == Spec => []AnswersProveThePast
<1>1. Init => AnswersInv
  BY DEF Init, AnswersInv, SentOnce, FailuresAreHeardFirst, NextIsLastTaken, BatchOnlyReads,
       BegunWereTaken, PastIsDone, Begun, Select
<1>2. ActorInv /\ AnswersInv /\ [Next]_vars => AnswersInv'
  BY AnswersNext
<1>3. ActorInv /\ AnswersInv => AnswersProveThePast
  <2> SUFFICES ASSUME ActorInv, AnswersInv, NEW m \in Message, call[m] = "answered",
                      NEW i \in DOMAIN order, NEW l \in (i + 1)..Len(order), order[l] = m,
                      kind[m] = "mutate" \/ kind[order[i]] = "mutate"
               PROVE  order[i] \in done
    BY DEF AnswersProveThePast, Before
  <2>1. order \in Seq(Message)
    BY DEF ActorInv, HandlersDoNotClash, ActorTypeOK
  <2>2. i \in 1..Len(order) /\ l \in 1..Len(order) /\ i < l
    BY <2>1
  <2>3. Begun(order[l])
    BY DEF Begun
  <2>4. QED
    BY <2>2, <2>3 DEF AnswersInv, PastIsDone
<1>4. QED
  BY <1>1, <1>2, <1>3, ActorInvHolds, PTL DEF Spec

(* Nothing a revoked connection sent begins to be handled, not even when   *)
(* the revocation comes while the loop flushes for it (started.rs, the two *)
(* checks of the message arm).                                             *)
THEOREM RevocationHolds == Spec => RevokedNeverStarts
<1>1. ASSUME Next, NEW x \in Remote, revoked
      PROVE  /\ x \in batch' => x \in batch
             /\ at' = "mutating" /\ now' = x => at = "mutating" /\ now = x
  <2>1. CASE UNCHANGED <<loop, work>>
    BY <2>1 DEF loop, work
  <2>2. ASSUME NEW m \in Message, MessageStep(m)
        PROVE  at' # "mutating" /\ (x \in batch' => x \in batch)
    BY <1>1, <2>2 DEF MessageStep, TakeMessage, Takes, TakeNothing, TakeMutate, TakeRead,
         TakeReadSync, TakeStop, Untrusted, Flush, loop, work
  <2>3. ASSUME NEW m \in Message, DriveStep(m)
        PROVE  at' # "mutating" /\ (x \in batch' => x \in batch)
    BY <2>3 DEF DriveStep, FutureEnds, ErrorHandlerStarts, loop
  <2>4. CASE FlushStep \/ EndStep
    BY <2>4 DEF FlushStep, FlushTimer, InboxEnds, CancelSeen, Flush, EndStep, Leave, Panics,
         Unwind, Leaves, Gone, work
  <2>5. CASE HandleStep
    BY <1>1, <2>5 DEF HandleStep, ErrorHandlerEnds, FlushEnds, MutateStarts, MutateEnds,
         BeforeStop, StopTaken, Skips, Untrusted, Flush, work
  <2>6. CASE WorldStep
    BY <2>1, <2>6 DEF WorldStep, Cancel, Revoke
  <2>7. QED
    BY <1>1, Steps, SendAccepts, OutcomeLeaves, <2>1, <2>2, <2>3, <2>4, <2>5, <2>6
<1>2. [Next]_vars => [\A m \in Remote : revoked =>
          /\ m \in batch' => m \in batch
          /\ at' = "mutating" /\ now' = m => at = "mutating" /\ now = m]_vars
  BY <1>1
<1>3. QED
  BY <1>2, PTL DEF Spec, RevokedNeverStarts

=============================================================================
