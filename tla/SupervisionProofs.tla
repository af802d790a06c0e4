--------------------------- MODULE SupervisionProofs ---------------------------
(***************************************************************************)
(* Proofs about a supervisor, its children's incarnations and the tasks    *)
(* between them.  Every step of Supervision is one of the registry's       *)
(* operations or leaves it alone, so what RegistryProofs says carries      *)
(* over.  What is proved beyond that is about the incarnations: who holds  *)
(* a handle, what a message refers to, and which start, notice or report   *)
(* is the one in flight for a name.                                        *)
(***************************************************************************)
EXTENDS SupervisionProperties, RegistryProofs, WellFoundedInduction, TLAPS

(* What a reference to an incarnation is worth: it names a child that was   *)
(* created, under the name the reference gives, and one no start task is    *)
(* still busy with.  None of this is undone by any step.                    *)

Born(h, n) == h \in 1..born /\ inc[h].name = n
Kept(h) == inc[h].holder \notin {"starter", "failed"}
Recorded(i, n) == i \in Taken /\ slots[i].ern = n

MessageRefers(m) ==
    /\ m.type = "ChildTerminated" => Born(m.inc, m.name)
    /\ m.type = "SupervisedChildStarted" =>
         /\ Recorded(m.idx, m.name)
         /\ m.inc # NoHandle => /\ Born(m.inc, m.name) /\ Kept(m.inc)
                                /\ inc[m.inc].idx = m.idx
    /\ m.type = "RegisterSupervisedChild" =>
         Born(m.inc, m.name) /\ Kept(m.inc) /\ inc[m.inc].idx = NoSlot
    /\ m.type = "UnregisterSupervisedChild" => m.name \in Released

SlotRefers(i) ==
    slots[i].handle # NoHandle => Born(slots[i].handle, slots[i].ern) /\ Kept(slots[i].handle)

\* A child being built is in the hands of its start task, which knows its slot;
\* a handle that was not taken yet is nobody's.
Sane(c) ==
    /\ c.life = "building" => c.holder = "starter"
    /\ c.holder \in {"starter", "failed"} => c.idx # NoSlot
    /\ c.holder \in {"hirer", "adopter"} => c.idx = NoSlot
    /\ c.holder = "failed" => c.life = "dead"
ChildRefers(h) ==
    /\ Sane(inc[h])
    /\ inc[h].idx # NoSlot => Recorded(inc[h].idx, inc[h].name)
    /\ h > born => inc[h] = Unborn

ReferencesHold ==
    /\ \A k \in 1..Len(inbox) : MessageRefers(inbox[k])
    /\ \A i \in Index : SlotRefers(i)
    /\ \A h \in Handle : ChildRefers(h)
    /\ releaser.got # NoHandle =>
         Born(releaser.got, inc[releaser.got].name) /\ Kept(releaser.got)
         /\ inc[releaser.got].name \in Released
    /\ \A n \in Name : kids[n] # NoHandle => Born(kids[n], n) /\ n \in Adopted

\* A group task in progress has a restart left to ask for.
GroupsHaveDues == \A t \in groups : t.dues # {}

SupInv ==
    /\ RegInv
    /\ SupTypeOK
    /\ ReferencesHold
    /\ GroupsHaveDues

-------------------------------------------------------------------------------
(* Slots.  What an operation of the registry leaves in the fields the other  *)
(* parts read.                                                               *)

LEMMA MovedFields ==
    ASSUME NEW s \in Slot, NEW state \in SlotStates, NEW h \in AnyHandle
    PROVE  /\ Moved(s, state, h).ern = s.ern /\ Moved(s, state, h).state = state
           /\ Moved(s, state, h).gen = s.gen /\ Moved(s, state, h).handle = h
           /\ Moved(s, state, h).restartable = s.restartable
<1> DEFINE t == [s EXCEPT !.state = state, !.handle = h]
<1>1. /\ t \in Slot /\ t.state = state /\ t.handle = h /\ t.ern = s.ern /\ t.gen = s.gen
      /\ t.restartable = s.restartable
  BY DEF Slot, AnyHandle
<1>2. Publish(t) = [t EXCEPT !.pub = Publish(t).pub]
  BY <1>1, PublishKeeps
<1> QED BY <1>1, <1>2 DEF Moved, Slot

\* One record is rewritten, the others stay as they are.
Rewrites(i, state, h) ==
    /\ \A j \in Index : j # i => slots'[j] = slots[j]
    /\ slots'[i].state = state /\ slots'[i].handle = h
    /\ slots'[i].ern = slots[i].ern /\ slots'[i].restartable = slots[i].restartable

LEMMA RewriteSlot ==
    ASSUME RegInv, NEW i \in Index, NEW s \in Slot,
           s.ern = slots[i].ern, s.restartable = slots[i].restartable,
           NEW state \in SlotStates, NEW h \in AnyHandle,
           slots' = [slots EXCEPT ![i] = Moved(s, state, h)]
    PROVE  Rewrites(i, state, h) /\ slots'[i].gen = s.gen
<1>1. /\ slots \in [Index -> Slot]
      /\ slots'[i] = Moved(s, state, h) /\ \A j \in Index : j # i => slots'[j] = slots[j]
  BY DEF RegInv, RegTypeOK
<1> QED BY <1>1, MovedFields DEF Rewrites

LEMMA BeginStartRewrites ==
    ASSUME RegInv, BeginStart, NEW i, i = Head(pending)
    PROVE  /\ i \in Index /\ pending' = Tail(pending)
           /\ Launchable(i) =>
                /\ Rewrites(i, IF slots[i].state = "Pending" THEN "Starting" ELSE "Restarting",
                            NoHandle)
                /\ slots[i].handle = NoHandle
           /\ ~Launchable(i) => slots' = slots
<1> DEFINE state == IF slots[i].state = "Pending" THEN "Starting" ELSE "Restarting"
<1>1. i \in Index /\ slots[i] \in Slot /\ state \in SlotStates /\ pending' = Tail(pending)
  BY TakenSlots DEF BeginStart, RegInv, RegTypeOK, SlotStates
<1>2. CASE Launchable(i)
  <2>1. slots' = [slots EXCEPT ![i] = Moved(slots[i], state, slots[i].handle)]
    BY <1>2 DEF BeginStart
  <2>2. slots[i].handle = NoHandle /\ NoHandle \in AnyHandle
    BY <1>1, <1>2, TakenSlots DEF Sound, Launchable, ExpectedStop, AnyHandle
  <2> HIDE DEF state
  <2>3. Rewrites(i, state, NoHandle)
    BY <1>1, <2>1, <2>2, RewriteSlot
  <2> QED BY <1>1, <1>2, <2>2, <2>3 DEF state
<1>3. CASE ~Launchable(i)
  BY <1>1, <1>3 DEF BeginStart
<1> QED BY <1>2, <1>3

LEMMA CompleteStartRewrites ==
    ASSUME RegInv, NEW i \in Index, NEW n \in Name, NEW h \in Handle, CompleteStart(i, n, h)
    PROVE  Rewrites(i, "Running", h) /\ slots[i].state \in {"Starting", "Restarting"}
<1>1. /\ Advanced(slots[i]) \in Slot /\ Advanced(slots[i]).ern = slots[i].ern
      /\ Advanced(slots[i]).restartable = slots[i].restartable
  BY TakenSlots DEF Slot, Advanced
<1> QED
  BY <1>1, RewriteSlot DEF CompleteStart, StartAccepted, SlotStates, AnyHandle

LEMMA FailStartRewrites ==
    ASSUME RegInv, NEW i \in Index, FailStart(i)
    PROVE  Rewrites(i, "Retired", NoHandle)
BY TakenSlots, RewriteSlot DEF FailStart, SlotStates, AnyHandle

LEMMA QueueRestartRewrites ==
    ASSUME RegInv, NEW i \in Index, NEW n \in Name, NEW g, QueueRestart(i, n, g)
    PROVE  /\ Rewrites(i, "AwaitingRestart", NoHandle) /\ slots[i].state = "AwaitingBackoff"
           /\ slots'[i].gen = slots[i].gen
<1>1. slots[i] \in Slot /\ slots[i].state = "AwaitingBackoff" /\ slots[i].handle = NoHandle
  BY TakenSlots DEF QueueRestart, TimerMatches, Sound, ExpectedStop
<1> QED BY <1>1, RewriteSlot DEF QueueRestart, SlotStates, AnyHandle

\* A notice: one record, but for the siblings a group restart rearranges.
LEMMA GroupStopLandedRewrites ==
    ASSUME RegInv, NEW n \in Name, GroupStopLanded(n)
    PROVE  /\ slots[byErn[n]].state \in ExpectedStop /\ byErn[n] \in Taken
           /\ \E state \in {"AwaitingBackoff", "Down"} : Rewrites(byErn[n], state, NoHandle)
<1> DEFINE state == IF slots[byErn[n]].state = "StopThenRestart" THEN "AwaitingBackoff"
                                                                 ELSE "Down"
<1>1. /\ byErn[n] \in Taken /\ byErn[n] \in Index /\ slots[byErn[n]] \in Slot
      /\ slots[byErn[n]].state \in ExpectedStop
      /\ slots' = [slots EXCEPT ![byErn[n]] = Moved(slots[byErn[n]], state, NoHandle)]
  BY TakenSlots DEF GroupStopLanded
<1>2. state \in {"AwaitingBackoff", "Down"} /\ state \in SlotStates /\ NoHandle \in AnyHandle
  BY DEF SlotStates, AnyHandle
<1> HIDE DEF state
<1> QED BY <1>1, <1>2, RewriteSlot

LEMMA ForgetChildRewrites ==
    ASSUME RegInv, NEW n \in Name, NEW reason, ForgetChild(n, reason)
    PROVE  /\ Rewrites(byErn[n], "Down", NoHandle)
           /\ slots[byErn[n]].state \in Accepting /\ byErn[n] \in Taken
<1>1. /\ byErn[n] \in Taken /\ byErn[n] \in Index /\ slots[byErn[n]] \in Slot
      /\ slots[byErn[n]].state \in Accepting
  BY TakenSlots DEF ForgetChild, FreshFailure
<1> QED BY <1>1, RewriteSlot DEF ForgetChild, SlotStates, AnyHandle

LEMMA EscalateChildRewrites ==
    ASSUME RegInv, NEW n \in Name, NEW reason, NEW kept \in Nat, EscalateChild(n, reason, kept)
    PROVE  /\ Rewrites(byErn[n], "Escalated", NoHandle)
           /\ slots[byErn[n]].state \in Accepting /\ byErn[n] \in Taken
<1> DEFINE s == [slots[byErn[n]] EXCEPT !.charged = kept]
<1>1. /\ byErn[n] \in Taken /\ byErn[n] \in Index /\ slots[byErn[n]] \in Slot
      /\ slots[byErn[n]].state \in Accepting
  BY TakenSlots DEF EscalateChild, FreshFailure
<1>2. s \in Slot /\ s.ern = slots[byErn[n]].ern /\ s.restartable = slots[byErn[n]].restartable
  BY <1>1 DEF Slot
<1>3. slots' = [slots EXCEPT ![byErn[n]] = Moved(s, "Escalated", NoHandle)]
  BY DEF EscalateChild
<1> HIDE DEF s
<1> QED BY <1>1, <1>2, <1>3, RewriteSlot DEF SlotStates, AnyHandle

LEMMA ScheduleRestartClears ==
    ASSUME RegInv, NEW n \in Name, NEW reason, NEW kept \in Nat,
           ScheduleRestart(n, reason, kept)
    PROVE  \A i \in Index : slots'[i].handle \in {NoHandle, slots[i].handle}
<1> DEFINE plan == RestartPlanFor(n)
           s(i) == IF i = byErn[n] THEN [slots[i] EXCEPT !.charged = kept + 1] ELSE slots[i]
<1> SUFFICES ASSUME NEW i \in Index PROVE slots'[i].handle \in {NoHandle, slots[i].handle}
  OBVIOUS
<1>1. slots'[i] = Rearranged(s(i), i \in plan.stop, i \in plan.restart)
  BY DEF ScheduleRestart
<1>2. s(i) \in Slot /\ s(i).handle = slots[i].handle /\ s(i).handle \in AnyHandle
  BY TakenSlots DEF Slot
<1> HIDE DEF s, plan
<1>3. NoHandle \in AnyHandle
  BY DEF AnyHandle
<1>4. CASE i \in plan.stop
  BY <1>1, <1>2, <1>4, MovedFields DEF Rearranged, SlotStates
<1>5. CASE i \notin plan.stop
  BY <1>1, <1>2, <1>3, <1>5, MovedFields DEF Rearranged, SlotStates
<1> QED BY <1>4, <1>5

LEMMA RetireRewrites ==
    ASSUME RegInv, NEW n \in Name, Retire(n)
    PROVE  Rewrites(byErn[n], "Retired", NoHandle) /\ byErn[n] \in Taken
BY TakenSlots, RewriteSlot DEF Retire, SlotStates, AnyHandle

LEMMA SettledSlots ==
    ASSUME RegInv, SettleForShutdown, NEW i \in Index
    PROVE  /\ slots'[i].ern = slots[i].ern /\ slots'[i].restartable = slots[i].restartable
           /\ slots[i].state \in Owed => slots'[i].state = "Retired" /\ slots'[i].handle = NoHandle
           /\ slots[i].state \notin Owed => slots'[i] = slots[i]
<1>1. slots[i].state \in Owed => slots'[i] = Moved(slots[i], "Retired", NoHandle)
  BY DEF SettleForShutdown
<1>2. slots[i].state \notin Owed => slots'[i] = slots[i]
  BY DEF SettleForShutdown
<1> QED BY <1>1, <1>2, TakenSlots, MovedFields DEF SlotStates, AnyHandle

LEMMA NewSlotFields ==
    ASSUME RegInv, NEW n \in Name, NEW restartable \in BOOLEAN, NEW h \in AnyHandle,
           NEW state \in {"Running", "Pending"}, AddSlot(n, NewSlot(n, restartable, h, state))
    PROVE  /\ used + 1 \in Index /\ used' = used + 1 /\ used \in Nat
           /\ \A j \in Index : j # used + 1 => slots'[j] = slots[j]
           /\ slots'[used + 1].ern = n /\ slots'[used + 1].state = state
           /\ slots'[used + 1].handle = h /\ slots'[used + 1].restartable = restartable
<1> DEFINE s == NewSlot(n, restartable, h, state)
<1>1. s \in Slot /\ s.ern = n /\ s.state = state /\ s.handle = h /\ s.restartable = restartable
  BY DEF NewSlot, FirstStatus, Slot, Status, SlotStates, PublishedStates, AnyHandle
<1>2. Publish(s) = [s EXCEPT !.pub = Publish(s).pub]
  BY <1>1, PublishKeeps
<1>3. /\ Publish(s).ern = n /\ Publish(s).state = state /\ Publish(s).handle = h
      /\ Publish(s).restartable = restartable
  BY <1>1, <1>2 DEF Slot
<1>4. /\ used + 1 \in Index /\ used' = used + 1 /\ used \in Nat
      /\ slots \in [Index -> Slot] /\ slots' = [slots EXCEPT ![used + 1] = Publish(s)]
  BY RegistryConstants DEF AddSlot, RegInv, RegTypeOK, Index
<1> HIDE DEF s
<1> QED BY <1>3, <1>4

-------------------------------------------------------------------------------
(* Children.  What no step of anybody undoes.                                *)

ChildStep(c, d) ==
    /\ d.name = c.name /\ d.idx = c.idx
    /\ c.life = "dead" => d.life = "dead"
    /\ d.life = "building" => c.life = "building"
    /\ d.life = "unborn" <=> c.life = "unborn"
    /\ c.signals \subseteq d.signals
    /\ d.holder = "starter" => c.holder = "starter"
    /\ d.holder = "failed" =>
         c.holder = "failed" \/ (c.holder = "starter" /\ c.life = "building")
    /\ d.holder \in {"hirer", "adopter"} => d.holder = c.holder
    /\ Sane(c) => Sane(d)

ChildrenStep ==
    /\ inc' \in [Handle -> Child]
    /\ \A h \in 1..born : ChildStep(inc[h], inc'[h])
    /\ \/ born' = born /\ \A h \in Handle : h > born => inc'[h] = inc[h]
       \/ /\ born' = born + 1 /\ born < MaxHandles
          /\ Sane(inc'[born']) /\ inc'[born'].life \in {"building", "live"}
          /\ \A h \in Handle : h > born' => inc'[h] = inc[h]

LEMMA TheDeadStay ==
    ASSUME NEW c \in Child, c.life = "live", NEW d, d = [c EXCEPT !.life = "dead"]
    PROVE  d \in Child /\ ChildStep(c, d)
BY DEF Child, Lives, ChildStep, Sane

LEMMA HandedOver ==
    ASSUME NEW c \in Child, c.life # "building",
           NEW holder \in Holders \ {"starter", "failed", "hirer", "adopter"},
           NEW d, d = Held(c, holder)
    PROVE  /\ d \in Child /\ ChildStep(c, d)
           /\ d.life = c.life /\ d.signals = c.signals /\ d.holder = holder
BY DEF Child, Held, ChildStep, Sane

LEMMA Told ==
    ASSUME NEW c \in Child, NEW signal \in {"Terminate", "Cascade"},
           NEW d, d = Signalled(c, signal)
    PROVE  /\ d \in Child /\ ChildStep(c, d) /\ d.life = c.life /\ d.holder = c.holder
           /\ c.life = "live" => d.signals # {}
           /\ c.life # "live" => d = c
           /\ d.signals \in {c.signals, c.signals \cup {signal}}
BY DEF Child, Signalled, ChildStep, Sane

LEMMA StepsCompose ==
    ASSUME NEW c, NEW d, NEW e, ChildStep(c, d), ChildStep(d, e)
    PROVE  ChildStep(c, e)
BY DEF ChildStep

LEMMA BornHandles ==
    ASSUME SupInv
    PROVE  /\ born \in Nat /\ MaxHandles \in Nat /\ born <= MaxHandles
           /\ 1..born \subseteq Handle /\ NoHandle \notin Handle
           /\ inc \in [Handle -> Child]
           /\ \A h \in Handle : inc[h] \in Child /\ Sane(inc[h])
           /\ \A h \in Handle : h \notin 1..born => inc[h] = Unborn
BY RegistryConstants
   DEF SupInv, SupTypeOK, Handle, NoHandle, ReferencesHold, ChildRefers

LEMMA NobodyMoves ==
    ASSUME SupInv, UNCHANGED <<inc, born>>
    PROVE  ChildrenStep
<1>1. \A h \in 1..born : ChildStep(inc[h], inc'[h])
  BY BornHandles DEF ChildStep
<1> QED BY <1>1, BornHandles DEF ChildrenStep

LEMMA OneChildMoves ==
    ASSUME SupInv, NEW h \in 1..born, NEW d \in Child, ChildStep(inc[h], d),
           inc' = [inc EXCEPT ![h] = d], born' = born
    PROVE  /\ ChildrenStep /\ inc'[h] = d
           /\ \A g \in Handle : g # h => inc'[g] = inc[g]
<1>1. /\ inc' \in [Handle -> Child] /\ inc'[h] = d
      /\ \A g \in Handle : g # h => inc'[g] = inc[g]
  BY BornHandles
<1>2. \A g \in 1..born : ChildStep(inc[g], inc'[g])
  BY <1>1, BornHandles DEF ChildStep
<1> QED BY <1>1, <1>2, BornHandles DEF ChildrenStep

LEMMA OneChildIsCreated ==
    ASSUME SupInv, NEW c \in Child, Sane(c), c.life \in {"building", "live"}, Create(c)
    PROVE  /\ ChildrenStep /\ Fresh \in Handle /\ born' = Fresh /\ Fresh \notin 1..born
           /\ inc'[Fresh] = c
           /\ \A g \in Handle : g # Fresh => inc'[g] = inc[g]
<1>1. Fresh \in Handle /\ Fresh = born + 1 /\ born' = Fresh /\ born < MaxHandles
  BY BornHandles DEF Create, Fresh, Handle
<1>2. /\ inc' \in [Handle -> Child] /\ inc'[Fresh] = c
      /\ \A g \in Handle : g # Fresh => inc'[g] = inc[g]
  BY <1>1, BornHandles DEF Create
<1>3. \A g \in 1..born : g # Fresh /\ ChildStep(inc[g], inc'[g])
  BY <1>1, <1>2, BornHandles DEF ChildStep
<1> QED BY <1>1, <1>2, <1>3, BornHandles DEF ChildrenStep

\* Everybody moves at most by a signal or by being handed to its owner.
LEMMA ManyChildrenMove ==
    ASSUME SupInv, NEW f \in [Handle -> Child], inc' = f, born' = born,
           \A h \in 1..born : ChildStep(inc[h], f[h]),
           \A h \in Handle : h > born => f[h] = inc[h]
    PROVE  ChildrenStep
BY BornHandles DEF ChildrenStep

(* What a reference says stays true.                                         *)

LEMMA ChildrenKeep ==
    ASSUME SupInv, ChildrenStep
    PROVE  /\ \A h, n : Born(h, n) => Born(h, n)'
           /\ \A h \in 1..born : Kept(h) => Kept(h)'
           /\ \A h \in 1..born : /\ h \in 1..born'
                                 /\ inc'[h].idx = inc[h].idx /\ inc'[h].name = inc[h].name
<1>1. \A h \in 1..born : h \in 1..born'
  BY BornHandles DEF ChildrenStep
<1> QED BY <1>1, BornHandles DEF ChildrenStep, ChildStep, Born, Kept

LEMMA RecordsKeep ==
    ASSUME SupInv, RegInv', RegStep
    PROVE  \A i, n : Recorded(i, n) => Recorded(i, n)'
<1> SUFFICES ASSUME NEW i, NEW n, Recorded(i, n) PROVE Recorded(i, n)'
  OBVIOUS
<1>1. i \in Taken /\ slots[i].ern = n /\ slots'[i].ern = n
  BY DEF RegStep, Recorded
<1>2. used \in Nat /\ used' \in Nat /\ used' >= used
  BY TakenSlots DEF SupInv, RegStep, RegInv, RegTypeOK
<1>3. i \in Taken'
  BY ONLY <1>1, <1>2 DEF Taken
<1> QED BY <1>1, <1>3 DEF Recorded

LEMMA MessageStillRefers ==
    ASSUME SupInv, ChildrenStep, RegInv', RegStep, NEW m, MessageRefers(m)
    PROVE  MessageRefers(m)'
<1>1. m.type = "ChildTerminated" => Born(m.inc, m.name)'
  BY ChildrenKeep DEF MessageRefers
<1>2. m.type = "SupervisedChildStarted" => Recorded(m.idx, m.name)'
  BY RecordsKeep DEF MessageRefers
<1>3. m.type = "SupervisedChildStarted" /\ m.inc # NoHandle =>
        Born(m.inc, m.name)' /\ Kept(m.inc)' /\ inc'[m.inc].idx = m.idx
  BY ChildrenKeep DEF MessageRefers, Born
<1>4. m.type = "RegisterSupervisedChild" =>
        Born(m.inc, m.name)' /\ Kept(m.inc)' /\ inc'[m.inc].idx = NoSlot
  BY ChildrenKeep DEF MessageRefers, Born
<1> QED BY <1>1, <1>2, <1>3, <1>4 DEF MessageRefers

-------------------------------------------------------------------------------
(* The typing invariant, step by step.  A step keeps it when what it adds,   *)
(* a message, a handle on a slot, a child, a group, is as it should be.      *)

MessagesRefer == \A k \in 1..Len(inbox) : MessageRefers(inbox[k])
LastChildRefers == inc[born].idx # NoSlot => Recorded(inc[born].idx, inc[born].name)

InboxStep(m) ==
    \/ inbox' = inbox
    \/ inbox # <<>> /\ inbox' = Tail(inbox)
    \/ inbox' = <<>>
    \/ inbox' = Append(inbox, m) /\ m \in Message /\ MessageRefers(m)'

LEMMA MessagesCarry ==
    ASSUME SupInv, ChildrenStep, RegInv', RegStep, NEW m, InboxStep(m)
    PROVE  inbox' \in Seq(Message) /\ MessagesRefer'
<1> USE DEF MessagesRefer
<1>1. inbox \in Seq(Message) /\ Len(inbox) \in Nat
  BY DEF SupInv, SupTypeOK
<1>2. ASSUME NEW k \in 1..Len(inbox), NEW n, n = inbox[k]
      PROVE  MessageRefers(n)'
  BY <1>2, MessageStillRefers DEF SupInv, ReferencesHold
<1>3. CASE inbox' = inbox
  BY <1>1, <1>2, <1>3
<1>4. CASE inbox # <<>> /\ inbox' = Tail(inbox)
  <2>1. /\ inbox' \in Seq(Message) /\ Len(inbox') = Len(inbox) - 1
        /\ \A k \in 1..Len(inbox') : inbox'[k] = inbox[k + 1] /\ k + 1 \in 1..Len(inbox)
    BY <1>1, <1>4
  <2> QED BY <1>2, <2>1
<1>5. CASE inbox' = <<>>
  BY <1>5
<1>6. CASE inbox' = Append(inbox, m) /\ m \in Message /\ MessageRefers(m)'
  <2>1. /\ inbox' \in Seq(Message) /\ Len(inbox') = Len(inbox) + 1
        /\ \A k \in 1..Len(inbox) : inbox'[k] = inbox[k]
        /\ inbox'[Len(inbox) + 1] = m
    BY <1>1, <1>6
  <2>2. \A k \in 1..Len(inbox') : k \in 1..Len(inbox) \/ k = Len(inbox) + 1
    BY <1>1, <2>1
  <2> QED BY <1>2, <1>6, <2>1, <2>2
<1> QED BY <1>3, <1>4, <1>5, <1>6 DEF InboxStep, MessagesRefer

ReleaserRefers ==
    releaser.got # NoHandle =>
        Born(releaser.got, inc[releaser.got].name) /\ Kept(releaser.got)
        /\ inc[releaser.got].name \in Released
KidsRefer == \A n \in Name : kids[n] # NoHandle => Born(kids[n], n) /\ n \in Adopted

LEMMA ReferencesCarry ==
    ASSUME SupInv, ChildrenStep, RegInv', RegStep, NEW m, InboxStep(m),
           \A i \in Index : slots'[i].handle \in {NoHandle, slots[i].handle} \/ SlotRefers(i)',
           born' = born \/ LastChildRefers',
           releaser'.got = releaser.got \/ ReleaserRefers',
           kids' = kids \/ KidsRefer'
    PROVE  ReferencesHold'
<1>1. MessagesRefer'
  BY MessagesCarry
<1>2. ASSUME NEW i \in Index PROVE SlotRefers(i)'
  <2>1. CASE SlotRefers(i)'
    BY <2>1
  <2>2. CASE slots'[i].handle = slots[i].handle /\ slots[i].handle # NoHandle
    <3>1. i \in Taken /\ slots'[i].ern = slots[i].ern
      BY <2>2, TakenSlots DEF SupInv, Sound, RegStep, ExpectedStop
    <3>2. Born(slots[i].handle, slots[i].ern) /\ Kept(slots[i].handle)
      BY <2>2 DEF SupInv, ReferencesHold, SlotRefers
    <3>3. Born(slots[i].handle, slots[i].ern)' /\ Kept(slots[i].handle)'
      BY <2>2, <3>1, <3>2, ChildrenKeep DEF Born, Kept
    <3> QED BY <3>3 DEF SlotRefers
  <2>3. CASE slots'[i].handle = NoHandle
    BY <2>3 DEF SlotRefers
  <2> QED BY <2>1, <2>2, <2>3
<1>3. ASSUME NEW h \in Handle PROVE ChildRefers(h)'
  <2>1. CASE h \in 1..born
    <3>1. ChildRefers(h) /\ ChildStep(inc[h], inc'[h]) /\ h \in 1..born' /\ born' \in Nat
      BY <2>1, BornHandles, ChildrenKeep DEF SupInv, ReferencesHold, ChildrenStep
    <3>2. Sane(inc'[h]) /\ inc'[h].idx = inc[h].idx /\ inc'[h].name = inc[h].name
      BY <3>1 DEF ChildRefers, ChildStep
    <3>3. ASSUME NEW i, NEW n, i = inc[h].idx, n = inc[h].name, i # NoSlot
          PROVE  Recorded(i, n)'
      BY <3>1, <3>3, RecordsKeep DEF ChildRefers
    <3>4. ~(h > born')
      BY <3>1
    <3> QED BY <3>2, <3>3, <3>4 DEF ChildRefers, Recorded
  <2>2. CASE h > born' /\ h > born
    <3>1. ChildRefers(h) /\ inc'[h] = inc[h] /\ inc[h] = Unborn
      BY <2>2 DEF SupInv, ReferencesHold, ChildrenStep, ChildRefers
    <3>2. Unborn.idx = NoSlot /\ Sane(Unborn)
      BY DEF Unborn, Sane
    <3> QED BY <3>1, <3>2 DEF ChildRefers
  <2>3. CASE h = born' /\ born' = born + 1
    <3>1. Sane(inc'[h])
      BY <2>3, BornHandles DEF ChildrenStep
    <3>2. ~(h > born') /\ born' # born
      BY <2>3, BornHandles
    <3> QED BY <2>3, <3>1, <3>2 DEF ChildRefers, LastChildRefers
  <2> QED BY <2>1, <2>2, <2>3, BornHandles DEF ChildrenStep, Handle
<1>4. ReleaserRefers'
  <2>1. ReleaserRefers
    BY DEF SupInv, ReferencesHold, ReleaserRefers
  <2>2. CASE releaser'.got = releaser.got
    BY <2>1, <2>2, ChildrenKeep DEF ReleaserRefers, Born
  <2> QED BY <2>2
<1>5. KidsRefer'
  <2>1. KidsRefer
    BY DEF SupInv, ReferencesHold, KidsRefer
  <2> QED BY <2>1, ChildrenKeep DEF KidsRefer
<1> QED BY <1>1, <1>2, <1>3, <1>4, <1>5 DEF ReferencesHold, MessagesRefer, ReleaserRefers, KidsRefer

OtherTypes ==
    /\ faults \in 0..MaxFaults
    /\ inboxOpen \in BOOLEAN /\ cancelled \in BOOLEAN
    /\ phase \in {"loop", "awaitStarts", "terminating", "stopped"}
    /\ toStop \subseteq Handle
    /\ \A t \in groups : GroupRestart(t) /\ t.dues # {}
    /\ kids \in [Name -> Handle \cup {NoHandle}]
    /\ releaser \in [at : {"idle", "waiting", "answered", "done"}, name : Name,
                     stopping : BOOLEAN, got : Handle \cup {NoHandle}]

SupStep == SupInv' /\ ChildrenStep /\ [RegNext]_regVars /\ RegStep

LEMMA StepTaken ==
    ASSUME SupInv, ChildrenStep, [RegNext]_regVars, OtherTypes', NEW m, InboxStep(m),
           \A i \in Index : slots'[i].handle \in {NoHandle, slots[i].handle} \/ SlotRefers(i)',
           born' = born \/ LastChildRefers',
           releaser'.got = releaser.got \/ ReleaserRefers',
           kids' = kids \/ KidsRefer'
    PROVE  SupStep
<1>1. RegInv' /\ RegStep
  BY RegNextKeeps DEF SupInv
<1>2. ReferencesHold'
  BY <1>1, ReferencesCarry
<1>3. inbox' \in Seq(Message)
  BY <1>1, MessagesCarry
<1>4. inc' \in [Handle -> Child] /\ born' \in 0..MaxHandles
  BY BornHandles DEF ChildrenStep
<1>5. SupTypeOK' /\ GroupsHaveDues'
  BY <1>1, <1>3, <1>4 DEF SupTypeOK, OtherTypes, GroupsHaveDues, RegInv
<1> QED BY <1>1, <1>2, <1>5 DEF SupInv, SupStep

LEMMA TypesHold == SupInv => OtherTypes
BY DEF SupInv, SupTypeOK, OtherTypes, GroupsHaveDues

\* A step that leaves the registry, the children map and the releaser alone.
LEMMA QuietStepTaken ==
    ASSUME SupInv, ChildrenStep, UNCHANGED <<regVars, kids, releaser>>,
           OtherTypes', NEW m, InboxStep(m),
           born' = born \/ inc'[born'].idx = NoSlot
    PROVE  SupStep
<1>1. \A i \in Index : slots'[i].handle = slots[i].handle
  BY DEF regVars
<1> QED BY <1>1, StepTaken DEF LastChildRefers

LEMMA BusyMeansBorn ==
    ASSUME SupInv, NEW h \in Handle, inc[h].life # "unborn" \/ inc[h].holder # "nobody"
    PROVE  h \in 1..born
BY BornHandles DEF Unborn

\* What is sent refers to what is there.
LEMMA SentOrLost ==
    ASSUME SupInv, NEW m \in Message, Deliver(m), MessageRefers(m)'
    PROVE  InboxStep(m)
BY DEF Deliver, InboxStep

LEMMA NoticeRefers ==
    ASSUME SupInv, ChildrenStep, RegInv', RegStep, NEW h \in 1..born,
           NEW reason \in TerminationReasons, NEW m, m = TerminatedMsg(h, reason)
    PROVE  m \in Message /\ MessageRefers(m)'
<1>1. /\ inc[h] \in Child /\ inc[h].name \in Name /\ h \in Handle
      /\ m = [type |-> "ChildTerminated", name |-> inc[h].name, reason |-> reason, inc |-> h]
  BY BornHandles DEF Child, TerminatedMsg
<1>2. m \in Message
  BY <1>1 DEF Message
<1>3. MessageRefers(m)
  BY <1>1 DEF MessageRefers, Born
<1> QED BY <1>2, <1>3, MessageStillRefers

LEMMA FaultStep == SupInv /\ (\E h \in Handle : Fault(h) \/ Obey(h)) => SupStep
<1> SUFFICES ASSUME SupInv, NEW h \in Handle, Fault(h) \/ Obey(h) PROVE SupStep
  OBVIOUS
<1>1. /\ inc[h].life = "live"
      /\ UNCHANGED <<regVars, born, inboxOpen, cancelled, phase, toStop, taskVars>>
      /\ faults' \in 0..MaxFaults
  BY SupervisionConstants DEF Fault, Obey, SupInv, SupTypeOK
<1>2. PICK reason \in TerminationReasons : Die(h, reason)
  BY SupervisionConstants DEF Fault, Obey, TerminationReasons
<1>3. h \in 1..born /\ inc[h] \in Child
  BY <1>1, BusyMeansBorn, BornHandles
<1>4. PICK d : d = [inc[h] EXCEPT !.life = "dead"]
  OBVIOUS
<1>5. inc' = [inc EXCEPT ![h] = d] /\ d \in Child /\ ChildStep(inc[h], d)
  BY <1>1, <1>2, <1>3, <1>4, TheDeadStay DEF Die
<1>6. ChildrenStep
  BY <1>1, <1>3, <1>5, OneChildMoves
<1>7. PICK m : m = TerminatedMsg(h, reason)
  OBVIOUS
<1>8. RegInv' /\ RegStep
  BY <1>1, NothingHappens DEF SupInv
<1>9. InboxStep(m)
  BY <1>2, <1>3, <1>6, <1>7, <1>8, NoticeRefers, SentOrLost DEF Die
<1>10. OtherTypes'
  BY <1>1, TypesHold DEF OtherTypes, taskVars
<1> QED BY <1>1, <1>6, <1>9, <1>10, QuietStepTaken DEF taskVars

LEMMA BuildStep == SupInv /\ (\E h \in Handle : Build(h)) => SupStep
<1> SUFFICES ASSUME SupInv, NEW h \in Handle, Build(h) PROVE SupStep
  OBVIOUS
<1>1. /\ inc[h].life = "building"
      /\ UNCHANGED <<regVars, born, faults, loopVars, taskVars>>
  BY DEF Build
<1>2. h \in 1..born /\ inc[h] \in Child /\ Sane(inc[h])
  BY <1>1, BusyMeansBorn, BornHandles
<1>3. PICK d : /\ inc' = [inc EXCEPT ![h] = d]
               /\ \/ d = [inc[h] EXCEPT !.life = "live"]
                  \/ d = [inc[h] EXCEPT !.life = "dead", !.holder = "failed"]
                  \/ d = [inc[h] EXCEPT !.life = "dead", !.holder = "nobody"]
  <2>1. CASE inc' = [inc EXCEPT ![h].life = "live"]
    BY <1>2, <2>1, BornHandles
  <2>2. CASE inc' = [inc EXCEPT ![h].life = "dead", ![h].holder = "failed"]
    BY <1>2, <2>2, BornHandles
  <2>3. CASE inc' = [inc EXCEPT ![h].life = "dead", ![h].holder = "nobody"]
    BY <1>2, <2>3, BornHandles
  <2> QED BY <2>1, <2>2, <2>3 DEF Build
<1>4. d \in Child /\ ChildStep(inc[h], d)
  BY <1>1, <1>2, <1>3 DEF Child, Lives, Holders, ChildStep, Sane
<1>5. ChildrenStep
  BY <1>1, <1>2, <1>3, <1>4, OneChildMoves
<1>6. OtherTypes' /\ inbox' = inbox
  BY <1>1, TypesHold DEF OtherTypes, taskVars, loopVars
<1>7. \A m : InboxStep(m)
  BY <1>6 DEF InboxStep
<1> QED BY <1>1, <1>5, <1>6, <1>7, QuietStepTaken DEF taskVars

\* One child changes hands or is told something, and nothing else happens.
LEMMA OneChildTold ==
    ASSUME SupInv, NEW h \in 1..born, NEW d \in Child, ChildStep(inc[h], d),
           inc' = [inc EXCEPT ![h] = d],
           UNCHANGED <<regVars, born, faults, loopVars, kids, releaser>>,
           \A t \in groups' : GroupRestart(t)' /\ t.dues # {}
    PROVE  SupStep
<1>1. ChildrenStep
  BY OneChildMoves
<1>2. OtherTypes' /\ inbox' = inbox
  BY TypesHold DEF OtherTypes, loopVars
<1>3. \A m : InboxStep(m)
  BY <1>2 DEF InboxStep
<1> QED BY <1>1, <1>2, <1>3, QuietStepTaken

LEMMA GroupsStay ==
    SupInv /\ groups' = groups => \A t \in groups' : GroupRestart(t)' /\ t.dues # {}
BY DEF SupInv, SupTypeOK, GroupsHaveDues, GroupRestart

LEMMA StrayStoppedStep == SupInv /\ (\E h \in Handle : StrayStopped(h)) => SupStep
<1> SUFFICES ASSUME SupInv, NEW h \in Handle, StrayStopped(h) PROVE SupStep
  OBVIOUS
<1>1. /\ inc[h].holder = "stray" /\ inc' = [inc EXCEPT ![h] = Held(inc[h], "nobody")]
      /\ UNCHANGED <<regVars, born, faults, loopVars, taskVars>>
  BY DEF StrayStopped
<1>2. h \in 1..born /\ inc[h] \in Child /\ inc[h].life # "building"
  BY <1>1, BusyMeansBorn, BornHandles DEF Sane
<1>3. PICK d : d = Held(inc[h], "nobody")
  OBVIOUS
<1>4. d \in Child /\ ChildStep(inc[h], d)
  BY <1>2, <1>3, HandedOver DEF Holders
<1> QED BY <1>1, <1>2, <1>3, <1>4, OneChildTold, GroupsStay DEF taskVars

LEMMA CallerAnsweredStep == SupInv /\ (\E h \in Handle : CallerAnswered(h)) => SupStep
<1> SUFFICES ASSUME SupInv, NEW h \in Handle, CallerAnswered(h) PROVE SupStep
  OBVIOUS
<1> DEFINE kept == IF inc[h].holder = "accepted" THEN inc[h]
                                                 ELSE Signalled(inc[h], "Terminate")
<1>1. /\ inc[h].holder \in {"accepted", "refused", "waiting"}
      /\ inc' = [inc EXCEPT ![h] = Held(kept, "nobody")]
      /\ UNCHANGED <<regVars, born, faults, loopVars, taskVars>>
  BY DEF CallerAnswered
<1>2. h \in 1..born /\ inc[h] \in Child /\ inc[h].life # "building"
  BY <1>1, BusyMeansBorn, BornHandles DEF Sane
<1>3. PICK c : c = kept
  OBVIOUS
<1>4. c \in Child /\ c.life = inc[h].life /\ ChildStep(inc[h], c)
  <2>1. ChildStep(inc[h], inc[h])
    BY <1>2 DEF ChildStep
  <2> QED BY <1>2, <1>3, <2>1, Told
<1>5. PICK d : d = Held(c, "nobody")
  OBVIOUS
<1>6. d \in Child /\ ChildStep(inc[h], d)
  BY <1>2, <1>4, <1>5, HandedOver, StepsCompose DEF Holders
<1> QED BY <1>1, <1>2, <1>3, <1>5, <1>6, OneChildTold, GroupsStay DEF taskVars

\* A set of natural numbers that is not empty has a least element.
LEMMA LeastExists ==
    ASSUME NEW S, S \subseteq Nat, S # {}
    PROVE  \E x \in S : \A y \in S : x <= y
<1> DEFINE R == {ss \in Nat \X Nat : ss[1] < ss[2]}
<1>1. ASSUME NEW x \in S, NEW y \in S, ~(<<y, x>> \in R)
      PROVE  x <= y
  <2>1. x \in Nat /\ y \in Nat /\ ~(y < x)
    BY <1>1
  <2> QED BY ONLY <2>1
<1>2. IsWellFoundedOn(R, Nat)
  BY NatLessThanWellFounded DEF OpToRel
<1>0. S \subseteq Nat /\ S # {}
  OBVIOUS
<1> HIDE DEF R
<1>3. \E x \in S : \A y \in S : ~(<<y, x>> \in R)
  BY <1>0, <1>2, WFMin, Zenon
<1> QED BY <1>1, <1>3

LEMMA TheNextDue ==
    ASSUME NEW t, t.dues # {}, \A d \in t.dues : d.idx \in Index
    PROVE  NextDue(t) \in t.dues
<1> DEFINE S == {d.idx : d \in t.dues}
<1>1. S \subseteq Nat /\ S # {}
  BY DEF Index
<1>2. PICK x \in S : \A y \in S : x <= y
  BY <1>1, LeastExists
<1>3. \E d \in t.dues : \A r \in t.dues : d.idx <= r.idx
  BY <1>2
<1> QED BY <1>3 DEF NextDue

LEMMA ReportStep == SupInv /\ (\E h \in Handle : Report(h)) => SupStep
<1> SUFFICES ASSUME SupInv, NEW h \in Handle, Report(h) PROVE SupStep
  OBVIOUS
<1> DEFINE to == IF inboxOpen \/ inc[h].holder = "failed"
                 THEN Held(inc[h], "nobody")
                 ELSE Held(Signalled(inc[h], "Terminate"), "stray")
<1>1. /\ inc[h].holder \in {"starter", "failed"} /\ inc[h].life \in {"live", "dead"}
      /\ Deliver(StartedMsg(h))
      /\ inc' = [inc EXCEPT ![h] = to]
      /\ UNCHANGED <<regVars, born, faults, inboxOpen, cancelled, phase, toStop, taskVars>>
  BY DEF Report
<1>2. h \in 1..born /\ inc[h] \in Child /\ inc[h].life # "building" /\ ChildRefers(h)
  BY <1>1, BusyMeansBorn, BornHandles DEF SupInv, ReferencesHold
<1>3. PICK d : d = to
  OBVIOUS
<1>4. d \in Child /\ ChildStep(inc[h], d) /\ d.holder \notin {"starter", "failed"}
  <2>1. PICK c : c = Signalled(inc[h], "Terminate")
    OBVIOUS
  <2>2. c \in Child /\ ChildStep(inc[h], c) /\ c.life = inc[h].life
    BY <1>2, <2>1, Told
  <2>3. CASE d = Held(inc[h], "nobody")
    BY <1>2, <2>3, HandedOver DEF Holders
  <2>4. CASE d = Held(c, "stray")
    BY <1>2, <2>2, <2>4, HandedOver, StepsCompose DEF Holders
  <2> QED BY <1>3, <2>1, <2>3, <2>4
<1>5. /\ ChildrenStep /\ inc'[h] = d
  BY <1>1, <1>2, <1>3, <1>4, OneChildMoves
<1>6. PICK m : m = StartedMsg(h)
  OBVIOUS
<1>7. RegInv' /\ RegStep
  BY <1>1, NothingHappens DEF SupInv
<1>8. /\ inc[h].idx \in Index /\ Recorded(inc[h].idx, inc[h].name) /\ inc[h].name \in Name
  BY <1>1, <1>2 DEF ChildRefers, Sane, Child
<1>9. /\ m.type = "SupervisedChildStarted" /\ m.name = inc[h].name /\ m.idx = inc[h].idx
      /\ m.inc \in {h, NoHandle} /\ m \in Message
  BY <1>6, <1>8 DEF StartedMsg, Message
<1>10. PICK i, n : i = inc[h].idx /\ n = inc[h].name
  OBVIOUS
<1>11. Recorded(i, n)'
  BY <1>7, <1>8, <1>10, RecordsKeep
<1>12. Born(h, n)' /\ inc'[h].idx = i /\ Kept(h)'
  BY <1>2, <1>4, <1>5, <1>10, ChildrenKeep DEF Born, Kept
<1>13. MessageRefers(m)'
  BY <1>9, <1>10, <1>11, <1>12 DEF MessageRefers
<1>14. InboxStep(m)
  BY <1>1, <1>6, <1>9, <1>13, SentOrLost
<1>15. OtherTypes'
  BY <1>1, TypesHold DEF OtherTypes, taskVars
<1> QED BY <1>1, <1>5, <1>14, <1>15, QuietStepTaken DEF taskVars

LEMMA NoChildMoves ==
    ASSUME SupInv, UNCHANGED <<regVars, inc, born, kids, releaser>>, OtherTypes',
           NEW m, InboxStep(m)
    PROVE  SupStep
BY NobodyMoves, QuietStepTaken

LEMMA GroupSteps ==
    ASSUME SupInv, NEW t \in groups,
           AskSibling(t) \/ SiblingDown(t) \/ SendDue(t) \/ AbandonBackoff(t)
    PROVE  SupStep
<1>1. GroupRestart(t) /\ t.dues # {} /\ OtherTypes
  BY TypesHold DEF OtherTypes
<1>2. \A g \in groups : GroupRestart(g)' /\ g.dues # {}
  BY TypesHold DEF OtherTypes, GroupRestart
<1>3. CASE AskSibling(t)
  <2> DEFINE h == NextStop(t).inc
  <2>1. /\ groups' = (groups \ {t}) \cup {[t EXCEPT !.asked = TRUE]}
        /\ inc' = [inc EXCEPT ![h] = Signalled(inc[h], "Terminate")]
        /\ UNCHANGED <<regVars, born, faults, loopVars, kids, releaser>>
    BY <1>3 DEF AskSibling, Advance
  <2>2. \A g \in groups' : GroupRestart(g)' /\ g.dues # {}
    <3>1. PICK u : u = [t EXCEPT !.asked = TRUE]
      OBVIOUS
    <3>2. /\ u.dues = t.dues /\ u.stops = t.stops /\ u.id = t.id /\ u.due = t.due
          /\ u.asked \in BOOLEAN
      BY <1>1, <3>1 DEF GroupRestart
    <3>3. GroupRestart(u)' /\ u.dues # {}
      BY <1>1, <3>2 DEF GroupRestart
    <3> QED BY <1>2, <2>1, <3>1, <3>3
  <2>3. CASE h \in 1..born
    <3>1. PICK d : d = Signalled(inc[h], "Terminate")
      OBVIOUS
    <3>2. d \in Child /\ ChildStep(inc[h], d)
      BY <2>3, <3>1, BornHandles, Told
    <3> HIDE DEF h
    <3> QED BY <2>1, <2>2, <2>3, <3>1, <3>2, OneChildTold
  <2>4. CASE h \notin 1..born
    <3>1. inc' = inc
      <4>1. CASE h \notin Handle
        BY <2>1, <4>1, BornHandles
      <4>2. CASE h \in Handle
        <5>0. inc[h] = Unborn
          BY <2>4, <4>2, BornHandles
        <5>1. Signalled(inc[h], "Terminate") = inc[h]
          BY <5>0 DEF Unborn, Signalled
        <5> QED BY <2>1, <4>2, <5>1, BornHandles
      <4> QED BY <4>1, <4>2
    <3>2. OtherTypes' /\ \A m : InboxStep(m)
      BY <1>1, <2>1, <2>2 DEF OtherTypes, loopVars, InboxStep
    <3> QED BY <2>1, <3>1, <3>2, NoChildMoves
  <2> QED BY <2>3, <2>4
<1>4. CASE SiblingDown(t)
  <2>1. PICK u : u = [t EXCEPT !.asked = FALSE, !.stops = @ \ {NextStop(t)}]
    OBVIOUS
  <2>2. /\ t.stops # {} /\ groups' = (groups \ {t}) \cup {u}
        /\ UNCHANGED <<regVars, childVars, loopVars, kids, releaser>>
    BY <1>4, <2>1 DEF SiblingDown, Advance
  <2>3. GroupRestart(u)' /\ u.dues # {}
    <3>1. /\ u.dues = t.dues /\ u.stops \subseteq t.stops /\ u.id = t.id /\ u.due = t.due
          /\ u.asked \in BOOLEAN
      BY <1>1, <2>1 DEF GroupRestart
    <3> QED BY <1>1, <3>1 DEF GroupRestart
  <2>4. OtherTypes' /\ \A m : InboxStep(m)
    BY <1>1, <1>2, <2>2, <2>3 DEF OtherTypes, loopVars, childVars, InboxStep
  <2> QED BY <2>2, <2>4, NoChildMoves DEF childVars
<1>5. CASE AbandonBackoff(t)
  <2>1. /\ groups' = groups \ {t}
        /\ UNCHANGED <<regVars, childVars, loopVars, kids, releaser>>
    BY <1>5 DEF AbandonBackoff
  <2>2. OtherTypes' /\ \A m : InboxStep(m)
    BY <1>1, <1>2, <2>1 DEF OtherTypes, loopVars, childVars, InboxStep
  <2> QED BY <2>1, <2>2, NoChildMoves DEF childVars
<1>6. CASE SendDue(t)
  <2>1. PICK d : d = NextDue(t)
    OBVIOUS
  <2>2. d \in t.dues /\ d.idx \in Index /\ d.name \in Name /\ d.gen \in Nat
    BY <1>1, <2>1, TheNextDue DEF GroupRestart
  <2>3. PICK u : u = [t EXCEPT !.dues = t.dues \ {d}, !.due = TRUE]
    OBVIOUS
  <2>4. /\ Deliver(DueMsg(d))
        /\ \/ groups' = groups \ {t}
           \/ t.dues \ {d} # {} /\ groups' = (groups \ {t}) \cup {u}
        /\ UNCHANGED <<regVars, childVars, inboxOpen, cancelled, phase, toStop, kids, releaser>>
    BY <1>6, <2>1, <2>3 DEF SendDue, Advance
  <2>5. t.dues \ {d} # {} => GroupRestart(u)' /\ u.dues # {}
    <3>1. /\ u.dues = t.dues \ {d} /\ u.stops = t.stops /\ u.id = t.id
          /\ u.due \in BOOLEAN /\ u.asked = t.asked
      BY <1>1, <2>3 DEF GroupRestart
    <3> QED BY <1>1, <3>1 DEF GroupRestart
  <2>6. OtherTypes'
    BY <1>1, <1>2, <2>4, <2>5 DEF OtherTypes, childVars
  <2>7. PICK m : m = DueMsg(d)
    OBVIOUS
  <2>8. m \in Message /\ MessageRefers(m)'
    BY <2>2, <2>7 DEF DueMsg, Message, MessageRefers
  <2>9. InboxStep(m)
    BY <2>4, <2>7, <2>8, SentOrLost
  <2> QED BY <2>4, <2>6, <2>9, NoChildMoves DEF childVars
<1> QED BY <1>3, <1>4, <1>5, <1>6

\* Building a child record whose other fields are Unborn's.
LEMMA UnbornFields ==
    /\ Unborn \in Child /\ Unborn.idx = NoSlot /\ Unborn.signals = {}
    /\ Unborn.life = "unborn" /\ Unborn.holder = "nobody"
<1>1. (CHOOSE m \in Name : TRUE) \in Name
  BY RegistryConstants
<1> QED BY <1>1 DEF Unborn, Child, Lives, Holders

LEMMA HiredChild ==
    ASSUME NEW n \in Name, Hire(n)
    PROVE  \E c : /\ c \in Child /\ Sane(c) /\ c.name = n /\ c.idx = NoSlot
                  /\ c.life = "live" /\ c.signals = {} /\ c.holder \in {"hirer", "adopter"}
                  /\ Create(c)
                  /\ NeverBuilt(n) \/ n \in Reused
                  /\ \/ c.holder = "hirer" /\ n \in Hired /\ UNCHANGED kids
                     \/ /\ c.holder = "adopter" /\ n \in Adopted /\ NeverBuilt(n)
                        /\ kids' = [kids EXCEPT ![n] = Fresh]
<1>1. CASE /\ n \in Hired /\ (n \in Reused \/ NeverBuilt(n)) /\ UNCHANGED kids
           /\ Create([Unborn EXCEPT !.name = n, !.life = "live", !.holder = "hirer"])
  <2>1. PICK c : c = [Unborn EXCEPT !.name = n, !.life = "live", !.holder = "hirer"]
    OBVIOUS
  <2>4. /\ c \in Child /\ Sane(c) /\ c.name = n /\ c.idx = NoSlot /\ c.life = "live"
        /\ c.signals = {} /\ c.holder = "hirer"
    BY <2>1, UnbornFields DEF Child, Lives, Holders, Sane
  <2>5. Create(c)
    BY <1>1, <2>1
  <2> QED BY <1>1, <2>4, <2>5
<1>2. CASE /\ n \in Adopted /\ NeverBuilt(n) /\ kids' = [kids EXCEPT ![n] = Fresh]
           /\ Create([Unborn EXCEPT !.name = n, !.life = "live", !.holder = "adopter"])
  <2>1. PICK c : c = [Unborn EXCEPT !.name = n, !.life = "live", !.holder = "adopter"]
    OBVIOUS
  <2>4. /\ c \in Child /\ Sane(c) /\ c.name = n /\ c.idx = NoSlot /\ c.life = "live"
        /\ c.signals = {} /\ c.holder = "adopter"
    BY <2>1, UnbornFields DEF Child, Lives, Holders, Sane
  <2>5. Create(c)
    BY <1>2, <2>1
  <2> QED BY <1>2, <2>4, <2>5
<1> QED BY <1>1, <1>2 DEF Hire

LEMMA HireStep == SupInv /\ (\E n \in Name : Hire(n)) => SupStep
<1> SUFFICES ASSUME SupInv, NEW n \in Name, Hire(n) PROVE SupStep
  OBVIOUS
<1>1. PICK c : /\ c \in Child /\ Sane(c) /\ c.name = n /\ c.idx = NoSlot
               /\ c.life = "live" /\ Create(c)
               /\ \/ UNCHANGED kids
                  \/ n \in Adopted /\ kids' = [kids EXCEPT ![n] = Fresh]
  BY HiredChild
<1>2. UNCHANGED <<regVars, faults, loopVars, groups, releaser>>
  BY DEF Hire
<1>4. /\ c \in Child /\ Sane(c) /\ c.life = "live" /\ c.name = n /\ c.idx = NoSlot
  BY <1>1
<1>5. /\ ChildrenStep /\ Fresh \in Handle /\ born' = Fresh /\ inc'[Fresh] = c
  BY <1>1, <1>4, OneChildIsCreated
<1>6. LastChildRefers'
  BY <1>4, <1>5 DEF LastChildRefers
<1>7. kids \in [Name -> Handle \cup {NoHandle}]
  BY DEF SupInv, SupTypeOK
<1>8. OtherTypes'
  BY <1>1, <1>2, <1>5, <1>7, TypesHold DEF OtherTypes, loopVars
<1>9. kids' = kids \/ KidsRefer'
  <2>1. CASE n \in Adopted /\ kids' = [kids EXCEPT ![n] = Fresh]
    <3>1. kids'[n] = Fresh /\ \A x \in Name : x # n => kids'[x] = kids[x]
      BY <2>1, <1>7
    <3>2. PICK f : f = Fresh
      OBVIOUS
    <3>3. born' \in Nat /\ born' >= 1 /\ born' = f
      BY <1>5, <3>2 DEF Handle
    <3>4. Born(f, n)' /\ kids'[n] = f
      BY <1>4, <1>5, <3>1, <3>2, <3>3 DEF Born
    <3>5. KidsRefer
      BY DEF SupInv, ReferencesHold, KidsRefer
    <3>6. ASSUME NEW x \in Name, kids'[x] # NoHandle, NEW k, k = kids'[x]
          PROVE  Born(k, x)' /\ x \in Adopted
      <4>1. CASE x = n
        BY <2>1, <3>4, <3>6, <4>1
      <4>2. CASE x # n
        BY <1>5, <3>1, <3>5, <3>6, <4>2, ChildrenKeep DEF KidsRefer
      <4> QED BY <4>1, <4>2
    <3> QED BY <3>6 DEF KidsRefer
  <2> QED BY <1>1, <2>1
<1>10. \A m : InboxStep(m)
  BY <1>2 DEF InboxStep, loopVars
<1>11. \A i \in Index : slots'[i].handle = slots[i].handle
  BY <1>2 DEF regVars
<1> QED BY <1>2, <1>5, <1>6, <1>8, <1>9, <1>10, <1>11, StepTaken

LEMMA AskToRegisterStep == SupInv /\ (\E h \in Handle : AskToRegister(h)) => SupStep
<1> SUFFICES ASSUME SupInv, NEW h \in Handle, AskToRegister(h) PROVE SupStep
  OBVIOUS
<1>1. PICK holder \in {"waiting", "nobody", "owner"} :
        inc' = [inc EXCEPT ![h] = Held(inc[h], holder)]
  BY DEF AskToRegister
<1>2. PICK restartable \in BOOLEAN : Deliver(RegisterMsg(h, restartable))
  BY DEF AskToRegister
<1>3. /\ inc[h].holder \in {"hirer", "adopter"}
      /\ UNCHANGED <<regVars, born, faults, inboxOpen, cancelled, phase, toStop, taskVars>>
  BY DEF AskToRegister
<1>4. h \in 1..born /\ inc[h] \in Child /\ inc[h].life # "building"
  BY <1>3, BusyMeansBorn, BornHandles DEF Sane
<1>5. PICK d : d = Held(inc[h], holder)
  OBVIOUS
<1>6. d \in Child /\ ChildStep(inc[h], d) /\ d.holder \notin {"starter", "failed"}
  BY <1>4, <1>5, HandedOver DEF Holders
<1>7. ChildrenStep /\ inc'[h] = d
  BY <1>1, <1>3, <1>4, <1>5, <1>6, OneChildMoves
<1>8. PICK m : m = RegisterMsg(h, restartable)
  OBVIOUS
<1>9. m \in Message /\ m.type = "RegisterSupervisedChild" /\ m.inc = h /\ m.name = inc[h].name
  BY <1>4, <1>8 DEF RegisterMsg, Message, Child
<1>10. RegInv' /\ RegStep
  BY <1>3, NothingHappens DEF SupInv
<1>11. MessageRefers(m)'
  <2>1. Born(h, inc[h].name)
    BY <1>4 DEF Born
  <2>2. PICK n : n = inc[h].name
    OBVIOUS
  <2>3. Born(h, n)' /\ Kept(h)'
    BY <1>6, <1>7, <2>1, <2>2, ChildrenKeep DEF Kept
  <2>4. inc[h].idx = NoSlot
    BY <1>3, <1>4, BornHandles DEF Sane
  <2>5. inc'[h].idx = NoSlot
    BY <1>4, <1>7, <2>4, ChildrenKeep
  <2> QED BY <1>9, <2>2, <2>3, <2>5 DEF MessageRefers
<1>12. InboxStep(m)
  BY <1>2, <1>8, <1>9, <1>11, SentOrLost
<1>13. OtherTypes'
  BY <1>3, TypesHold DEF OtherTypes, taskVars
<1> QED BY <1>3, <1>7, <1>12, <1>13, QuietStepTaken DEF taskVars

-------------------------------------------------------------------------------
(* The registry's operations inside the supervisor's steps.                  *)

LEMMA HeadRefers ==
    ASSUME SupInv, inbox # <<>>, NEW m, m = Head(inbox)
    PROVE  m \in Message /\ MessageRefers(m) /\ inbox[1] = m
<1>1. inbox \in Seq(Message) /\ 1 \in 1..Len(inbox) /\ m = inbox[1] /\ m \in Message
  BY DEF SupInv, SupTypeOK
<1> QED BY <1>1 DEF SupInv, ReferencesHold

\* The registry moves on without a new handle, and nobody's hands change.
LEMMA OnlyRecordsMove ==
    ASSUME SupInv, UNCHANGED <<childVars, kids, releaser>>, [RegNext]_regVars,
           \A i \in Index : slots'[i].handle \in {NoHandle, slots[i].handle},
           OtherTypes', NEW m, InboxStep(m)
    PROVE  SupStep
BY NobodyMoves, StepTaken DEF childVars

LEMMA SuperviseDeferredStep ==
    SupInv /\ (\E n \in Name : SuperviseDeferred(n)) => SupStep
<1> SUFFICES ASSUME SupInv, NEW n \in Name, SuperviseDeferred(n) PROVE SupStep
  OBVIOUS
<1>1. RegisterPending(n) /\ UNCHANGED <<childVars, loopVars, taskVars>>
  BY DEF SuperviseDeferred
<1>2. RegNext
  BY <1>1 DEF RegNext
<1>3. \A i \in Index : slots'[i].handle \in {NoHandle, slots[i].handle}
  BY <1>1, NewSlotFields DEF SupInv, RegisterPending, AnyHandle
<1>4. OtherTypes' /\ \A m : InboxStep(m)
  BY <1>1, TypesHold DEF OtherTypes, childVars, loopVars, taskVars, InboxStep
<1> QED BY <1>1, <1>2, <1>3, <1>4, OnlyRecordsMove DEF taskVars

LEMMA AskToReleaseStep == SupInv /\ (\E n \in Name : AskToRelease(n)) => SupStep
<1> SUFFICES ASSUME SupInv, NEW n \in Name, AskToRelease(n) PROVE SupStep
  OBVIOUS
<1>1. /\ n \in Released /\ Deliver(UnregisterMsg(n))
      /\ UNCHANGED <<regVars, childVars, inboxOpen, cancelled, phase, toStop, groups, kids>>
  BY DEF AskToRelease
<1>2. PICK stopping \in BOOLEAN :
        releaser' = [at |-> "waiting", name |-> n, stopping |-> stopping, got |-> NoHandle]
  BY DEF AskToRelease
<1>3. OtherTypes'
  BY <1>1, <1>2, TypesHold DEF OtherTypes, childVars
<1>4. PICK m : m = UnregisterMsg(n)
  OBVIOUS
<1>5. m \in Message /\ MessageRefers(m)'
  BY <1>1, <1>4 DEF UnregisterMsg, Message, MessageRefers
<1>6. InboxStep(m)
  BY <1>1, <1>4, <1>5, SentOrLost
<1>7. ReleaserRefers'
  BY <1>2 DEF ReleaserRefers
<1>8. ChildrenStep /\ \A i \in Index : slots'[i].handle = slots[i].handle
  BY <1>1, NobodyMoves DEF childVars, regVars
<1> QED BY <1>1, <1>3, <1>6, <1>7, <1>8, StepTaken DEF childVars

LEMMA ReleaserReturnsStep == SupInv /\ ReleaserReturns => SupStep
<1> SUFFICES ASSUME SupInv, ReleaserReturns PROVE SupStep
  OBVIOUS
<1>1. /\ releaser' = [releaser EXCEPT !.at = "done"]
      /\ inc' = [h \in Handle |->
                   IF h # releaser.got THEN inc[h]
                   ELSE IF releaser.stopping THEN Signalled(inc[h], "Terminate")
                                             ELSE Held(inc[h], "owner")]
      /\ UNCHANGED <<regVars, born, faults, loopVars, groups, kids>>
  BY DEF ReleaserReturns
<1>2. PICK f : f = inc'
  OBVIOUS
<1>3. ASSUME NEW h \in Handle
      PROVE  f[h] \in Child /\ (h \in 1..born => ChildStep(inc[h], f[h]))
             /\ (h > born => f[h] = inc[h])
  <2>1. CASE h # releaser.got
    BY <1>1, <1>2, <2>1, BornHandles DEF ChildStep
  <2>2. CASE h = releaser.got
    <3>1. /\ h \in 1..born /\ inc[h] \in Child /\ inc[h].life # "building"
          /\ inc[h].holder \notin {"starter", "failed"}
      BY <2>2, BornHandles DEF SupInv, ReferencesHold, Born, Kept, Sane
    <3>2. PICK d : d = f[h]
      OBVIOUS
    <3>3. d = Signalled(inc[h], "Terminate") \/ d = Held(inc[h], "owner")
      BY <1>1, <1>2, <2>2, <3>2
    <3>4. d \in Child /\ ChildStep(inc[h], d)
      BY <3>1, <3>3, Told, HandedOver DEF Holders
    <3> QED BY <3>1, <3>2, <3>4, BornHandles
  <2> QED BY <2>1, <2>2
<1>4. f \in [Handle -> Child]
  BY <1>1, <1>2, <1>3
<1>5. ChildrenStep
  BY <1>1, <1>2, <1>3, <1>4, BornHandles, ManyChildrenMove
<1>6. releaser'.got = releaser.got /\ releaser' \in [at : {"idle", "waiting", "answered", "done"},
              name : Name, stopping : BOOLEAN, got : Handle \cup {NoHandle}]
  BY <1>1 DEF SupInv, SupTypeOK
<1>7. OtherTypes'
  BY <1>1, <1>6, TypesHold DEF OtherTypes, loopVars
<1>8. \A m : InboxStep(m)
  BY <1>1 DEF InboxStep, loopVars
<1>9. \A i \in Index : slots'[i].handle = slots[i].handle
  BY <1>1 DEF regVars
<1> QED BY <1>1, <1>5, <1>6, <1>7, <1>8, <1>9, StepTaken

LEMMA AskSupervisorToStopStep == SupInv /\ AskSupervisorToStop => SupStep
<1> SUFFICES ASSUME SupInv, AskSupervisorToStop PROVE SupStep
  OBVIOUS
<1>1. /\ Deliver(StopMsg)
      /\ UNCHANGED <<regVars, childVars, inboxOpen, cancelled, phase, toStop, taskVars>>
  BY DEF AskSupervisorToStop
<1>2. PICK m : m = StopMsg
  OBVIOUS
<1>3. m \in Message /\ MessageRefers(m)'
  BY <1>2 DEF StopMsg, Message, MessageRefers
<1>4. InboxStep(m)
  BY <1>1, <1>2, <1>3, SentOrLost
<1>5. OtherTypes'
  BY <1>1, TypesHold DEF OtherTypes, childVars, taskVars
<1> QED BY <1>1, <1>4, <1>5, NoChildMoves DEF childVars, taskVars

LEMMA ReceiveStopStep == SupInv /\ ReceiveStop => SupStep
<1> SUFFICES ASSUME SupInv, ReceiveStop PROVE SupStep
  OBVIOUS
<1>1. /\ inbox # <<>> /\ inbox' = Tail(inbox) /\ inboxOpen' = FALSE
      /\ UNCHANGED <<regVars, childVars, cancelled, phase, toStop, taskVars>>
  BY DEF ReceiveStop
<1>2. OtherTypes' /\ \A m : InboxStep(m)
  BY <1>1, TypesHold DEF OtherTypes, childVars, taskVars, InboxStep
<1> QED BY <1>1, <1>2, NoChildMoves DEF childVars, taskVars

LEMMA LeaveLoopStep == SupInv /\ LeaveLoop => SupStep
<1> SUFFICES ASSUME SupInv, LeaveLoop PROVE SupStep
  OBVIOUS
<1>1. /\ phase' = "awaitStarts" /\ SettleForShutdown /\ inboxOpen' = FALSE
      /\ UNCHANGED <<childVars, inbox, cancelled, toStop, taskVars>>
  BY DEF LeaveLoop
<1>2. RegNext
  BY <1>1 DEF RegNext
<1>3. \A i \in Index : slots'[i].handle \in {NoHandle, slots[i].handle}
  BY <1>1, SettledSlots DEF SupInv
<1>4. OtherTypes' /\ \A m : InboxStep(m)
  BY <1>1, TypesHold DEF OtherTypes, childVars, taskVars, InboxStep
<1> QED BY <1>1, <1>2, <1>3, <1>4, OnlyRecordsMove DEF taskVars

LEMMA StoppedStep == SupInv /\ Stopped => SupStep
<1> SUFFICES ASSUME SupInv, Stopped PROVE SupStep
  OBVIOUS
<1>1. /\ phase' = "stopped"
      /\ UNCHANGED <<regVars, childVars, inbox, inboxOpen, cancelled, toStop, taskVars>>
  BY DEF Stopped
<1>2. OtherTypes' /\ \A m : InboxStep(m)
  BY <1>1, TypesHold DEF OtherTypes, childVars, taskVars, InboxStep
<1> QED BY <1>1, <1>2, NoChildMoves DEF childVars, taskVars

LEMMA StutterStep == SupInv /\ UNCHANGED vars => SupStep
<1> SUFFICES ASSUME SupInv, UNCHANGED vars PROVE SupStep
  OBVIOUS
<1>1. UNCHANGED <<regVars, childVars, loopVars, taskVars>>
  BY DEF vars
<1>2. OtherTypes' /\ \A m : InboxStep(m)
  BY <1>1, TypesHold DEF OtherTypes, childVars, loopVars, taskVars, InboxStep
<1> QED BY <1>1, <1>2, NoChildMoves DEF childVars, taskVars

LEMMA LaunchStartStep == SupInv /\ LaunchStart => SupStep
<1> SUFFICES ASSUME SupInv, LaunchStart PROVE SupStep
  OBVIOUS
<1>1. PICK i : i = Head(pending)
  OBVIOUS
<1>2. /\ BeginStart
      /\ Launchable(i) => Create([Unborn EXCEPT !.name = slots[i].ern, !.idx = i,
                                                !.life = "building", !.holder = "starter"])
      /\ ~Launchable(i) => UNCHANGED <<inc, born>>
      /\ UNCHANGED <<faults, loopVars, taskVars>>
  BY <1>1 DEF LaunchStart
<1>3. RegNext /\ RegInv' /\ RegStep
  BY <1>2, BeginStartKeeps DEF RegNext, SupInv
<1>4. i \in Index /\ slots[i].ern \in Name /\ (slots[i].state # "Unused" => i \in Taken)
  BY <1>1, <1>2, BeginStartRewrites, TakenSlots DEF SupInv
<1>5. OtherTypes' /\ \A m : InboxStep(m)
  BY <1>2, TypesHold DEF OtherTypes, loopVars, taskVars, InboxStep
<1>6. CASE ~Launchable(i)
  <2>1. slots' = slots /\ UNCHANGED <<inc, born>>
    BY <1>1, <1>2, <1>6, BeginStartRewrites DEF SupInv
  <2>2. ChildrenStep
    BY <2>1, NobodyMoves
  <2> QED BY <1>2, <1>3, <1>5, <2>1, <2>2, StepTaken DEF taskVars
<1>7. CASE Launchable(i)
  <2>1. PICK n : n = slots[i].ern
    OBVIOUS
  <2>2. PICK c : c = [Unborn EXCEPT !.name = n, !.idx = i, !.life = "building",
                                    !.holder = "starter"]
    OBVIOUS
  <2>3. /\ c \in Child /\ Sane(c) /\ c.name = n /\ c.idx = i /\ c.life = "building"
    <3>1. i # NoSlot
      BY <1>4 DEF Index, NoSlot
    <3> QED BY <1>4, <2>1, <2>2, <3>1, UnbornFields DEF Child, Lives, Holders, Sane
  <2>4. Create(c)
    BY <1>2, <1>7, <2>1, <2>2
  <2>5. /\ ChildrenStep /\ born' = Fresh /\ inc'[Fresh] = c
    BY <2>3, <2>4, OneChildIsCreated
  <2>6. Recorded(i, n)
    BY <1>4, <1>7, <2>1 DEF Launchable, Recorded
  <2>7. Recorded(i, n)'
    BY <1>3, <2>6, RecordsKeep
  <2>8. LastChildRefers'
    BY <2>3, <2>5, <2>7 DEF LastChildRefers, Recorded
  <2>9. \A j \in Index : slots'[j].handle \in {NoHandle, slots[j].handle}
    BY <1>1, <1>2, <1>7, BeginStartRewrites DEF SupInv, Rewrites
  <2> QED BY <1>2, <1>3, <1>5, <2>5, <2>8, <2>9, StepTaken DEF taskVars
<1> QED BY <1>6, <1>7

LEMMA ReceiveRegisterStep == SupInv /\ ReceiveRegister => SupStep
<1> SUFFICES ASSUME SupInv, ReceiveRegister PROVE SupStep
  OBVIOUS
<1>1. PICK m : m = Head(inbox)
  OBVIOUS
<1>2. PICK answer \in {"refused", "accepted"} :
        /\ Register(m.name, m.inc, m.restartable) \/ RegisterDuplicate(m.name)
        /\ inc' = IF m.restartable THEN [inc EXCEPT ![m.inc] = Held(@, answer)] ELSE inc
  BY <1>1 DEF ReceiveRegister
<1>3. /\ inbox # <<>> /\ m.type = "RegisterSupervisedChild" /\ inbox' = Tail(inbox)
      /\ UNCHANGED <<inboxOpen, phase, toStop, born, faults, cancelled, taskVars>>
  BY <1>1 DEF ReceiveRegister, Receive
<1>4. /\ m.name \in Name /\ m.inc \in Handle /\ m.restartable \in BOOLEAN
      /\ Born(m.inc, m.name) /\ Kept(m.inc)
  BY <1>1, <1>3, HeadRefers DEF Message, MessageRefers
<1>5. PICK h, n : h = m.inc /\ n = m.name
  OBVIOUS
<1>6. h \in 1..born /\ inc[h] \in Child /\ inc[h].life # "building" /\ inc[h].name = n /\ Kept(h)
  BY <1>4, <1>5, BornHandles DEF Born, Kept, Sane
<1>7. ChildrenStep /\ Born(h, n)' /\ Kept(h)'
  <2>1. CASE inc' = inc
    BY <1>3, <1>4, <1>5, <1>6, <2>1, NobodyMoves DEF Born, Kept
  <2>2. CASE inc' = [inc EXCEPT ![h] = Held(inc[h], answer)]
    <3>1. PICK d : d = Held(inc[h], answer)
      OBVIOUS
    <3>2. d \in Child /\ ChildStep(inc[h], d) /\ d.holder = answer
      BY <1>6, <3>1, HandedOver DEF Holders
    <3>3. ChildrenStep /\ inc'[h] = d
      BY <1>3, <1>6, <2>2, <3>1, <3>2, OneChildMoves
    <3> QED BY <1>3, <1>6, <3>2, <3>3 DEF Born, Kept, ChildStep
  <2> QED BY <1>2, <1>4, <1>5, <2>1, <2>2
<1>8. RegNext \/ UNCHANGED regVars
  BY <1>2, <1>4 DEF RegNext
<1>9. \A i \in Index : slots'[i].handle \in {NoHandle, slots[i].handle} \/ SlotRefers(i)'
  <2>1. CASE Register(n, h, m.restartable)
    <3>1. PICK r \in BOOLEAN : r = m.restartable
      BY <1>4
    <3>2. PICK u : u = used + 1
      OBVIOUS
    <3>3. /\ slots'[u].ern = n /\ slots'[u].handle = h
          /\ \A j \in Index : j # u => slots'[j] = slots[j]
      BY <1>4, <1>5, <2>1, <3>1, <3>2, NewSlotFields DEF SupInv, Register, AnyHandle
    <3>4. SlotRefers(u)'
      BY <1>7, <3>3 DEF SlotRefers
    <3> QED BY <3>3, <3>4
  <2>2. CASE RegisterDuplicate(n)
    BY <2>2 DEF RegisterDuplicate, regVars
  <2> QED BY <1>2, <1>5, <2>1, <2>2
<1>10. OtherTypes' /\ InboxStep(m)
  BY <1>3, TypesHold DEF OtherTypes, taskVars, InboxStep
<1> QED BY <1>3, <1>7, <1>8, <1>9, <1>10, StepTaken DEF taskVars

LEMMA ReceiveStartedStep == SupInv /\ ReceiveStarted => SupStep
<1> SUFFICES ASSUME SupInv, ReceiveStarted PROVE SupStep
  OBVIOUS
<1>1. PICK m : m = Head(inbox)
  OBVIOUS
<1>2. \/ m.inc # NoHandle /\ CompleteStart(m.idx, m.name, m.inc) /\ UNCHANGED inc
      \/ /\ m.inc # NoHandle /\ UNCHANGED regVars
         /\ inc' = [inc EXCEPT ![m.inc] = Held(Signalled(@, "Terminate"), "stray")]
      \/ m.inc = NoHandle /\ (FailStart(m.idx) \/ UNCHANGED regVars) /\ UNCHANGED inc
  BY <1>1 DEF ReceiveStarted
<1>3. /\ inbox # <<>> /\ m.type = "SupervisedChildStarted" /\ inbox' = Tail(inbox)
      /\ UNCHANGED <<inboxOpen, phase, toStop, born, faults, cancelled, taskVars>>
  BY <1>1 DEF ReceiveStarted, Receive
<1>4. /\ m.name \in Name /\ m.idx \in Index /\ m.inc \in Handle \cup {NoHandle}
      /\ m.inc # NoHandle => Born(m.inc, m.name) /\ Kept(m.inc)
  BY <1>1, <1>3, HeadRefers DEF Message, MessageRefers
<1>5. PICK h, n, i : h = m.inc /\ n = m.name /\ i = m.idx
  OBVIOUS
<1>6. OtherTypes' /\ InboxStep(m)
  BY <1>3, TypesHold DEF OtherTypes, taskVars, InboxStep
<1>7. CASE h # NoHandle /\ CompleteStart(i, n, h) /\ UNCHANGED inc
  <2>1. h \in Handle /\ Born(h, n) /\ Kept(h) /\ n \in Name /\ i \in Index
    BY <1>4, <1>5, <1>7
  <2>2. RegNext
    BY <1>7, <2>1 DEF RegNext
  <2>3. Rewrites(i, "Running", h)
    BY <1>7, <2>1, CompleteStartRewrites DEF SupInv
  <2>4. slots'[i].ern = n
    BY <1>7, <2>3 DEF Rewrites, CompleteStart, StartAccepted
  <2>5. Born(h, n)' /\ Kept(h)'
    BY <1>3, <1>7, <2>1 DEF Born, Kept
  <2>6. SlotRefers(i)'
    BY <2>3, <2>4, <2>5 DEF SlotRefers, Rewrites
  <2>7. \A j \in Index : slots'[j].handle \in {NoHandle, slots[j].handle} \/ SlotRefers(j)'
    BY <2>3, <2>6 DEF Rewrites
  <2>8. ChildrenStep
    BY <1>3, <1>7, NobodyMoves
  <2> QED BY <1>3, <1>6, <2>2, <2>7, <2>8, StepTaken DEF taskVars
<1>8. CASE /\ h # NoHandle /\ UNCHANGED regVars
           /\ inc' = [inc EXCEPT ![h] = Held(Signalled(inc[h], "Terminate"), "stray")]
  <2>1. h \in 1..born /\ inc[h] \in Child /\ inc[h].life # "building"
    BY <1>4, <1>5, <1>8, BornHandles DEF Born, Kept, Sane
  <2>2. PICK c : c = Signalled(inc[h], "Terminate")
    OBVIOUS
  <2>3. PICK d : d = Held(c, "stray")
    OBVIOUS
  <2>4. c \in Child /\ c.life = inc[h].life /\ ChildStep(inc[h], c)
    BY <2>1, <2>2, Told
  <2>5. d \in Child /\ ChildStep(inc[h], d)
    BY <2>1, <2>3, <2>4, HandedOver, StepsCompose DEF Holders
  <2>6. ChildrenStep
    BY <1>3, <1>8, <2>1, <2>2, <2>3, <2>5, OneChildMoves
  <2> QED BY <1>3, <1>6, <1>8, <2>6, QuietStepTaken DEF taskVars
<1>9. CASE (FailStart(i) \/ UNCHANGED regVars) /\ UNCHANGED inc
  <2>1. i \in Index
    BY <1>4, <1>5
  <2>2. RegNext \/ UNCHANGED regVars
    BY <1>9, <2>1 DEF RegNext
  <2>3. \A j \in Index : slots'[j].handle \in {NoHandle, slots[j].handle}
    BY <1>9, <2>1, FailStartRewrites DEF SupInv, Rewrites, regVars
  <2> QED BY <1>3, <1>6, <1>9, <2>2, <2>3, OnlyRecordsMove DEF taskVars, childVars
<1> QED BY <1>2, <1>5, <1>7, <1>8, <1>9

LEMMA ReceiveUnregisterStep == SupInv /\ ReceiveUnregister => SupStep
<1> SUFFICES ASSUME SupInv, ReceiveUnregister PROVE SupStep
  OBVIOUS
<1>1. PICK m : m = Head(inbox)
  OBVIOUS
<1>2. PICK n : n = m.name
  OBVIOUS
<1>3. PICK got : got = IF Supervised(n) THEN slots[byErn[n]].handle ELSE NoHandle
  OBVIOUS
<1>4. /\ inbox # <<>> /\ m.type = "UnregisterSupervisedChild" /\ inbox' = Tail(inbox)
      /\ Retire(n) \/ RetireUnknown(n)
      /\ releaser' = [releaser EXCEPT !.at = "answered", !.got = got]
      /\ UNCHANGED <<inboxOpen, phase, toStop, childVars, cancelled, groups, kids>>
  BY <1>1, <1>2, <1>3 DEF ReceiveUnregister, Receive
<1>5. n \in Name /\ n \in Released
  BY <1>1, <1>2, <1>4, HeadRefers DEF Message, MessageRefers
<1>6. /\ got \in Handle \cup {NoHandle}
      /\ got # NoHandle => Born(got, n) /\ Kept(got)
  <2>1. CASE Supervised(n)
    <3>1. /\ byErn[n] \in Index /\ slots[byErn[n]].handle \in Handle \cup {NoHandle}
          /\ slots[byErn[n]].ern = n
      BY <1>5, <2>1, TakenSlots DEF SupInv, RegInv, NamesLeadToTheirSlots, AnyHandle
    <3>2. SlotRefers(byErn[n])
      BY <3>1 DEF SupInv, ReferencesHold
    <3> QED BY <1>3, <2>1, <3>1, <3>2 DEF SlotRefers
  <2>2. CASE ~Supervised(n)
    BY <1>3, <2>2
  <2> QED BY <2>1, <2>2
<1>7. /\ releaser'.got = got
      /\ releaser' \in [at : {"idle", "waiting", "answered", "done"}, name : Name,
                        stopping : BOOLEAN, got : Handle \cup {NoHandle}]
  BY <1>4, <1>6 DEF SupInv, SupTypeOK
<1>8. ReleaserRefers'
  BY <1>4, <1>5, <1>6, <1>7 DEF ReleaserRefers, Born, Kept, childVars
<1>9. RegNext
  BY <1>4, <1>5 DEF RegNext
<1>10. \A i \in Index : slots'[i].handle \in {NoHandle, slots[i].handle}
  BY <1>4, <1>5, RetireRewrites DEF SupInv, Rewrites, RetireUnknown, regVars
<1>11. OtherTypes' /\ InboxStep(m)
  BY <1>4, <1>7, TypesHold DEF OtherTypes, childVars, InboxStep
<1> QED BY <1>4, <1>8, <1>9, <1>10, <1>11, NobodyMoves, StepTaken DEF childVars

LEMMA ReceiveDueStep == SupInv /\ ReceiveDue => SupStep
<1> SUFFICES ASSUME SupInv, ReceiveDue PROVE SupStep
  OBVIOUS
<1>1. PICK m : m = Head(inbox)
  OBVIOUS
<1>2. /\ inbox # <<>> /\ m.type = "RestartDue" /\ inbox' = Tail(inbox)
      /\ QueueRestart(m.idx, m.name, m.gen) \/ UNCHANGED regVars
      /\ UNCHANGED <<inboxOpen, phase, toStop, childVars, cancelled, taskVars>>
  BY <1>1 DEF ReceiveDue, Receive
<1>3. PICK i, n, g : i = m.idx /\ n = m.name /\ g = m.gen
  OBVIOUS
<1>8. i \in Index /\ n \in Name
  BY <1>1, <1>2, <1>3, HeadRefers DEF Message
<1>4. QueueRestart(i, n, g) \/ UNCHANGED regVars
  BY <1>2, <1>3
<1>5. [RegNext]_regVars
  <2>1. CASE QueueRestart(i, n, g)
    <3>1. g = slots[i].gen
      BY <2>1 DEF QueueRestart, TimerMatches
    <3> QED BY <1>8, <2>1, <3>1 DEF RegNext
  <2> QED BY <1>4, <2>1
<1>6. \A j \in Index : slots'[j].handle \in {NoHandle, slots[j].handle}
  BY <1>4, <1>8, QueueRestartRewrites DEF SupInv, Rewrites, regVars
<1>7. OtherTypes' /\ InboxStep(m)
  BY <1>2, TypesHold DEF OtherTypes, taskVars, childVars, InboxStep
<1> QED BY <1>2, <1>5, <1>6, <1>7, OnlyRecordsMove DEF taskVars

LEMMA SettledNotices ==
    ASSUME RegInv, NEW n \in Name, NEW reason \in TerminationReasons,
           IgnoreNotice(n) \/ GroupStopLanded(n) \/ ForgetChild(n, reason) \/ Escalates(n, reason)
    PROVE  \A i \in Index : slots'[i].handle \in {NoHandle, slots[i].handle}
<1>1. CASE IgnoreNotice(n)
  BY <1>1 DEF IgnoreNotice, regVars
<1>2. CASE GroupStopLanded(n)
  BY <1>2, GroupStopLandedRewrites DEF Rewrites
<1>3. CASE ForgetChild(n, reason)
  BY <1>3, ForgetChildRewrites DEF Rewrites
<1>4. CASE Escalates(n, reason)
  <2>1. slots[byErn[n]].charged \in Nat
    BY <1>4, TakenSlots DEF Escalates, FreshFailure, Slot
  <2>2. PICK kept \in Nat : EscalateChild(n, reason, kept)
    BY <1>4, <2>1 DEF Escalates
  <2> QED BY <2>2, EscalateChildRewrites DEF Rewrites
<1> QED BY <1>1, <1>2, <1>3, <1>4

\* A notice that needs no restart, and one the supervisor gives up on.
LEMMA NoticeStep == SupInv /\ (NoticeSettled \/ NoticeEscalates) => SupStep
<1> SUFFICES ASSUME SupInv, NoticeSettled \/ NoticeEscalates PROVE SupStep
  OBVIOUS
<1>1. PICK m : m = Head(inbox)
  OBVIOUS
<1>2. /\ inbox # <<>> /\ m.type = "ChildTerminated" /\ inbox' = Tail(inbox)
      /\ \/ IgnoreNotice(m.name) \/ GroupStopLanded(m.name)
         \/ ForgetChild(m.name, m.reason) \/ Escalates(m.name, m.reason)
      /\ cancelled' \in BOOLEAN
      /\ UNCHANGED <<inboxOpen, phase, toStop, childVars, taskVars>>
  BY <1>1 DEF NoticeSettled, NoticeEscalates, Receive, SupInv, SupTypeOK
<1>3. PICK n, reason : n = m.name /\ reason = m.reason
  OBVIOUS
<1>4. n \in Name /\ reason \in TerminationReasons
  BY <1>1, <1>2, <1>3, HeadRefers DEF Message
<1>5. \/ IgnoreNotice(n) \/ GroupStopLanded(n)
      \/ ForgetChild(n, reason) \/ Escalates(n, reason)
  BY <1>2, <1>3
<1>6. RegNext
  BY <1>4, <1>5 DEF RegNext, Notice
<1>7. OtherTypes' /\ InboxStep(m)
  BY <1>2, TypesHold DEF OtherTypes, taskVars, childVars, InboxStep
<1> QED BY <1>2, <1>4, <1>5, <1>6, <1>7, SettledNotices, OnlyRecordsMove DEF taskVars, SupInv

LEMMA PlannedSlots ==
    ASSUME RegInv, NEW n \in Name, NEW plan, plan = RestartPlanFor(n)
    PROVE  /\ \A i \in plan.stop : /\ i \in Index /\ slots[i].handle \in Handle
                                   /\ slots[i].state = "Running"
           /\ \A i \in plan.restart : i \in Index /\ i \in Taken
           /\ byErn[n] \in Taken /\ slots[byErn[n]].state # "Retired"
                /\ slots[byErn[n]].restartable => byErn[n] \in plan.restart
           /\ \A i \in plan.restart \ plan.stop : i = byErn[n] \/ slots[i].state # "Running"
           /\ \A i \in plan.restart : slots[i].restartable /\ slots[i].state # "Retired"
<1> DEFINE views == Views
<1>1. /\ plan.stop = {i \in Affected(Strategy, byErn[n], views) \ {byErn[n]} : views[i].alive}
      /\ plan.restart = {i \in Affected(Strategy, byErn[n], views) : views[i].restartable}
  BY DEF RestartPlanFor, PlanRestart
<1>2. /\ DOMAIN views = {j \in Taken : slots[j].state # "Retired"}
      /\ \A i \in DOMAIN views : /\ views[i].restartable = slots[i].restartable
                                 /\ views[i].alive = (/\ slots[i].handle # NoHandle
                                                      /\ slots[i].state \in Accepting)
  BY DEF Views
<1> HIDE DEF views
<1>3. Affected(Strategy, byErn[n], views) \subseteq DOMAIN views
  BY DEF Affected
<1>4. byErn[n] \in DOMAIN views => byErn[n] \in Affected(Strategy, byErn[n], views)
  BY DEF Affected
<1>5. ASSUME NEW i \in plan.stop
      PROVE  i \in Index /\ slots[i].handle \in Handle /\ slots[i].state = "Running"
  <2>1. i \in DOMAIN views /\ views[i].alive
    BY <1>1, <1>3, <1>5
  <2>2. i \in Index /\ slots[i].handle # NoHandle /\ slots[i].state \in Accepting
    BY <1>2, <2>1, TakenSlots
  <2> QED BY <2>2, TakenSlots DEF AnyHandle, Sound, Accepting, ExpectedStop
<1>6. \A i \in plan.restart : i \in Index /\ i \in Taken
  BY <1>1, <1>2, <1>3, TakenSlots
<1>7. byErn[n] \in Taken /\ slots[byErn[n]].state # "Retired"
        /\ slots[byErn[n]].restartable => byErn[n] \in plan.restart
  BY <1>1, <1>2, <1>4
<1>8. ASSUME NEW i \in plan.restart \ plan.stop, i # byErn[n], slots[i].state = "Running"
      PROVE  FALSE
  <2>1. i \in DOMAIN views /\ i \in Affected(Strategy, byErn[n], views) \ {byErn[n]}
    BY <1>1, <1>3, <1>8
  <2>2. i \in Index /\ slots[i].handle # NoHandle
    BY <1>6, <1>8, TakenSlots DEF Sound
  <2>3. views[i].alive
    BY <1>2, <1>8, <2>1, <2>2 DEF Accepting
  <2> QED BY <1>1, <1>8, <2>1, <2>3
<1>9. \A i \in plan.restart : slots[i].restartable /\ slots[i].state # "Retired"
  BY <1>1, <1>2, <1>3
<1> QED BY <1>5, <1>6, <1>7, <1>8, <1>9

LEMMA NoticeRestartsStep == SupInv /\ NoticeRestarts => SupStep
<1> SUFFICES ASSUME SupInv, NoticeRestarts PROVE SupStep
  OBVIOUS
<1>1. PICK m : m = Head(inbox)
  OBVIOUS
<1>2. PICK n, reason, h : n = m.name /\ reason = m.reason /\ h = m.inc
  OBVIOUS
<1>3. PICK plan : plan = RestartPlanFor(n)
  OBVIOUS
<1>4. /\ inbox # <<>> /\ m.type = "ChildTerminated" /\ inbox' = Tail(inbox)
      /\ Restarts(n, reason)
      /\ groups' = groups \cup {GroupTask(h, plan)}
      /\ UNCHANGED <<inboxOpen, phase, toStop, childVars, cancelled, kids, releaser>>
  BY <1>1, <1>2, <1>3 DEF NoticeRestarts, Receive
<1>5. n \in Name /\ reason \in TerminationReasons /\ h \in Handle
  BY <1>1, <1>2, <1>4, HeadRefers DEF Message
<1>6. RegNext
  BY <1>4, <1>5 DEF RegNext, Notice
<1>7. slots[byErn[n]].charged \in Nat
  BY <1>4, <1>5, TakenSlots DEF Restarts, FreshFailure, Slot, SupInv
<1>8. PICK kept \in Nat : ScheduleRestart(n, reason, kept)
  BY <1>4, <1>7 DEF Restarts
<1>9. \A i \in Index : slots'[i].handle \in {NoHandle, slots[i].handle}
  BY <1>5, <1>8, ScheduleRestartClears DEF SupInv
<1>10. byErn[n] \in plan.restart
  <2>1. /\ byErn[n] \in Taken /\ slots[byErn[n]].state \in Accepting
        /\ slots[byErn[n]].restartable
    BY <1>5, <1>8, TakenSlots DEF ScheduleRestart, FreshFailure, Restartable, SupInv
  <2>2. slots[byErn[n]].state # "Retired"
    BY <2>1 DEF Accepting
  <2> QED BY <1>3, <1>5, <2>1, <2>2, PlannedSlots DEF SupInv
<1>11. PICK t : t = GroupTask(h, plan)
  OBVIOUS
<1>12. /\ t.id = h /\ t.asked = FALSE /\ t.due = FALSE
       /\ t.stops = {[idx |-> i, inc |-> slots[i].handle] : i \in plan.stop}
       /\ t.dues = {[idx |-> i, name |-> slots[i].ern, gen |-> slots[i].gen] : i \in plan.restart}
  BY <1>11 DEF GroupTask
<1>13. /\ \A i \in plan.stop : i \in Index /\ slots[i].handle \in Handle
       /\ \A i \in plan.restart : i \in Index /\ slots[i].ern \in Name /\ slots[i].gen \in Nat
  BY <1>3, <1>5, PlannedSlots, TakenSlots DEF SupInv
<1>14. GroupRestart(t)' /\ t.dues # {}
  <2>1. \A s \in t.stops : s.idx \in Index /\ s.inc \in Handle
    BY <1>12, <1>13
  <2>2. \A d \in t.dues : d.idx \in Index /\ d.name \in Name /\ d.gen \in Nat
    BY <1>12, <1>13
  <2>3. t.dues # {}
    <3>1. PICK j \in plan.restart : j = byErn[n]
      BY <1>10
    <3>2. PICK d : d = [idx |-> j, name |-> slots[j].ern, gen |-> slots[j].gen]
      OBVIOUS
    <3>3. d \in t.dues
      BY <1>12, <3>1, <3>2
    <3> QED BY <3>3
  <2>4. t.id \in Handle /\ t.asked \in BOOLEAN /\ t.due \in BOOLEAN
    BY <1>5, <1>12
  <2>5. GroupRestart(t)
    BY <2>1, <2>2, <2>4 DEF GroupRestart
  <2> QED BY <2>3, <2>5 DEF GroupRestart
<1>15. \A g \in groups : GroupRestart(g)' /\ g.dues # {}
  BY TypesHold DEF OtherTypes, GroupRestart
<1>16. OtherTypes' /\ InboxStep(m)
  BY <1>4, <1>11, <1>14, <1>15, TypesHold DEF OtherTypes, childVars, InboxStep
<1> QED BY <1>4, <1>6, <1>9, <1>16, OnlyRecordsMove

LEMMA TerminateChildrenStep == SupInv /\ TerminateChildren => SupStep
<1> SUFFICES ASSUME SupInv, TerminateChildren PROVE SupStep
  OBVIOUS
<1>1. PICK told : told = ShutdownChildren
  OBVIOUS
<1>2. /\ phase' = "terminating" /\ toStop' = told /\ inbox' = <<>>
      /\ inc' = [h \in Handle |-> IF h \in told THEN Signalled(inc[h], "Cascade") ELSE inc[h]]
      /\ UNCHANGED <<regVars, born, faults, inboxOpen, cancelled, taskVars>>
  BY <1>1 DEF TerminateChildren
<1>3. PICK f : f = inc'
  OBVIOUS
<1>4. ASSUME NEW h \in Handle
      PROVE  f[h] \in Child /\ (h \in 1..born => ChildStep(inc[h], f[h]))
             /\ (h > born => f[h] = inc[h])
  <2>1. CASE h \notin told
    BY <1>2, <1>3, <2>1, BornHandles DEF ChildStep
  <2>2. CASE h \in told
    <3>1. PICK d : d = Signalled(inc[h], "Cascade")
      OBVIOUS
    <3>2. d \in Child /\ ChildStep(inc[h], d) /\ (inc[h].life # "live" => d = inc[h])
      BY <3>1, BornHandles, Told
    <3>3. h > born => inc[h].life = "unborn"
      BY BornHandles, UnbornFields
    <3> QED BY <1>2, <1>3, <2>2, <3>1, <3>2, <3>3
  <2> QED BY <2>1, <2>2
<1>5. f \in [Handle -> Child]
  BY <1>2, <1>3, <1>4
<1>6. ChildrenStep
  BY <1>2, <1>3, <1>4, <1>5, BornHandles, ManyChildrenMove
<1>7. told \subseteq Handle
  <2>1. LiveHandles \subseteq Handle
    BY TakenSlots DEF LiveHandles, SupInv, AnyHandle
  <2>2. \A n \in Name : kids[n] \in Handle \cup {NoHandle}
    BY DEF SupInv, SupTypeOK
  <2>3. \A k \in LateArrivals : inbox[k].inc \in Handle
    <3> SUFFICES ASSUME NEW k \in LateArrivals PROVE inbox[k].inc \in Handle
      OBVIOUS
    <3>1. /\ k \in 1..Len(inbox) /\ inbox[k] \in Message
          /\ inbox[k].type = "SupervisedChildStarted" /\ inbox[k].inc # NoHandle
      BY DEF LateArrivals, StartedIn, SupInv, SupTypeOK
    <3>2. PICK m : m = inbox[k]
      OBVIOUS
    <3> QED BY <3>1, <3>2 DEF Message
  <2> QED BY <1>1, <2>1, <2>2, <2>3 DEF ShutdownChildren
<1>8. OtherTypes' /\ \A m : InboxStep(m)
  BY <1>2, <1>7, TypesHold DEF OtherTypes, taskVars, InboxStep
<1> QED BY <1>2, <1>6, <1>8, QuietStepTaken DEF taskVars

LEMMA InitHolds == Init => SupInv
<1> SUFFICES ASSUME Init PROVE SupInv
  OBVIOUS
<1>1. RegInv
  BY RegInitHolds DEF Init
<1>2. (CHOOSE n \in Name : TRUE) \in Name
  BY RegistryConstants
<1>3. /\ inc \in [Handle -> Child] /\ born = 0 /\ 0 \in 0..MaxHandles /\ faults \in 0..MaxFaults
      /\ inbox = <<>> /\ <<>> \in Seq(Message) /\ Len(inbox) = 0
  BY UnbornFields, RegistryConstants, SupervisionConstants DEF Init
<1>4. releaser \in [at : {"idle", "waiting", "answered", "done"}, name : Name,
                    stopping : BOOLEAN, got : Handle \cup {NoHandle}]
  BY <1>2 DEF Init
<1>5. SupTypeOK
  BY <1>1, <1>3, <1>4 DEF Init, SupTypeOK, RegInv
<1>6. \A i \in Index : slots[i].handle = NoHandle
  BY DEF Init, RegInit, Unregistered, NewSlot
<1>7. \A h \in Handle : Sane(inc[h]) /\ inc[h] = Unborn /\ inc[h].idx = NoSlot
  BY UnbornFields DEF Init, Sane
<1>8. releaser.got = NoHandle /\ \A n \in Name : kids[n] = NoHandle
  BY DEF Init
<1>9. ReferencesHold
  BY <1>3, <1>6, <1>7, <1>8 DEF ReferencesHold, SlotRefers, ChildRefers
<1>10. GroupsHaveDues
  BY DEF Init, GroupsHaveDues
<1> QED BY <1>1, <1>5, <1>9, <1>10 DEF SupInv

LEMMA NextKeeps == SupInv /\ [Next]_vars => SupStep
<1> SUFFICES ASSUME SupInv, [Next]_vars PROVE SupStep
  OBVIOUS
<1>1. CASE Loop
  BY <1>1, LaunchStartStep, ReceiveRegisterStep, ReceiveStartedStep, ReceiveUnregisterStep,
     ReceiveDueStep, NoticeStep, NoticeRestartsStep, ReceiveStopStep, LeaveLoopStep,
     TerminateChildrenStep, StoppedStep DEF Loop
<1>2. CASE Tasks
  BY <1>2, BuildStep, ReportStep, StrayStoppedStep, CallerAnsweredStep, GroupSteps DEF Tasks
<1>3. CASE Environment
  BY <1>3, SuperviseDeferredStep, HireStep, AskToReleaseStep, FaultStep, AskToRegisterStep,
     ReleaserReturnsStep, AskSupervisorToStopStep DEF Environment
<1>4. CASE \E h \in Handle : Obey(h)
  BY <1>4, FaultStep
<1>5. CASE UNCHANGED vars
  BY <1>5, StutterStep
<1> QED BY <1>1, <1>2, <1>3, <1>4, <1>5 DEF Next

\* The supervisor's state stays well formed and what it refers to exists: every
\* notice, report and registration in the inbox, every handle on a record or in a
\* caller's hands names a child that was created, under the name it is known by.
LEMMA SupInvHolds == Spec => []SupInv
<1>1. SupInv /\ [Next]_vars => SupInv'
  BY NextKeeps DEF SupStep
<1> QED BY <1>1, InitHolds, PTL DEF Spec

\* The supervisor's own state has the types the model gives it, whatever the
\* strategy, the policies and the callers do.
THEOREM SupervisorTypeCorrect == Spec => []SupTypeOK
<1>1. SupInv => SupTypeOK
  BY DEF SupInv
<1> QED BY <1>1, SupInvHolds, PTL

\* The registry inside a supervisor is the registry of SupervisionRegistry: every
\* step of the message loop, the shutdown, a start task or a caller applies one of
\* its operations or leaves it alone.
THEOREM TheRegistryIsARegistry == Spec => RegSpec
<1>1. Init => RegInit
  BY DEF Init
<1>2. SupInv /\ [Next]_vars => [RegNext]_regVars
  BY NextKeeps DEF SupStep
<1> QED BY <1>1, <1>2, SupInvHolds, PTL DEF Spec, RegSpec

\* So its records agree with each other between any two steps of the supervisor:
\* names, positions, handles, queue and what watchers were told.
THEOREM SupervisorsRegistryHolds == Spec => []RegistryIsConsistent
BY TheRegistryIsARegistry, RegistryHolds

\* And what an index or a generation in a message or a timer was taken for is what
\* it still means when the message is read.
THEOREM SupervisorsRecordsHold == Spec => RecordsAreForever
BY TheRegistryIsARegistry, RecordsHold

\* And a watcher of a child of a one-for-one supervisor sees the cycle that
\* ChildStatus describes, while the loop, the tasks, the callers and the shutdown all
\* move the child on: the supervisor implements it, by way of its registry.
THEOREM SupervisorsWatchersSeeTheCycle ==
    ASSUME Strategy = "OneForOne"
    PROVE  Spec => WatchersSeeTheCycle
BY TheRegistryIsARegistry, WatchersAlwaysSeeTheCycle

-------------------------------------------------------------------------------
(* What the shutdown leaves.  The loop settles every unfinished start as it   *)
(* is left, and nothing touches the registry from then on.                    *)

\* The steps that are not the loop's leave the registry and the loop's state alone,
\* but for a registration a user handler makes between two of the loop's turns.
LEMMA OnlyTheLoopDecides ==
    ASSUME [Next]_vars
    PROVE  \/ Loop
           \/ \E n \in Name : SuperviseDeferred(n)
           \/ UNCHANGED <<regVars, inboxOpen, cancelled, phase, toStop>>
<1>1. CASE Tasks
  <2>1. ASSUME NEW h, Build(h) \/ Report(h) \/ StrayStopped(h) \/ CallerAnswered(h)
        PROVE  UNCHANGED <<regVars, inboxOpen, cancelled, phase, toStop>>
    BY <2>1 DEF Build, Report, StrayStopped, CallerAnswered, loopVars
  <2>2. ASSUME NEW t, AskSibling(t) \/ SiblingDown(t) \/ SendDue(t) \/ AbandonBackoff(t)
        PROVE  UNCHANGED <<regVars, inboxOpen, cancelled, phase, toStop>>
    BY <2>2 DEF AskSibling, SiblingDown, SendDue, AbandonBackoff, loopVars
  <2> QED BY <1>1, <2>1, <2>2 DEF Tasks
<1>2. CASE Environment
  <2>1. ASSUME NEW n, Hire(n) \/ AskToRelease(n)
        PROVE  UNCHANGED <<regVars, inboxOpen, cancelled, phase, toStop>>
    BY <2>1 DEF Hire, AskToRelease, loopVars
  <2>2. ASSUME NEW h, Fault(h) \/ AskToRegister(h)
        PROVE  UNCHANGED <<regVars, inboxOpen, cancelled, phase, toStop>>
    BY <2>2 DEF Fault, AskToRegister
  <2>3. CASE ReleaserReturns \/ AskSupervisorToStop
    BY <2>3 DEF ReleaserReturns, AskSupervisorToStop, loopVars
  <2> QED BY <1>2, <2>1, <2>2, <2>3 DEF Environment
<1>3. CASE \E h \in Handle : Obey(h)
  BY <1>3 DEF Obey
<1>4. CASE UNCHANGED vars
  BY <1>4 DEF vars, loopVars
<1> QED BY <1>1, <1>2, <1>3, <1>4 DEF Next

NothingIsOwed == phase # "loop" => \A i \in Index : slots[i].state \notin Owed

LEMMA TheRegistryRests ==
    ASSUME [Next]_vars, phase # "loop"
    PROVE  UNCHANGED regVars /\ phase' # "loop"
<1>1. CASE Loop
  BY <1>1 DEF Loop, LaunchStart, ReceiveRegister, ReceiveStarted, ReceiveUnregister, ReceiveDue,
     NoticeSettled, NoticeEscalates, NoticeRestarts, ReceiveStop, LeaveLoop, TerminateChildren,
     Stopped, Receive, Waiting
<1>2. CASE \E n \in Name : SuperviseDeferred(n)
  BY <1>2 DEF SuperviseDeferred, Waiting
<1> QED BY <1>1, <1>2, OnlyTheLoopDecides

LEMMA LoopIsLeftOnce ==
    ASSUME [Next]_vars, phase = "loop", phase' # "loop"
    PROVE  LeaveLoop
<1>1. CASE Loop
  BY <1>1 DEF Loop, LaunchStart, ReceiveRegister, ReceiveStarted, ReceiveUnregister, ReceiveDue,
     NoticeSettled, NoticeEscalates, NoticeRestarts, ReceiveStop, TerminateChildren,
     Stopped, Receive, loopVars
<1>2. CASE \E n \in Name : SuperviseDeferred(n)
  BY <1>2 DEF SuperviseDeferred, loopVars
<1> QED BY <1>1, <1>2, OnlyTheLoopDecides

LEMMA NothingIsOwedStep == SupInv /\ NothingIsOwed /\ [Next]_vars => NothingIsOwed'
<1> SUFFICES ASSUME SupInv, NothingIsOwed, [Next]_vars, phase' # "loop", NEW i \in Index
             PROVE  slots'[i].state \notin Owed
  BY DEF NothingIsOwed
<1>1. CASE phase = "loop"
  <2>1. SettleForShutdown
    BY <1>1, LoopIsLeftOnce DEF LeaveLoop
  <2>2. "Retired" \notin Owed
    BY DEF Owed, ExpectedStop
  <2> QED BY <2>1, <2>2, SettledSlots DEF SupInv
<1>2. CASE phase # "loop"
  BY <1>2, TheRegistryRests DEF NothingIsOwed, regVars
<1> QED BY <1>1, <1>2

\* Nobody watches a status for ever: once the loop has been left no published
\* status promises an incarnation that can no longer come.  The code settles every
\* unfinished start (cancel_unfinished_starts) before it awaits anything, and no
\* later step of its shutdown, of a task or of a caller moves a record again.
THEOREM WaitersAreAnswered == Spec => []EveryWaiterAnswered
<1>1. Init => NothingIsOwed
  BY DEF Init, NothingIsOwed
<1>2. SupInv /\ NothingIsOwed => EveryWaiterAnswered
  <2> SUFFICES ASSUME SupInv, NothingIsOwed, phase # "loop", NEW i \in Taken
               PROVE  slots[i].pub.state \in {"Running"} \cup Terminal
    BY DEF EveryWaiterAnswered
  <2>1. /\ i \in Index /\ slots[i].state \in SlotStates /\ slots[i].state # "Unused"
        /\ slots[i].pub.state = Published(slots[i].state)
    BY TakenSlots DEF SupInv, RegInv, NamesLeadToTheirSlots, Sound
  <2>2. slots[i].state \in {"Running"} \cup Terminal
    BY <2>1 DEF NothingIsOwed, SlotStates, Owed, ExpectedStop, Terminal
  <2>3. PICK state : state = slots[i].state
    OBVIOUS
  <2>4. Published(state) = state
    BY <2>2, <2>3 DEF Published, Terminal, ExpectedStop
  <2> QED BY <2>1, <2>2, <2>3, <2>4
<1> QED BY <1>1, <1>2, SupInvHolds, NothingIsOwedStep, PTL DEF Spec

-------------------------------------------------------------------------------
(* One for one.  Under the other strategies a child's failure rearranges the  *)
(* records of its siblings, whatever state they are in.                       *)

LEMMA ScheduleRestartAlone ==
    ASSUME RegInv, Strategy = "OneForOne", NEW n \in Name, NEW reason, NEW kept \in Nat,
           ScheduleRestart(n, reason, kept)
    PROVE  /\ Rewrites(byErn[n], "AwaitingBackoff", NoHandle) /\ byErn[n] \in Taken
           /\ slots[byErn[n]].state \in Accepting
           /\ slots'[byErn[n]].gen = slots[byErn[n]].gen
           /\ RestartPlanFor(n).stop = {} /\ RestartPlanFor(n).restart = {byErn[n]}
<1>1. PICK i : i = byErn[n]
  OBVIOUS
<1>2. /\ i \in Taken /\ i \in Index /\ slots[i] \in Slot /\ slots[i].state \in Accepting
      /\ slots[i].restartable
  BY <1>1, TakenSlots DEF ScheduleRestart, FreshFailure, Restartable
<1>3. PICK plan : plan = RestartPlanFor(n)
  OBVIOUS
<1>4. plan.stop = {} /\ plan.restart = {i}
  <2>1. Affected(Strategy, i, Views) \subseteq {i}
    BY DEF Affected
  <2>2. slots[i].state # "Retired"
    BY <1>2 DEF Accepting
  <2>3. i \in plan.restart
    BY <1>1, <1>2, <1>3, <2>2, PlannedSlots
  <2> QED BY <1>1, <1>3, <2>1, <2>3 DEF RestartPlanFor, PlanRestart
<1>5. slots' = [j \in Index |->
                  Rearranged(IF j = i THEN [slots[j] EXCEPT !.charged = kept + 1] ELSE slots[j],
                             j \in plan.stop, j \in plan.restart)]
  BY <1>1, <1>3 DEF ScheduleRestart
<1>6. \A j \in Index : j # i => slots'[j] = slots[j]
  BY <1>4, <1>5 DEF Rearranged
<1>7. PICK s : s = [slots[i] EXCEPT !.charged = kept + 1]
  OBVIOUS
<1>8. s \in Slot /\ s.ern = slots[i].ern /\ s.gen = slots[i].gen
      /\ s.restartable = slots[i].restartable
  <2>1. slots[i] \in Slot
    BY <1>2
  <2> QED BY ONLY <1>7, <2>1, kept \in Nat DEF Slot
<1>9. slots'[i] = Moved(s, "AwaitingBackoff", NoHandle)
  BY <1>2, <1>4, <1>5, <1>7 DEF Rearranged
<1>10. /\ slots'[i].ern = slots[i].ern /\ slots'[i].state = "AwaitingBackoff"
       /\ slots'[i].gen = slots[i].gen /\ slots'[i].handle = NoHandle
       /\ slots'[i].restartable = slots[i].restartable
  BY <1>8, <1>9, MovedFields DEF SlotStates, AnyHandle
<1> QED BY <1>1, <1>2, <1>3, <1>4, <1>6, <1>10 DEF Rewrites

\* Where a record may go, one for one.
Goes(s, t) ==
    /\ s.state \in Terminal => t.state \in {s.state, "Retired"}
    /\ t.state \in ExpectedStop => t.state = s.state /\ t.handle = s.handle
    /\ s.state # "Unused" => t.restartable = s.restartable

\* And what it does not become but by being launched, or by its child's failure.
Waits(s, t) ==
    /\ t.state \in {"Starting", "Restarting"} => s.state = t.state
    /\ t.state = "AwaitingBackoff" => s.state = t.state /\ s.gen = t.gen
    /\ t.state = "AwaitingRestart" => s.state \in {"AwaitingBackoff", t.state}
    /\ t.state = "Pending" => s.state \in {"Unused", t.state}

LEMMA RewriteGoes ==
    ASSUME NEW i \in Index, NEW state, NEW h, Rewrites(i, state, h),
           state \notin ExpectedStop, slots[i].state \notin Terminal \/ state = "Retired"
    PROVE  /\ \A j \in Index : Goes(slots[j], slots'[j])
           /\ \A j \in Index : j # i => Waits(slots[j], slots'[j])
           /\ state \in {"Running", "Retired", "Down", "Escalated"}
                \/ (state = "AwaitingRestart" /\ slots[i].state = "AwaitingBackoff") =>
                \A j \in Index : Waits(slots[j], slots'[j])
<1>1. Goes(slots[i], slots'[i])
  BY DEF Rewrites, Goes
<1>2. state \in {"Running", "Retired", "Down", "Escalated"}
        \/ (state = "AwaitingRestart" /\ slots[i].state = "AwaitingBackoff") =>
        Waits(slots[i], slots'[i])
  BY DEF Rewrites, Waits
<1>3. ASSUME NEW j \in Index, j # i PROVE Goes(slots[j], slots'[j]) /\ Waits(slots[j], slots'[j])
  BY <1>3 DEF Rewrites, Goes, Waits
<1> QED BY <1>1, <1>2, <1>3

LEMMA RecordsStayPut ==
    slots' = slots =>
        \A j \in Index : Goes(slots[j], slots'[j]) /\ Waits(slots[j], slots'[j])
BY DEF Goes, Waits

\* Recording a child, and letting one go.
LEMMA RegistrationGoes ==
    ASSUME RegInv, NEW n \in Name,
           \/ \E h \in Handle, restartable \in BOOLEAN : Register(n, h, restartable)
           \/ RegisterPending(n) \/ RegisterDuplicate(n)
    PROVE  \A j \in Index : Goes(slots[j], slots'[j]) /\ Waits(slots[j], slots'[j])
<1>1. ASSUME NEW restartable \in BOOLEAN, NEW h \in AnyHandle,
             NEW state \in {"Running", "Pending"},
             AddSlot(n, NewSlot(n, restartable, h, state))
      PROVE  \A j \in Index : Goes(slots[j], slots'[j]) /\ Waits(slots[j], slots'[j])
  <2>1. PICK u : u = used + 1
    OBVIOUS
  <2>2. /\ u \in Index /\ slots'[u].state = state
        /\ \A j \in Index : j # u => slots'[j] = slots[j]
    BY <1>1, <2>1, NewSlotFields
  <2>3. slots[u].state = "Unused"
    <3>1. u \notin Taken
      BY <2>1, TakenSlots DEF Taken
    <3> QED BY <2>2, <3>1 DEF RegInv, NamesLeadToTheirSlots
  <2>4. Goes(slots[u], slots'[u]) /\ Waits(slots[u], slots'[u])
    BY <2>2, <2>3 DEF Goes, Waits, Terminal, ExpectedStop
  <2>5. \A j \in Index : j # u => Goes(slots[j], slots'[j]) /\ Waits(slots[j], slots'[j])
    BY <2>2 DEF Goes, Waits
  <2> QED BY <2>4, <2>5
<1>2. CASE \E h \in Handle, restartable \in BOOLEAN : Register(n, h, restartable)
  <2>1. PICK h \in AnyHandle, restartable \in BOOLEAN :
          AddSlot(n, NewSlot(n, restartable, h, "Running"))
    BY <1>2 DEF Register, AnyHandle
  <2> QED BY <1>1, <2>1
<1>3. CASE RegisterPending(n)
  <2>1. PICK restartable \in BOOLEAN, h \in AnyHandle :
          AddSlot(n, NewSlot(n, restartable, h, "Pending"))
    BY <1>3 DEF RegisterPending, AnyHandle
  <2> QED BY <1>1, <2>1
<1>4. CASE RegisterDuplicate(n)
  BY <1>4, RecordsStayPut DEF RegisterDuplicate, regVars
<1> QED BY <1>2, <1>3, <1>4

LEMMA LettingGoGoes ==
    ASSUME RegInv,
           \/ \E n \in Name : Retire(n) \/ RetireUnknown(n)
           \/ \E i \in Index : FailStart(i)
           \/ SettleForShutdown
    PROVE  \A j \in Index : Goes(slots[j], slots'[j]) /\ Waits(slots[j], slots'[j])
<1> USE DEF ExpectedStop
<1>1. ASSUME NEW n \in Name, Retire(n)
      PROVE  \A j \in Index : Goes(slots[j], slots'[j]) /\ Waits(slots[j], slots'[j])
  BY <1>1, RetireRewrites, RewriteGoes, TakenSlots
<1>2. ASSUME NEW n \in Name, RetireUnknown(n)
      PROVE  \A j \in Index : Goes(slots[j], slots'[j]) /\ Waits(slots[j], slots'[j])
  BY <1>2, RecordsStayPut DEF RetireUnknown, regVars
<1>3. ASSUME NEW i \in Index, FailStart(i)
      PROVE  \A j \in Index : Goes(slots[j], slots'[j]) /\ Waits(slots[j], slots'[j])
  BY <1>3, FailStartRewrites, RewriteGoes
<1>4. ASSUME SettleForShutdown, NEW j \in Index
      PROVE  Goes(slots[j], slots'[j]) /\ Waits(slots[j], slots'[j])
  BY <1>4, SettledSlots DEF Goes, Waits, Owed, Terminal
<1> QED BY <1>1, <1>2, <1>3, <1>4

LEMMA ProgressGoes ==
    ASSUME RegInv, NEW i \in Index, NEW n \in Name, NEW h \in Handle, NEW g,
           CompleteStart(i, n, h) \/ QueueRestart(i, n, g)
    PROVE  \A j \in Index : Goes(slots[j], slots'[j]) /\ Waits(slots[j], slots'[j])
<1> USE DEF ExpectedStop, Terminal
<1>1. CASE CompleteStart(i, n, h)
  BY <1>1, CompleteStartRewrites, RewriteGoes
<1>2. CASE QueueRestart(i, n, g)
  BY <1>2, QueueRestartRewrites, RewriteGoes
<1> QED BY <1>1, <1>2

LEMMA BeginStartGoes ==
    ASSUME RegInv, BeginStart, NEW i, i = Head(pending)
    PROVE  /\ \A j \in Index : Goes(slots[j], slots'[j])
           /\ \A j \in Index : j # i => Waits(slots[j], slots'[j])
           /\ ~Launchable(i) => \A j \in Index : Waits(slots[j], slots'[j])
<1>1. CASE ~Launchable(i)
  BY <1>1, BeginStartRewrites, RecordsStayPut
<1>2. CASE Launchable(i)
  <2>1. PICK state \in {"Starting", "Restarting"} : Rewrites(i, state, NoHandle)
    BY <1>2, BeginStartRewrites
  <2> QED BY <1>2, <2>1, BeginStartRewrites, RewriteGoes DEF Launchable, ExpectedStop, Terminal
<1> QED BY <1>1, <1>2

\* A notice.  No sibling is rearranged.
LEMMA NoticeGoes ==
    ASSUME RegInv, Strategy = "OneForOne", NEW n \in Name, NEW reason \in TerminationReasons,
           Notice(n, reason)
    PROVE  /\ \A j \in Index : Goes(slots[j], slots'[j])
           /\ ~Restarts(n, reason) /\ ~GroupStopLanded(n) =>
                \A j \in Index : Waits(slots[j], slots'[j])
           /\ \A j \in Index : j # byErn[n] => Waits(slots[j], slots'[j])
<1> USE DEF ExpectedStop, Terminal, Accepting
<1>1. CASE IgnoreNotice(n)
  BY <1>1, RecordsStayPut DEF IgnoreNotice, regVars
<1>2. CASE GroupStopLanded(n)
  <2>1. PICK state \in {"AwaitingBackoff", "Down"} : Rewrites(byErn[n], state, NoHandle)
    BY <1>2, GroupStopLandedRewrites
  <2>2. byErn[n] \in Index /\ slots[byErn[n]].state \in ExpectedStop
    BY <1>2, GroupStopLandedRewrites, TakenSlots
  <2> QED BY <1>2, <2>1, <2>2, RewriteGoes
<1>3. CASE ForgetChild(n, reason)
  <2>1. /\ Rewrites(byErn[n], "Down", NoHandle) /\ byErn[n] \in Index
        /\ slots[byErn[n]].state \in Accepting
    BY <1>3, ForgetChildRewrites, TakenSlots
  <2> QED BY <2>1, RewriteGoes
<1>4. CASE Escalates(n, reason)
  <2>1. slots[byErn[n]].charged \in Nat
    BY <1>4, TakenSlots DEF Escalates, FreshFailure, Slot
  <2>2. PICK kept \in Nat : EscalateChild(n, reason, kept)
    BY <1>4, <2>1 DEF Escalates
  <2>3. /\ Rewrites(byErn[n], "Escalated", NoHandle) /\ byErn[n] \in Index
        /\ slots[byErn[n]].state \in Accepting
    BY <2>2, EscalateChildRewrites, TakenSlots
  <2> QED BY <2>3, RewriteGoes
<1>5. CASE Restarts(n, reason)
  <2>1. slots[byErn[n]].charged \in Nat
    BY <1>5, TakenSlots DEF Restarts, FreshFailure, Slot
  <2>2. PICK kept \in Nat : ScheduleRestart(n, reason, kept)
    BY <1>5, <2>1 DEF Restarts
  <2>3. /\ Rewrites(byErn[n], "AwaitingBackoff", NoHandle) /\ byErn[n] \in Index
        /\ slots[byErn[n]].state \in Accepting
    BY <2>2, ScheduleRestartAlone, TakenSlots
  <2> QED BY <1>5, <2>3, RewriteGoes
<1> QED BY <1>1, <1>2, <1>3, <1>4, <1>5 DEF Notice

LEMMA RecordsGo ==
    ASSUME RegInv, Strategy = "OneForOne", [RegNext]_regVars
    PROVE  \A j \in Index : Goes(slots[j], slots'[j])
<1>1. CASE UNCHANGED regVars
  BY <1>1, RecordsStayPut DEF regVars
<1>2. ASSUME NEW n \in Name,
             \/ \E h \in Handle, restartable \in BOOLEAN : Register(n, h, restartable)
             \/ RegisterPending(n) \/ RegisterDuplicate(n)
      PROVE  \A j \in Index : Goes(slots[j], slots'[j])
  BY <1>2, RegistrationGoes
<1>3. ASSUME NEW i \in Index, NEW n \in Name, NEW h \in Handle, CompleteStart(i, n, h)
      PROVE  \A j \in Index : Goes(slots[j], slots'[j])
  BY <1>3, ProgressGoes
<1>4. ASSUME NEW i \in Index, NEW n \in Name, QueueRestart(i, n, slots[i].gen)
      PROVE  \A j \in Index : Goes(slots[j], slots'[j])
  <2>1. PICK g : g = slots[i].gen
    OBVIOUS
  <2> QED BY <1>4, <2>1, QueueRestartRewrites, RewriteGoes DEF ExpectedStop, Terminal
<1>5. ASSUME NEW n \in Name, NEW reason \in TerminationReasons, Notice(n, reason)
      PROVE  \A j \in Index : Goes(slots[j], slots'[j])
  BY <1>5, NoticeGoes
<1>6. CASE \/ \E n \in Name : Retire(n) \/ RetireUnknown(n)
           \/ \E i \in Index : FailStart(i)
           \/ SettleForShutdown
  BY <1>6, LettingGoGoes
<1>7. CASE BeginStart
  BY <1>7, BeginStartGoes
<1> QED BY <1>1, <1>2, <1>3, <1>4, <1>5, <1>6, <1>7 DEF RegNext

\* One for one, Down, Escalated and Retired are final: no later notice, timer,
\* report or restart of a sibling brings back a child that was given up on, and
\* the only way on is to be let go.
THEOREM GivenUpIsGivenUp ==
    ASSUME Strategy = "OneForOne"
    PROVE  Spec => TerminalStatesAreFinal
<1>1. ASSUME SupInv, [Next]_vars
      PROVE  [\A i \in Index : slots[i].state \in Terminal =>
                slots'[i].state \in {slots[i].state, "Retired"}]_vars
  BY <1>1, NextKeeps, RecordsGo DEF SupStep, SupInv, Goes
<1> QED BY <1>1, SupInvHolds, PTL DEF Spec, TerminalStatesAreFinal

-------------------------------------------------------------------------------
(* What stays.  A message stays in the inbox until the loop takes it, a start  *)
(* task is at work until it reports, and a restart a group task is to ask for  *)
(* is asked for, as long as the supervisor serves.                             *)

Receives ==
    \/ ReceiveRegister \/ ReceiveStarted \/ ReceiveUnregister \/ ReceiveDue
    \/ NoticeSettled \/ NoticeEscalates \/ NoticeRestarts \/ ReceiveStop

LEMMA ReceivesTakes ==
    ASSUME Receives
    PROVE  inbox # <<>> /\ inbox' = Tail(inbox) /\ Waiting /\ UNCHANGED phase
BY DEF Receives, ReceiveRegister, ReceiveStarted, ReceiveUnregister, ReceiveDue,
   NoticeSettled, NoticeEscalates, NoticeRestarts, ReceiveStop, Receive

\* Who sends what.
Sent(m) ==
    \/ m.type \in {"ChildTerminated", "RestartDue", "Terminate"}
    \/ \E h \in Handle : Report(h) /\ m = StartedMsg(h)
    \/ \E h \in Handle : AskToRegister(h) /\ m = RegisterMsg(h, inc[h].holder = "hirer")
    \/ \E n \in Name : AskToRelease(n) /\ m = UnregisterMsg(n)

LEMMA Delivery ==
    ASSUME NEW m, Sent(m), Deliver(m)
    PROVE  inbox' = inbox \/ (\E x : inboxOpen /\ inbox' = Append(inbox, x) /\ Sent(x))
BY DEF Deliver

LEMMA InboxMoves ==
    ASSUME [Next]_vars
    PROVE  \/ inbox' = inbox \/ (\E m : inboxOpen /\ inbox' = Append(inbox, m) /\ Sent(m))
           \/ Receives \/ TerminateChildren
<1>1. CASE Loop
  BY <1>1 DEF Loop, Receives, LaunchStart, LeaveLoop, Stopped, loopVars
<1>2. ASSUME NEW h \in Handle, Fault(h) \/ Obey(h)
      PROVE  inbox' = inbox \/ (\E m : inboxOpen /\ inbox' = Append(inbox, m) /\ Sent(m))
  <2>1. PICK reason : Deliver(TerminatedMsg(h, reason))
    BY <1>2 DEF Fault, Obey, Die
  <2>2. PICK m : m = TerminatedMsg(h, reason)
    OBVIOUS
  <2>3. m.type = "ChildTerminated"
    BY <2>2 DEF TerminatedMsg
  <2> QED BY <2>1, <2>2, <2>3, Delivery DEF Sent
<1>3. ASSUME NEW h \in Handle, Report(h)
      PROVE  inbox' = inbox \/ (\E m : inboxOpen /\ inbox' = Append(inbox, m) /\ Sent(m))
  <2>1. PICK m : m = StartedMsg(h)
    OBVIOUS
  <2>2. Deliver(m) /\ Sent(m)
    BY <1>3, <2>1 DEF Report, Sent
  <2> QED BY <2>2, Delivery
<1>4. ASSUME NEW h \in Handle, AskToRegister(h)
      PROVE  inbox' = inbox \/ (\E m : inboxOpen /\ inbox' = Append(inbox, m) /\ Sent(m))
  <2>1. PICK m : m = RegisterMsg(h, inc[h].holder = "hirer")
    OBVIOUS
  <2>2. Deliver(m) /\ Sent(m)
    BY <1>4, <2>1 DEF AskToRegister, Sent
  <2> QED BY <2>2, Delivery
<1>5. ASSUME NEW n \in Name, AskToRelease(n)
      PROVE  inbox' = inbox \/ (\E m : inboxOpen /\ inbox' = Append(inbox, m) /\ Sent(m))
  <2>1. PICK m : m = UnregisterMsg(n)
    OBVIOUS
  <2>2. Deliver(m) /\ Sent(m)
    BY <1>5, <2>1 DEF AskToRelease, Sent
  <2> QED BY <2>2, Delivery
<1>6. ASSUME NEW t \in groups, SendDue(t)
      PROVE  inbox' = inbox \/ (\E m : inboxOpen /\ inbox' = Append(inbox, m) /\ Sent(m))
  <2>1. PICK m : m = DueMsg(NextDue(t))
    OBVIOUS
  <2>2. Deliver(m) /\ m.type = "RestartDue"
    BY <1>6, <2>1 DEF SendDue, DueMsg
  <2> QED BY <2>2, Delivery DEF Sent
<1>7. CASE AskSupervisorToStop
  <2>1. PICK m : m = StopMsg
    OBVIOUS
  <2>2. Deliver(m) /\ m.type = "Terminate"
    BY <1>7, <2>1 DEF AskSupervisorToStop, StopMsg
  <2> QED BY <2>2, Delivery DEF Sent
<1>8. ASSUME NEW h, Build(h) \/ StrayStopped(h) \/ CallerAnswered(h) PROVE inbox' = inbox
  BY <1>8 DEF Build, StrayStopped, CallerAnswered, loopVars
<1>9. ASSUME NEW t, AskSibling(t) \/ SiblingDown(t) \/ AbandonBackoff(t) PROVE inbox' = inbox
  BY <1>9 DEF AskSibling, SiblingDown, AbandonBackoff, loopVars
<1>10. ASSUME NEW n, SuperviseDeferred(n) \/ Hire(n) PROVE inbox' = inbox
  BY <1>10 DEF SuperviseDeferred, Hire, loopVars
<1>11. CASE ReleaserReturns \/ UNCHANGED vars
  BY <1>11 DEF ReleaserReturns, vars, loopVars
<1> QED BY <1>1, <1>2, <1>3, <1>4, <1>5, <1>6, <1>7, <1>8, <1>9, <1>10, <1>11
        DEF Next, Tasks, Environment

LEMMA MessageSent ==
    ASSUME SupInv, NEW m, inbox' = Append(inbox, m)
    PROVE  InInbox(m)'
<1>1. inbox \in Seq(Message)
  BY DEF SupInv, SupTypeOK
<1> QED BY <1>1 DEF InInbox

LEMMA MessageStays ==
    ASSUME SupInv, [Next]_vars, NEW m, InInbox(m)
    PROVE  InInbox(m)' \/ TerminateChildren \/ (Receives /\ m = Head(inbox))
<1>1. inbox \in Seq(Message) /\ Len(inbox) \in Nat
  BY DEF SupInv, SupTypeOK
<1>2. CASE inbox' = inbox
  BY <1>2 DEF InInbox
<1>3. ASSUME NEW n, inbox' = Append(inbox, n) PROVE InInbox(m)'
  <2>1. Len(inbox') = Len(inbox) + 1 /\ \A k \in 1..Len(inbox) : inbox'[k] = inbox[k]
    BY <1>1, <1>3
  <2> QED BY <1>1, <2>1 DEF InInbox
<1>4. CASE Receives /\ m # Head(inbox)
  <2>1. inbox # <<>> /\ inbox' = Tail(inbox)
    BY <1>4, ReceivesTakes
  <2>2. PICK k \in 1..Len(inbox) : inbox[k] = m
    BY DEF InInbox
  <2>3. k # 1
    BY <1>1, <1>4, <2>2
  <2>4. /\ Len(inbox') = Len(inbox) - 1 /\ k - 1 \in 1..Len(inbox') /\ inbox'[k - 1] = m
    BY <1>1, <2>1, <2>2, <2>3
  <2> QED BY <2>4 DEF InInbox
<1> QED BY <1>2, <1>3, <1>4, InboxMoves

Busy(h) == inc[h].holder \in {"starter", "failed"}

LEMMA OthersStay ==
    ASSUME SupInv, NEW h \in Handle, Busy(h), NEW g, g # h, NEW d,
           inc' = [inc EXCEPT ![g] = d]
    PROVE  Busy(h)' /\ inc'[h].idx = inc[h].idx
BY BornHandles DEF Busy

LEMMA SameHolder ==
    ASSUME SupInv, NEW h \in Handle, Busy(h), inc'[h].holder = inc[h].holder,
           inc'[h].idx = inc[h].idx
    PROVE  Busy(h)' /\ inc'[h].idx = inc[h].idx
BY DEF Busy

LEMMA BusyIsBorn ==
    ASSUME SupInv, NEW h \in Handle, Busy(h)
    PROVE  /\ h \in 1..born /\ inc[h] \in Child /\ h # Fresh /\ inc[h].idx # NoSlot
           /\ \A m : InInbox(m) /\ m.type \in {"SupervisedChildStarted", "RegisterSupervisedChild"}
                => m.inc # h
           /\ \A i \in Index : slots[i].handle # h
           /\ releaser.got # h /\ h \in Handle /\ h # NoHandle
<1>1. h \in 1..born /\ inc[h] \in Child /\ h # Fresh /\ inc[h].idx # NoSlot
  <2>1. h \in 1..born /\ inc[h] \in Child /\ inc[h].idx # NoSlot
    BY BusyMeansBorn, BornHandles DEF Busy, Sane
  <2> QED BY <2>1, BornHandles DEF Fresh
<1>2. h # NoHandle
  BY BornHandles
<1>3. ~Kept(h)
  BY DEF Busy, Kept
<1>4. ASSUME NEW m, InInbox(m), m.type \in {"SupervisedChildStarted", "RegisterSupervisedChild"}
      PROVE  m.inc # h
  <2>1. MessageRefers(m)
    BY <1>4 DEF InInbox, SupInv, ReferencesHold
  <2> QED BY <1>2, <1>3, <1>4, <2>1 DEF MessageRefers
<1>5. \A i \in Index : slots[i].handle # h
  BY <1>2, <1>3 DEF SupInv, ReferencesHold, SlotRefers
<1>6. releaser.got # h
  BY <1>2, <1>3 DEF SupInv, ReferencesHold
<1> QED BY <1>1, <1>2, <1>4, <1>5, <1>6

LEMMA HeadIsIn ==
    ASSUME SupInv, inbox # <<>>
    PROVE  InInbox(Head(inbox))
<1>1. inbox \in Seq(Message) /\ 1 \in 1..Len(inbox) /\ inbox[1] = Head(inbox)
  BY DEF SupInv, SupTypeOK
<1> QED BY <1>1 DEF InInbox

\* A start task is at work until it reports, or its own panic ends it.
LEMMA BusyStays ==
    ASSUME SupInv, [Next]_vars, NEW h \in Handle, Busy(h), ~Report(h),
           "panic" \notin BuildOutcomes
    PROVE  Busy(h)' /\ inc'[h].idx = inc[h].idx
<1>0. /\ inc \in [Handle -> Child] /\ inc[h] \in Child
      /\ inc[h].holder \in {"starter", "failed"}
  BY BornHandles DEF Busy
<1>1. CASE inc' = inc
  BY <1>1, SameHolder
<1>2. ASSUME NEW g \in Handle, Fault(g) \/ Obey(g)
      PROVE  Busy(h)' /\ inc'[h].idx = inc[h].idx
  <2>1. inc' = [inc EXCEPT ![g].life = "dead"]
    BY <1>2 DEF Fault, Obey, Die
  <2> QED BY <1>0, <2>1 DEF Child, Busy
<1>3. ASSUME NEW g \in Handle, Build(g)
      PROVE  Busy(h)' /\ inc'[h].idx = inc[h].idx
  <2>1. \/ inc' = [inc EXCEPT ![g].life = "live"]
        \/ inc' = [inc EXCEPT ![g].life = "dead", ![g].holder = "failed"]
    BY <1>3 DEF Build
  <2> QED BY <1>0, <2>1 DEF Child, Busy
<1>4. ASSUME NEW g \in Handle,
             Report(g) \/ StrayStopped(g) \/ CallerAnswered(g) \/ AskToRegister(g)
      PROVE  Busy(h)' /\ inc'[h].idx = inc[h].idx
  <2>1. g # h
    BY <1>0, <1>4 DEF StrayStopped, CallerAnswered, AskToRegister
  <2>2. \E d : inc' = [inc EXCEPT ![g] = d]
    BY <1>4 DEF Report, StrayStopped, CallerAnswered, AskToRegister
  <2> QED BY <2>1, <2>2, OthersStay
<1>5. ASSUME NEW t, AskSibling(t)
      PROVE  Busy(h)' /\ inc'[h].idx = inc[h].idx
  <2>1. PICK g : inc' = [inc EXCEPT ![g] = Signalled(inc[g], "Terminate")]
    BY <1>5 DEF AskSibling
  <2>2. CASE g = h
    <3>1. PICK d : d = Signalled(inc[h], "Terminate")
      OBVIOUS
    <3>2. d.holder = inc[h].holder /\ d.idx = inc[h].idx
      BY <1>0, <3>1, Told DEF ChildStep
    <3> QED BY <1>0, <2>1, <2>2, <3>1, <3>2 DEF Busy
  <2> QED BY <2>1, <2>2, OthersStay
<1>6. ASSUME NEW c, Create(c)
      PROVE  Busy(h)' /\ inc'[h].idx = inc[h].idx
  <2>1. inc' = [inc EXCEPT ![Fresh] = c] /\ Fresh # h
    BY <1>6, BusyIsBorn DEF Create
  <2> QED BY <2>1, OthersStay
<1>7. CASE ReleaserReturns
  <2>1. inc'[h] = inc[h]
    BY <1>7, BusyIsBorn DEF ReleaserReturns
  <2> QED BY <2>1, SameHolder
<1>8. CASE ReceiveRegister \/ ReceiveStarted
  <2>1. PICK m : m = Head(inbox)
    OBVIOUS
  <2>2. /\ inbox # <<>>
        /\ m.type \in {"SupervisedChildStarted", "RegisterSupervisedChild"}
        /\ inc' = inc \/ \E d : inc' = [inc EXCEPT ![m.inc] = d]
    BY <1>8, <2>1 DEF ReceiveRegister, ReceiveStarted, Receive
  <2>3. m.inc # h
    <3>1. InInbox(m)
      BY <2>1, <2>2, HeadIsIn
    <3> QED BY <2>2, <3>1, BusyIsBorn
  <2>4. PICK g : g = m.inc
    OBVIOUS
  <2>5. CASE \E d : inc' = [inc EXCEPT ![g] = d]
    BY <2>3, <2>4, <2>5, OthersStay
  <2> QED BY <1>1, <2>2, <2>4, <2>5
<1>9. CASE TerminateChildren
  <2>1. inc'[h] = inc[h] \/ inc'[h] = Signalled(inc[h], "Cascade")
    BY <1>9 DEF TerminateChildren
  <2>2. PICK d : d = Signalled(inc[h], "Cascade")
    OBVIOUS
  <2>3. d.holder = inc[h].holder /\ d.idx = inc[h].idx
    BY <1>0, <2>2, Told DEF ChildStep
  <2> QED BY <2>1, <2>2, <2>3, SameHolder
<1>10. \/ inc' = inc
       \/ \E g \in Handle : \/ Fault(g) \/ Obey(g) \/ Build(g)
                            \/ Report(g) \/ StrayStopped(g) \/ CallerAnswered(g) \/ AskToRegister(g)
       \/ (\E t : AskSibling(t)) \/ (\E c : Create(c))
       \/ ReleaserReturns \/ ReceiveRegister \/ ReceiveStarted \/ TerminateChildren
  <2>1. CASE Loop
    BY <2>1 DEF Loop, LaunchStart, ReceiveUnregister, ReceiveDue, NoticeSettled, NoticeEscalates,
       NoticeRestarts, ReceiveStop, LeaveLoop, Stopped, childVars
  <2>2. ASSUME NEW t, SiblingDown(t) \/ SendDue(t) \/ AbandonBackoff(t)
        PROVE  inc' = inc
    BY <2>2 DEF SiblingDown, SendDue, AbandonBackoff, childVars
  <2>3. ASSUME NEW n, SuperviseDeferred(n) \/ AskToRelease(n)
        PROVE  inc' = inc
    BY <2>3 DEF SuperviseDeferred, AskToRelease, childVars
  <2>4. ASSUME NEW n, Hire(n) PROVE \E c : Create(c)
    BY <2>4 DEF Hire
  <2>5. CASE AskSupervisorToStop \/ UNCHANGED vars
    BY <2>5 DEF AskSupervisorToStop, vars, childVars
  <2> QED BY <2>1, <2>2, <2>3, <2>4, <2>5 DEF Next, Tasks, Environment
<1> QED BY <1>1, <1>2, <1>3, <1>4, <1>5, <1>6, <1>7, <1>8, <1>9, <1>10

-------------------------------------------------------------------------------
(* Whoever works on a slot that is owed an incarnation.                       *)

NoStopsExpected == \A i \in Index : slots[i].state \notin ExpectedStop

BeingStarted(i) ==
    \/ \E h \in Handle : Busy(h) /\ inc[h].idx = i
    \/ \E m \in Message : InInbox(m) /\ m.type = "SupervisedChildStarted" /\ m.idx = i

IsDueOf(d, i) == d.idx = i /\ d.name = slots[i].ern /\ d.gen = slots[i].gen
BeingWaitedOut(i) ==
    \/ \E t \in groups : \E d \in t.dues : IsDueOf(d, i)
    \/ \E m \in Message : InInbox(m) /\ m.type = "RestartDue" /\ IsDueOf(m, i)

SlotIsDriven(i) ==
    /\ slots[i].state \in {"Starting", "Restarting"} => BeingStarted(i)
    /\ slots[i].state = "AwaitingBackoff" => BeingWaitedOut(i)

DrivenInv ==
    /\ NoStopsExpected
    /\ Serving => \A i \in Index : SlotIsDriven(i)

LEMMA ServingSince ==
    ASSUME SupInv, [Next]_vars, Serving'
    PROVE  Serving /\ inboxOpen /\ ~cancelled /\ ~TerminateChildren /\ ~LeaveLoop
<1>1. CASE Loop
  <2>1. CASE NoticeEscalates
    <3>1. /\ UNCHANGED <<inboxOpen, phase>> /\ phase = "loop"
          /\ cancelled' = (cancelled \/ Escalation = "StopSupervisor")
      BY <2>1 DEF NoticeEscalates, Receive, Waiting
    <3>2. cancelled \in BOOLEAN
      BY DEF SupInv, SupTypeOK
    <3> QED BY <3>1, <3>2 DEF Serving, TerminateChildren, LeaveLoop
  <2>2. CASE /\ Loop /\ ~NoticeEscalates
    <3>1. phase' = "loop" /\ inboxOpen' = TRUE
      BY <1>1 DEF Serving, SupInv, SupTypeOK
    <3>2. phase = "loop" /\ inboxOpen' = inboxOpen /\ cancelled' = cancelled
      BY <2>2, <3>1 DEF Loop, LaunchStart, ReceiveRegister, ReceiveStarted, ReceiveUnregister,
         ReceiveDue, NoticeSettled, NoticeRestarts, ReceiveStop, LeaveLoop,
         TerminateChildren, Stopped, Receive, loopVars
    <3> QED BY <3>1, <3>2 DEF Serving, TerminateChildren, LeaveLoop
  <2> QED BY <1>1, <2>1, <2>2
<1>2. CASE \E n \in Name : SuperviseDeferred(n)
  BY <1>2 DEF SuperviseDeferred, Serving, loopVars, TerminateChildren, LeaveLoop
<1>3. CASE UNCHANGED <<regVars, inboxOpen, cancelled, phase, toStop>>
  BY <1>3 DEF Serving, TerminateChildren, LeaveLoop
<1> QED BY <1>1, <1>2, <1>3, OnlyTheLoopDecides

\* The records move as the loop's step says.
LEMMA OthersWait ==
    ASSUME SupInv, Strategy = "OneForOne", NoStopsExpected, [Next]_vars, NEW i \in Index
    PROVE  /\ Goes(slots[i], slots'[i])
           /\ \/ Waits(slots[i], slots'[i])
              \/ LaunchStart /\ i = Head(pending) /\ Launchable(i)
              \/ NoticeRestarts /\ i = byErn[Head(inbox).name]
<1>0. RegInv
  BY DEF SupInv
<1>1. Goes(slots[i], slots'[i])
  BY NextKeeps, RecordsGo DEF SupStep, SupInv
<1>2. CASE UNCHANGED regVars
  BY <1>2, RecordsStayPut DEF regVars
<1>3. CASE LaunchStart
  <2>1. PICK j : j = Head(pending)
    OBVIOUS
  <2> QED BY <1>0, <1>3, <2>1, BeginStartGoes DEF LaunchStart
<1>4. CASE Receives
  <2>1. PICK m : m = Head(inbox)
    OBVIOUS
  <2>2. PICK n : n = m.name
    OBVIOUS
  <2>3. inbox # <<>> /\ m \in Message
    BY <1>4, <2>1, ReceivesTakes, HeadRefers
  <2>4. CASE ReceiveRegister
    <3>1. m.type = "RegisterSupervisedChild"
      BY <2>1, <2>4 DEF ReceiveRegister, Receive
    <3>2. n \in Name /\ m.inc \in Handle /\ m.restartable \in BOOLEAN
      BY <2>2, <2>3, <3>1 DEF Message
    <3>3. Register(n, m.inc, m.restartable) \/ RegisterDuplicate(n)
      BY <2>1, <2>2, <2>4 DEF ReceiveRegister
    <3> QED BY <1>0, <3>2, <3>3, RegistrationGoes
  <2>5. CASE ReceiveStarted
    <3>1. m.type = "SupervisedChildStarted"
      BY <2>1, <2>5 DEF ReceiveStarted, Receive
    <3>2. PICK j, h : j = m.idx /\ h = m.inc
      OBVIOUS
    <3>3. n \in Name /\ h \in Handle \cup {NoHandle} /\ j \in Index
      BY <2>2, <2>3, <3>1, <3>2 DEF Message
    <3>4. \/ h # NoHandle /\ CompleteStart(j, n, h)
          \/ FailStart(j) \/ UNCHANGED regVars
      BY <2>1, <2>2, <2>5, <3>2 DEF ReceiveStarted
    <3> QED BY <1>0, <1>2, <3>3, <3>4, ProgressGoes, LettingGoGoes
  <2>6. CASE ReceiveUnregister
    <3>1. m.type = "UnregisterSupervisedChild" /\ (Retire(n) \/ RetireUnknown(n))
      BY <2>1, <2>2, <2>6 DEF ReceiveUnregister, Receive
    <3>2. n \in Name
      BY <2>2, <2>3, <3>1 DEF Message
    <3> QED BY <1>0, <3>1, <3>2, LettingGoGoes
  <2>7. CASE ReceiveDue
    <3>1. PICK j, g : j = m.idx /\ g = m.gen
      OBVIOUS
    <3>2. m.type = "RestartDue" /\ (QueueRestart(j, n, g) \/ UNCHANGED regVars)
      BY <2>1, <2>2, <2>7, <3>1 DEF ReceiveDue, Receive
    <3>3. n \in Name /\ j \in Index
      BY <2>2, <2>3, <3>1, <3>2 DEF Message
    <3>4. QueueRestart(j, n, g) => Waits(slots[i], slots'[i])
      <4>1. QueueRestart(j, n, g) => Rewrites(j, "AwaitingRestart", NoHandle)
                                     /\ slots[j].state = "AwaitingBackoff"
        BY <1>0, <3>3, QueueRestartRewrites
      <4> QED BY <3>3, <4>1, RewriteGoes DEF ExpectedStop, Terminal
    <3> QED BY <1>1, <1>2, <3>2, <3>4
  <2>8. CASE NoticeSettled \/ NoticeEscalates \/ NoticeRestarts
    <3>1. PICK reason : reason = m.reason
      OBVIOUS
    <3>2. m.type = "ChildTerminated"
      BY <2>1, <2>8 DEF NoticeSettled, NoticeEscalates, NoticeRestarts, Receive
    <3>3. n \in Name /\ reason \in TerminationReasons
      BY <2>2, <2>3, <3>1, <3>2 DEF Message
    <3>4. Notice(n, reason)
      BY <2>1, <2>2, <2>8, <3>1 DEF Notice, NoticeSettled, NoticeEscalates, NoticeRestarts
    <3>5. ~GroupStopLanded(n)
      <4>1. GroupStopLanded(n) => byErn[n] \in Index /\ slots[byErn[n]].state \in ExpectedStop
        BY <1>0, <3>3, GroupStopLandedRewrites, TakenSlots
      <4> QED BY <4>1 DEF NoStopsExpected
    <3>6. CASE ~Restarts(n, reason)
      BY <1>0, <1>1, <3>3, <3>4, <3>5, <3>6, NoticeGoes
    <3>7. CASE NoticeRestarts
      BY <1>0, <1>1, <2>1, <2>2, <3>3, <3>4, <3>7, NoticeGoes
    <3>8. CASE (NoticeSettled \/ NoticeEscalates) /\ Restarts(n, reason)
      <4>1. IgnoreNotice(n) \/ ForgetChild(n, reason) \/ Escalates(n, reason)
        BY <2>1, <2>2, <3>1, <3>5, <3>8 DEF NoticeSettled, NoticeEscalates
      <4>2. CASE IgnoreNotice(n)
        BY <1>2, <4>2 DEF IgnoreNotice
      <4>3. CASE ForgetChild(n, reason)
        BY <3>8, <4>3 DEF ForgetChild, Restarts, ScheduleRestart
      <4>4. CASE Escalates(n, reason)
        <5>1. slots[byErn[n]].charged \in Nat
          BY <1>0, <3>3, <4>4, TakenSlots DEF Escalates, FreshFailure, Slot
        <5>2. PICK kept \in Nat : EscalateChild(n, reason, kept)
          BY <4>4, <5>1 DEF Escalates
        <5>3. Rewrites(byErn[n], "Escalated", NoHandle) /\ byErn[n] \in Index
              /\ slots[byErn[n]].state \in Accepting
          BY <1>0, <3>3, <5>2, EscalateChildRewrites, TakenSlots
        <5> QED BY <1>1, <5>3, RewriteGoes DEF Accepting, ExpectedStop, Terminal
      <4> QED BY <4>1, <4>2, <4>3, <4>4
    <3> QED BY <2>8, <3>6, <3>7, <3>8
  <2>9. CASE ReceiveStop
    BY <1>2, <2>9 DEF ReceiveStop
  <2> QED BY <1>4, <2>4, <2>5, <2>6, <2>7, <2>8, <2>9 DEF Receives
<1>5. CASE LeaveLoop
  BY <1>0, <1>5, LettingGoGoes DEF LeaveLoop
<1>6. CASE TerminateChildren \/ Stopped
  BY <1>2, <1>6 DEF TerminateChildren, Stopped
<1>7. ASSUME NEW n \in Name, SuperviseDeferred(n) PROVE Waits(slots[i], slots'[i])
  BY <1>0, <1>7, RegistrationGoes DEF SuperviseDeferred
<1> QED BY <1>1, <1>2, <1>3, <1>4, <1>5, <1>6, <1>7, OnlyTheLoopDecides DEF Loop, Receives

LEMMA StartedChildSeen ==
    ASSUME SupInv, LaunchStart, Launchable(Head(pending))
    PROVE  \E h \in Handle : Busy(h)' /\ inc'[h].idx = Head(pending)
<1>1. PICK i : i = Head(pending)
  OBVIOUS
<1>2. i \in Index /\ slots[i].ern \in Name
  BY <1>1, BeginStartRewrites, TakenSlots DEF LaunchStart, SupInv
<1>3. PICK n : n = slots[i].ern
  OBVIOUS
<1>4. PICK c : c = [Unborn EXCEPT !.name = n, !.idx = i, !.life = "building",
                                  !.holder = "starter"]
  OBVIOUS
<1>5. c \in Child /\ Sane(c) /\ c.idx = i /\ c.life = "building" /\ c.holder = "starter"
  <2>1. i # NoSlot
    BY <1>2 DEF Index, NoSlot
  <2> QED BY <1>2, <1>3, <1>4, <2>1, UnbornFields DEF Child, Lives, Holders, Sane
<1>6. Create(c)
  BY <1>1, <1>3, <1>4 DEF LaunchStart
<1>7. Fresh \in Handle /\ inc'[Fresh] = c
  BY <1>5, <1>6, OneChildIsCreated
<1>8. PICK f : f = Fresh
  OBVIOUS
<1>9. f \in Handle /\ Busy(f)' /\ inc'[f].idx = i
  BY <1>5, <1>7, <1>8 DEF Busy
<1> QED BY <1>1, <1>9

LEMMA ReportArrives ==
    ASSUME SupInv, NEW h \in Handle, Busy(h), Report(h), inboxOpen
    PROVE  \E m \in Message : /\ InInbox(m)' /\ m.type = "SupervisedChildStarted"
                              /\ m.idx = inc[h].idx /\ m.name = inc[h].name
                              /\ m.inc \in {h, NoHandle}
<1>1. PICK m : m = StartedMsg(h)
  OBVIOUS
<1>2. inc[h].idx \in Index /\ inc[h].name \in Name
  BY BusyIsBorn DEF Child
<1>3. /\ m \in Message /\ m.type = "SupervisedChildStarted" /\ m.idx = inc[h].idx
      /\ m.name = inc[h].name /\ m.inc \in {h, NoHandle}
  BY <1>1, <1>2 DEF StartedMsg, Message
<1>4. inbox' = Append(inbox, m)
  BY <1>1 DEF Report, Deliver
<1> QED BY <1>3, <1>4, MessageSent

LEMMA StartGoesOn ==
    ASSUME SupInv, [Next]_vars, Serving', NEW i \in Index, BeingStarted(i),
           slots'[i].state \in {"Starting", "Restarting"}, slots'[i].state = slots[i].state,
           "panic" \notin BuildOutcomes
    PROVE  BeingStarted(i)'
<1>0. Serving /\ inboxOpen /\ ~TerminateChildren
  BY ServingSince
<1>1. ASSUME NEW h \in Handle, Busy(h), inc[h].idx = i PROVE BeingStarted(i)'
  <2>1. CASE Report(h)
    BY <1>0, <1>1, <2>1, ReportArrives DEF BeingStarted
  <2>2. CASE ~Report(h)
    BY <1>1, <2>2, BusyStays DEF BeingStarted
  <2> QED BY <2>1, <2>2
<1>2. ASSUME NEW m \in Message, InInbox(m), m.type = "SupervisedChildStarted", m.idx = i
      PROVE  BeingStarted(i)'
  <2>1. CASE InInbox(m)'
    BY <1>2, <2>1 DEF BeingStarted
  <2>2. CASE Receives /\ m = Head(inbox)
    <3>1. ReceiveStarted
      BY <1>2, <2>2 DEF Receives, ReceiveRegister, ReceiveUnregister, ReceiveDue,
         NoticeSettled, NoticeEscalates, NoticeRestarts, ReceiveStop, Receive
    <3>2. PICK n, h : n = m.name /\ h = m.inc
      OBVIOUS
    <3>3. slots[i].ern = n /\ n \in Name /\ h \in Handle \cup {NoHandle}
      BY <1>2, <2>2, <3>2, ReceivesTakes, HeadRefers DEF MessageRefers, Recorded, Message
    <3>4. StartAccepted(i, n) /\ slots[i].state \in Owed
      BY <3>3 DEF StartAccepted, Owed
    <3>5. \/ h # NoHandle /\ CompleteStart(i, n, h)
          \/ FailStart(i)
      BY <1>2, <2>2, <3>1, <3>2, <3>4 DEF ReceiveStarted
    <3>6. slots'[i].state \in {"Running", "Retired"}
      BY <3>3, <3>5, CompleteStartRewrites, FailStartRewrites DEF Rewrites, SupInv
    <3> QED BY <3>6
  <2> QED BY <1>0, <1>2, <2>1, <2>2, MessageStays
<1> QED BY <1>1, <1>2 DEF BeingStarted

\* A restart a group task is to ask for is still to be asked for, or has been.
LEMMA DueStays ==
    ASSUME SupInv, [Next]_vars, Serving', NEW t \in groups, NEW d \in t.dues
    PROVE  (\E u \in groups' : d \in u.dues) \/ InInbox(DueMsg(d))'
<1>0. inboxOpen /\ ~cancelled
  BY ServingSince
<1>1. CASE t \in groups'
  BY <1>1
<1>2. ASSUME NEW g \in groups, AskSibling(g) PROVE \E u \in groups' : d \in u.dues
  <2>1. PICK u : u = [g EXCEPT !.asked = TRUE]
    OBVIOUS
  <2>2. g.dues = u.dues /\ groups' = (groups \ {g}) \cup {u}
    BY <1>2, <2>1 DEF AskSibling, Advance
  <2> QED BY <2>2
<1>3. ASSUME NEW g \in groups, SiblingDown(g) PROVE \E u \in groups' : d \in u.dues
  <2>1. PICK u : u = [g EXCEPT !.asked = FALSE, !.stops = @ \ {NextStop(g)}]
    OBVIOUS
  <2>2. g.dues = u.dues /\ groups' = (groups \ {g}) \cup {u}
    BY <1>3, <2>1 DEF SiblingDown, Advance
  <2> QED BY <2>2
<1>4. ASSUME NEW g \in groups, SendDue(g), g = t
      PROVE  (\E u \in groups' : d \in u.dues) \/ InInbox(DueMsg(d))'
  <2>1. PICK next : next = NextDue(g)
    OBVIOUS
  <2>2. PICK u : u = [g EXCEPT !.dues = g.dues \ {next}, !.due = TRUE]
    OBVIOUS
  <2>3. CASE d = next
    <3>1. PICK m : m = DueMsg(d)
      OBVIOUS
    <3>2. inbox' = Append(inbox, m)
      BY <1>0, <1>4, <2>1, <2>3, <3>1 DEF SendDue, Deliver
    <3>3. InInbox(m)'
      BY <3>2, MessageSent
    <3> QED BY <3>1, <3>3 DEF DueMsg
  <2>4. CASE d # next
    <3>1. g.dues \ {next} # {} /\ d \in g.dues \ {next}
      BY <1>4, <2>4
    <3>2. groups' = (groups \ {g}) \cup {u}
      BY <1>0, <1>4, <2>1, <2>2, <3>1 DEF SendDue, Advance
    <3>3. u.dues = g.dues \ {next}
      <4>1. GroupRestart(g)
        BY DEF SupInv, SupTypeOK
      <4> QED BY <2>2
    <3> QED BY <3>1, <3>2, <3>3
  <2> QED BY <2>3, <2>4
<1>5. ASSUME NEW g \in groups, SendDue(g), g # t
      PROVE  t \in groups'
  BY <1>5 DEF SendDue, Advance
<1>6. ASSUME NEW g, AbandonBackoff(g) PROVE FALSE
  BY <1>0, <1>6 DEF AbandonBackoff
<1>7. CASE Loop
  <2>1. groups \subseteq groups'
    BY <1>7 DEF Loop, LaunchStart, ReceiveRegister, ReceiveStarted, ReceiveUnregister, ReceiveDue,
       NoticeSettled, NoticeEscalates, NoticeRestarts, ReceiveStop, LeaveLoop,
       TerminateChildren, Stopped, taskVars
  <2> QED BY <2>1
<1>8. ASSUME NEW h, Build(h) \/ Report(h) \/ StrayStopped(h) \/ CallerAnswered(h)
                    \/ Fault(h) \/ AskToRegister(h) \/ Obey(h)
      PROVE  groups' = groups
  BY <1>8 DEF Build, Report, StrayStopped, CallerAnswered, Fault, AskToRegister, Obey, taskVars
<1>9. ASSUME NEW n, SuperviseDeferred(n) \/ Hire(n) \/ AskToRelease(n)
      PROVE  groups' = groups
  BY <1>9 DEF SuperviseDeferred, Hire, AskToRelease, taskVars
<1>10. CASE ReleaserReturns \/ AskSupervisorToStop \/ UNCHANGED vars
  BY <1>10 DEF ReleaserReturns, AskSupervisorToStop, vars, taskVars
<1> QED BY <1>1, <1>2, <1>3, <1>4, <1>5, <1>6, <1>7, <1>8, <1>9, <1>10
        DEF Next, Tasks, Environment

LEMMA BackoffGoesOn ==
    ASSUME SupInv, [Next]_vars, Serving', NEW i \in Index, BeingWaitedOut(i), i \in Taken,
           slots'[i].state = "AwaitingBackoff", slots[i].state = "AwaitingBackoff",
           slots'[i].gen = slots[i].gen
    PROVE  BeingWaitedOut(i)'
<1>0. inboxOpen /\ ~TerminateChildren /\ slots'[i].ern = slots[i].ern
  BY ServingSince, NextKeeps DEF SupStep, RegStep
<1>1. ASSUME NEW t \in groups, NEW d \in t.dues, IsDueOf(d, i) PROVE BeingWaitedOut(i)'
  <2>1. d.idx = i /\ d.name = slots'[i].ern /\ d.gen = slots'[i].gen
    BY <1>0, <1>1 DEF IsDueOf
  <2>2. CASE \E u \in groups' : d \in u.dues
    BY <2>1, <2>2 DEF BeingWaitedOut, IsDueOf
  <2>3. CASE InInbox(DueMsg(d))'
    <3>1. PICK m : m = DueMsg(d)
      OBVIOUS
    <3>2. InInbox(m)'
      BY <2>3, <3>1 DEF DueMsg
    <3>3. /\ m.type = "RestartDue" /\ m.idx = d.idx /\ m.name = d.name /\ m.gen = d.gen
          /\ m \in Message
      <4>1. d.idx \in Index /\ d.name \in Name /\ d.gen \in Nat
        BY <1>1 DEF SupInv, SupTypeOK, GroupRestart
      <4> QED BY <3>1, <4>1 DEF DueMsg, Message
    <3> QED BY <2>1, <3>2, <3>3 DEF BeingWaitedOut, IsDueOf
  <2> QED BY <2>2, <2>3, DueStays
<1>2. ASSUME NEW m \in Message, InInbox(m), m.type = "RestartDue", IsDueOf(m, i)
      PROVE  BeingWaitedOut(i)'
  <2>1. CASE InInbox(m)'
    BY <1>0, <1>2, <2>1 DEF BeingWaitedOut, IsDueOf
  <2>2. CASE Receives /\ m = Head(inbox)
    <3>1. ReceiveDue
      BY <1>2, <2>2 DEF Receives, ReceiveRegister, ReceiveUnregister, ReceiveStarted,
         NoticeSettled, NoticeEscalates, NoticeRestarts, ReceiveStop, Receive
    <3>2. PICK n, g : n = m.name /\ g = m.gen
      OBVIOUS
    <3>3. TimerMatches(i, n, g) /\ m.idx = i /\ n \in Name
      BY <1>2, <3>2 DEF IsDueOf, TimerMatches, Message
    <3>4. QueueRestart(i, n, g)
      BY <2>2, <3>1, <3>2, <3>3 DEF ReceiveDue
    <3>5. slots'[i].state = "AwaitingRestart"
      BY <3>3, <3>4, QueueRestartRewrites DEF Rewrites, SupInv
    <3> QED BY <3>5
  <2> QED BY <1>0, <1>2, <2>1, <2>2, MessageStays
<1> QED BY <1>1, <1>2 DEF BeingWaitedOut

LEMMA BackoffBegins ==
    ASSUME SupInv, Strategy = "OneForOne", NoticeRestarts, NEW i, i = byErn[Head(inbox).name]
    PROVE  BeingWaitedOut(i)' /\ slots'[i].state = "AwaitingBackoff"
<1>1. PICK m : m = Head(inbox)
  OBVIOUS
<1>2. PICK n, reason, h : n = m.name /\ reason = m.reason /\ h = m.inc
  OBVIOUS
<1>3. PICK plan : plan = RestartPlanFor(n)
  OBVIOUS
<1>4. /\ inbox # <<>> /\ m.type = "ChildTerminated" /\ Restarts(n, reason)
      /\ groups' = groups \cup {GroupTask(h, plan)}
  BY <1>1, <1>2, <1>3 DEF NoticeRestarts, Receive
<1>5. n \in Name
  BY <1>1, <1>2, <1>4, HeadRefers DEF Message
<1>6. slots[byErn[n]].charged \in Nat
  BY <1>4, <1>5, TakenSlots DEF Restarts, FreshFailure, Slot, SupInv
<1>7. PICK kept \in Nat : ScheduleRestart(n, reason, kept)
  BY <1>4, <1>6 DEF Restarts
<1>8. /\ plan.restart = {i} /\ slots'[i].gen = slots[i].gen /\ slots'[i].ern = slots[i].ern
      /\ slots'[i].state = "AwaitingBackoff"
  BY <1>1, <1>2, <1>3, <1>5, <1>7, ScheduleRestartAlone DEF SupInv, Rewrites
<1>9. PICK d : d = [idx |-> i, name |-> slots[i].ern, gen |-> slots[i].gen]
  OBVIOUS
<1>10. PICK t : t = GroupTask(h, plan)
  OBVIOUS
<1>11. d \in t.dues
  BY <1>8, <1>9, <1>10 DEF GroupTask
<1>12. d.idx = i /\ d.name = slots'[i].ern /\ d.gen = slots'[i].gen
  BY <1>8, <1>9
<1> QED BY <1>4, <1>8, <1>10, <1>11, <1>12 DEF BeingWaitedOut, IsDueOf

LEMMA DrivenStep ==
    ASSUME SupInv, Strategy = "OneForOne", "panic" \notin BuildOutcomes, DrivenInv, [Next]_vars
    PROVE  DrivenInv'
<1>1. NoStopsExpected /\ \A i \in Index : Goes(slots[i], slots'[i])
  BY OthersWait DEF DrivenInv
<1>2. NoStopsExpected'
  BY <1>1 DEF NoStopsExpected, Goes
<1>3. ASSUME Serving', NEW i \in Index PROVE SlotIsDriven(i)'
  <2>0. Serving /\ SlotIsDriven(i)
    BY <1>3, ServingSince DEF DrivenInv
  <2>1. CASE slots'[i].state \in {"Starting", "Restarting"}
    <3>1. CASE Waits(slots[i], slots'[i])
      <4>1. slots'[i].state = slots[i].state
        BY <2>1, <3>1 DEF Waits
      <4>2. BeingStarted(i)'
        BY <1>3, <2>0, <2>1, <4>1, StartGoesOn DEF SlotIsDriven
      <4> QED BY <2>1, <4>2 DEF SlotIsDriven
    <3>2. CASE LaunchStart /\ i = Head(pending) /\ Launchable(i)
      BY <2>1, <3>2, StartedChildSeen DEF SlotIsDriven, BeingStarted
    <3>3. CASE NoticeRestarts /\ i = byErn[Head(inbox).name]
      BY <2>1, <3>3, BackoffBegins
    <3> QED BY <1>1, <3>1, <3>2, <3>3, OthersWait
  <2>2. CASE slots'[i].state = "AwaitingBackoff"
    <3>1. CASE Waits(slots[i], slots'[i])
      <4>1. slots[i].state = "AwaitingBackoff" /\ slots'[i].gen = slots[i].gen /\ i \in Taken
        BY <2>2, <3>1, TakenSlots DEF Waits, SupInv
      <4>2. BeingWaitedOut(i)'
        BY <1>3, <2>0, <2>2, <4>1, BackoffGoesOn DEF SlotIsDriven
      <4> QED BY <2>2, <4>2 DEF SlotIsDriven
    <3>2. CASE LaunchStart /\ i = Head(pending) /\ Launchable(i)
      BY <2>2, <3>2, BeginStartRewrites DEF LaunchStart, Rewrites, SupInv
    <3>3. CASE NoticeRestarts /\ i = byErn[Head(inbox).name]
      BY <2>2, <3>3, BackoffBegins DEF SlotIsDriven
    <3> QED BY <1>1, <3>1, <3>2, <3>3, OthersWait
  <2> QED BY <2>1, <2>2 DEF SlotIsDriven
<1> QED BY <1>2, <1>3 DEF DrivenInv

LEMMA DrivenInit == Init => DrivenInv
<1> SUFFICES ASSUME Init PROVE DrivenInv
  OBVIOUS
<1>1. \A i \in Index : slots[i].state = "Unused"
  BY DEF Init, RegInit, Unregistered, NewSlot
<1> QED BY <1>1 DEF DrivenInv, NoStopsExpected, SlotIsDriven, ExpectedStop

LEMMA DrivenSlots ==
    ASSUME SupInv, DrivenInv, QueuedSlotsAreInTheQueue, Serving, NEW i \in Taken
    PROVE  Driven(i)
<1>1. i \in Index /\ slots[i].state \notin ExpectedStop /\ SlotIsDriven(i)
  BY TakenSlots DEF DrivenInv, NoStopsExpected, SupInv
<1>2. CASE slots[i].state \in {"Pending", "AwaitingRestart"}
  <2>1. \E k \in 1..Len(pending) : pending[k] = i
    BY <1>2 DEF QueuedSlotsAreInTheQueue, Launchable
  <2> QED BY <1>1, <1>2, <2>1 DEF Driven
<1>3. CASE slots[i].state \in {"Starting", "Restarting"}
  <2>1. \/ \E h \in StartTasks : inc[h].idx = i /\ inc[h].holder # "stray"
        \/ \E k \in 1..Len(inbox) :
             inbox[k].type = "SupervisedChildStarted" /\ inbox[k].idx = i
    BY <1>1, <1>3 DEF SlotIsDriven, BeingStarted, Busy, StartTasks, InInbox
  <2> QED BY <1>1, <1>3, <2>1 DEF Driven
<1>4. CASE slots[i].state = "AwaitingBackoff"
  <2>1. \/ \E t \in groups : \E d \in t.dues : d.idx = i /\ d.gen = slots[i].gen
        \/ \E k \in 1..Len(inbox) : /\ inbox[k].type = "RestartDue"
                                    /\ inbox[k].idx = i /\ inbox[k].gen = slots[i].gen
    BY <1>1, <1>4 DEF SlotIsDriven, BeingWaitedOut, IsDueOf, InInbox
  <2> QED BY <1>1, <1>4, <2>1 DEF Driven
<1>5. CASE slots[i].state \notin {"Pending", "AwaitingRestart", "Starting", "Restarting",
                                  "AwaitingBackoff"}
  BY <1>1, <1>5 DEF Driven
<1> QED BY <1>2, <1>3, <1>4, <1>5

\* A slot that is owed an incarnation has somebody working on it while its
\* supervisor serves: its queue entry, its start task, the task's report, its
\* backoff or the timer's message.  It needs a start task that always reports,
\* which a panic in before_start breaks, and a plan that leaves the siblings alone:
\* a sibling's failure may park a slot whose start is in flight.
THEOREM OwedSlotsAreDriven ==
    ASSUME Strategy = "OneForOne", "panic" \notin BuildOutcomes
    PROVE  Spec => []SupervisionIsConsistent
<1>1. SupInv /\ DrivenInv /\ [Next]_vars => DrivenInv'
  BY DrivenStep
<1>2. Spec => []DrivenInv
  BY <1>1, DrivenInit, SupInvHolds, PTL DEF Spec
<1>3. Spec => []QueuedSlotsAreInTheQueue
  BY TheRegistryIsARegistry, QueueForgetsNobody
<1>4. SupInv /\ DrivenInv /\ QueuedSlotsAreInTheQueue => SupervisionIsConsistent
  BY DrivenSlots DEF SupervisionIsConsistent, EveryOwedSlotIsDriven, SupInv
<1> QED BY <1>2, <1>3, <1>4, SupInvHolds, PTL

-------------------------------------------------------------------------------
(* Whatever the strategy.  What a group restart does to the records, and what  *)
(* every other step leaves of them.                                            *)

ToComeBack == {"StopThenRestart", "AwaitingBackoff"}

\* What a group restart does to the records.
Rearranges(plan) ==
    \A i \in Index :
        /\ slots'[i].ern = slots[i].ern
        /\ i \in plan.stop =>
             /\ slots[i].state = "Running" /\ slots[i].handle \in Handle
             /\ slots'[i].handle = slots[i].handle /\ i \in Taken
             /\ slots'[i].state = IF i \in plan.restart THEN "StopThenRestart"
                                                        ELSE "StopThenDown"
        /\ i \notin plan.stop /\ i \in plan.restart =>
             slots'[i].state = "AwaitingBackoff" /\ i \in Taken
        /\ i \notin plan.stop /\ i \notin plan.restart =>
             slots'[i].state = slots[i].state /\ slots'[i].handle = slots[i].handle

LEMMA ScheduleRearranges ==
    ASSUME RegInv, NEW n \in Name, NEW reason, NEW kept \in Nat,
           ScheduleRestart(n, reason, kept), NEW plan, plan = RestartPlanFor(n)
    PROVE  Rearranges(plan) /\ byErn[n] \notin plan.stop
<1>1. PICK f : f = byErn[n]
  OBVIOUS
<1>2. slots' = [i \in Index |->
                  Rearranged(IF i = f THEN [slots[i] EXCEPT !.charged = kept + 1] ELSE slots[i],
                             i \in plan.stop, i \in plan.restart)]
  BY <1>1 DEF ScheduleRestart
<1>3. f \notin plan.stop
  BY <1>1 DEF RestartPlanFor, PlanRestart
<1>4. ASSUME NEW i \in Index
      PROVE  /\ slots'[i].ern = slots[i].ern
             /\ i \in plan.stop =>
                  /\ slots[i].state = "Running" /\ slots[i].handle \in Handle
                  /\ slots'[i].handle = slots[i].handle /\ i \in Taken
                  /\ slots'[i].state = IF i \in plan.restart THEN "StopThenRestart"
                                                             ELSE "StopThenDown"
             /\ i \notin plan.stop /\ i \in plan.restart =>
                  slots'[i].state = "AwaitingBackoff" /\ i \in Taken
             /\ i \notin plan.stop /\ i \notin plan.restart =>
                  slots'[i].state = slots[i].state /\ slots'[i].handle = slots[i].handle
  <2>1. PICK s : s = IF i = f THEN [slots[i] EXCEPT !.charged = kept + 1] ELSE slots[i]
    OBVIOUS
  <2>2. s \in Slot /\ s.ern = slots[i].ern /\ s.state = slots[i].state
        /\ s.handle = slots[i].handle
    <3>1. slots[i] \in Slot
      BY TakenSlots
    <3> QED BY ONLY <2>1, <3>1, kept \in Nat DEF Slot
  <2>3. slots'[i] = Rearranged(s, i \in plan.stop, i \in plan.restart)
    BY <1>2, <2>1
  <2>4. PICK h \in AnyHandle : h = s.handle
    BY <2>2 DEF Slot, AnyHandle
  <2>5. PICK t : t = slots'[i]
    OBVIOUS
  <2>6. i \in plan.stop => /\ slots[i].state = "Running" /\ slots[i].handle \in Handle
                           /\ i \in Taken
    BY PlannedSlots, TakenSlots
  <2>7. i \in plan.restart => i \in Taken
    BY PlannedSlots
  <2>8. CASE i \in plan.stop
    <3>1. PICK state \in SlotStates :
            state = IF i \in plan.restart THEN "StopThenRestart" ELSE "StopThenDown"
      BY DEF SlotStates
    <3>2. t = Moved(s, state, h)
      BY <2>3, <2>4, <2>5, <2>8, <3>1 DEF Rearranged
    <3>3. t.ern = s.ern /\ t.state = state /\ t.handle = h
      BY <2>2, <3>2, MovedFields
    <3> QED BY <2>2, <2>4, <2>5, <2>6, <2>8, <3>1, <3>3
  <2>9. CASE i \notin plan.stop /\ i \in plan.restart
    <3>1. t = Moved(s, "AwaitingBackoff", NoHandle)
      BY <2>3, <2>5, <2>9 DEF Rearranged
    <3>2. t.ern = s.ern /\ t.state = "AwaitingBackoff"
      BY <2>2, <3>1, MovedFields DEF SlotStates, AnyHandle
    <3> QED BY <2>2, <2>5, <2>7, <2>9, <3>2
  <2>10. CASE i \notin plan.stop /\ i \notin plan.restart
    <3>1. t = s
      BY <2>3, <2>5, <2>10 DEF Rearranged
    <3> QED BY <2>2, <2>5, <2>10, <3>1
  <2> QED BY <2>8, <2>9, <2>10
<1> QED BY <1>1, <1>3, <1>4 DEF Rearranges

\* A stop that lands is the end of what it was to be.
LEMMA LandedStop ==
    ASSUME RegInv, NEW n \in Name, GroupStopLanded(n), NEW i, i = byErn[n]
    PROVE  /\ i \in Index /\ slots[i].state \in ExpectedStop
           /\ slots'[i].state = IF slots[i].state = "StopThenRestart" THEN "AwaitingBackoff"
                                                                      ELSE "Down"
           /\ \A j \in Index : j # i => slots'[j] = slots[j]
<1>1. /\ i \in Index /\ slots[i] \in Slot /\ slots[i].state \in ExpectedStop
      /\ slots \in [Index -> Slot]
  BY TakenSlots DEF GroupStopLanded, RegInv, RegTypeOK
<1>2. PICK state \in SlotStates :
        state = IF slots[i].state = "StopThenRestart" THEN "AwaitingBackoff" ELSE "Down"
  BY DEF SlotStates
<1>3. slots' = [slots EXCEPT ![i] = Moved(slots[i], state, NoHandle)]
  BY <1>2 DEF GroupStopLanded
<1>4. slots'[i] = Moved(slots[i], state, NoHandle)
      /\ \A j \in Index : j # i => slots'[j] = slots[j]
  BY <1>1, <1>3
<1> QED BY <1>1, <1>2, <1>4, MovedFields DEF AnyHandle

\* Every other step leaves the expected stops as they are, but the one that landed.
LEMMA RecordsMove ==
    ASSUME SupInv, [Next]_vars, ~NoticeRestarts, NEW i \in Index
    PROVE  /\ Goes(slots[i], slots'[i])
           /\ \/ Waits(slots[i], slots'[i])
              \/ LaunchStart /\ i = Head(pending) /\ Launchable(i)
              \/ /\ NoticeSettled /\ slots[i].state \in ExpectedStop
                 /\ slots'[i].state = IF slots[i].state = "StopThenRestart"
                                      THEN "AwaitingBackoff" ELSE "Down"
<1>0. RegInv
  BY DEF SupInv
<1>2. CASE UNCHANGED regVars
  BY <1>2, RecordsStayPut DEF regVars
<1>3. CASE LaunchStart
  <2>1. PICK j : j = Head(pending)
    OBVIOUS
  <2> QED BY <1>0, <1>3, <2>1, BeginStartGoes DEF LaunchStart
<1>4. CASE Receives
  <2>1. PICK m : m = Head(inbox)
    OBVIOUS
  <2>2. PICK n : n = m.name
    OBVIOUS
  <2>3. inbox # <<>> /\ m \in Message
    BY <1>4, <2>1, ReceivesTakes, HeadRefers
  <2>4. CASE ReceiveRegister
    <3>1. m.type = "RegisterSupervisedChild"
      BY <2>1, <2>4 DEF ReceiveRegister, Receive
    <3>2. n \in Name /\ m.inc \in Handle /\ m.restartable \in BOOLEAN
      BY <2>2, <2>3, <3>1 DEF Message
    <3>3. Register(n, m.inc, m.restartable) \/ RegisterDuplicate(n)
      BY <2>1, <2>2, <2>4 DEF ReceiveRegister
    <3> QED BY <1>0, <3>2, <3>3, RegistrationGoes
  <2>5. CASE ReceiveStarted
    <3>1. m.type = "SupervisedChildStarted"
      BY <2>1, <2>5 DEF ReceiveStarted, Receive
    <3>2. PICK j, h : j = m.idx /\ h = m.inc
      OBVIOUS
    <3>3. n \in Name /\ h \in Handle \cup {NoHandle} /\ j \in Index
      BY <2>2, <2>3, <3>1, <3>2 DEF Message
    <3>4. \/ h # NoHandle /\ CompleteStart(j, n, h)
          \/ FailStart(j) \/ UNCHANGED regVars
      BY <2>1, <2>2, <2>5, <3>2 DEF ReceiveStarted
    <3> QED BY <1>0, <1>2, <3>3, <3>4, ProgressGoes, LettingGoGoes
  <2>6. CASE ReceiveUnregister
    <3>1. m.type = "UnregisterSupervisedChild" /\ (Retire(n) \/ RetireUnknown(n))
      BY <2>1, <2>2, <2>6 DEF ReceiveUnregister, Receive
    <3>2. n \in Name
      BY <2>2, <2>3, <3>1 DEF Message
    <3> QED BY <1>0, <3>1, <3>2, LettingGoGoes
  <2>7. CASE ReceiveDue
    <3>1. PICK j, g : j = m.idx /\ g = m.gen
      OBVIOUS
    <3>2. m.type = "RestartDue" /\ (QueueRestart(j, n, g) \/ UNCHANGED regVars)
      BY <2>1, <2>2, <2>7, <3>1 DEF ReceiveDue, Receive
    <3>3. n \in Name /\ j \in Index
      BY <2>2, <2>3, <3>1, <3>2 DEF Message
    <3>4. QueueRestart(j, n, g) => Goes(slots[i], slots'[i]) /\ Waits(slots[i], slots'[i])
      <4>1. QueueRestart(j, n, g) => Rewrites(j, "AwaitingRestart", NoHandle)
                                     /\ slots[j].state = "AwaitingBackoff"
        BY <1>0, <3>3, QueueRestartRewrites
      <4> QED BY <3>3, <4>1, RewriteGoes DEF ExpectedStop, Terminal
    <3> QED BY <1>2, <3>2, <3>4
  <2>8. CASE NoticeSettled \/ NoticeEscalates
    <3>1. PICK reason : reason = m.reason
      OBVIOUS
    <3>2. m.type = "ChildTerminated"
      BY <2>1, <2>8 DEF NoticeSettled, NoticeEscalates, Receive
    <3>3. n \in Name /\ reason \in TerminationReasons
      BY <2>2, <2>3, <3>1, <3>2 DEF Message
    <3>4. \/ NoticeSettled /\ IgnoreNotice(n)
          \/ NoticeSettled /\ GroupStopLanded(n)
          \/ ForgetChild(n, reason)
          \/ Escalates(n, reason)
      BY <2>1, <2>2, <2>8, <3>1 DEF NoticeSettled, NoticeEscalates
    <3>5. CASE IgnoreNotice(n)
      BY <1>2, <3>5 DEF IgnoreNotice
    <3>6. CASE NoticeSettled /\ GroupStopLanded(n)
      <4>1. PICK j : j = byErn[n]
        OBVIOUS
      <4>2. /\ j \in Index /\ slots[j].state \in ExpectedStop
            /\ slots'[j].state = IF slots[j].state = "StopThenRestart" THEN "AwaitingBackoff"
                                                                       ELSE "Down"
            /\ \A l \in Index : l # j => slots'[l] = slots[l]
        BY <1>0, <3>3, <3>6, <4>1, LandedStop
      <4>3. PICK state \in {"AwaitingBackoff", "Down"} : Rewrites(j, state, NoHandle)
        BY <1>0, <3>3, <3>6, <4>1, GroupStopLandedRewrites
      <4>4. Goes(slots[i], slots'[i])
        BY <4>2, <4>3, RewriteGoes DEF ExpectedStop, Terminal
      <4>5. i # j => Waits(slots[i], slots'[i])
        BY <4>2 DEF Waits
      <4> QED BY <3>6, <4>2, <4>4, <4>5
    <3>7. CASE ForgetChild(n, reason)
      <4>1. Rewrites(byErn[n], "Down", NoHandle) /\ byErn[n] \in Index
              /\ slots[byErn[n]].state \in Accepting
        BY <1>0, <3>3, <3>7, ForgetChildRewrites, TakenSlots
      <4> QED BY <4>1, RewriteGoes DEF Accepting, ExpectedStop, Terminal
    <3>8. CASE Escalates(n, reason)
      <4>1. slots[byErn[n]].charged \in Nat
        BY <1>0, <3>3, <3>8, TakenSlots DEF Escalates, FreshFailure, Slot
      <4>2. PICK kept \in Nat : EscalateChild(n, reason, kept)
        BY <3>8, <4>1 DEF Escalates
      <4>3. Rewrites(byErn[n], "Escalated", NoHandle) /\ byErn[n] \in Index
              /\ slots[byErn[n]].state \in Accepting
        BY <1>0, <3>3, <4>2, EscalateChildRewrites, TakenSlots
      <4> QED BY <4>3, RewriteGoes DEF Accepting, ExpectedStop, Terminal
    <3> QED BY <3>4, <3>5, <3>6, <3>7, <3>8
  <2>9. CASE ReceiveStop
    BY <1>2, <2>9 DEF ReceiveStop
  <2> QED BY <1>4, <2>4, <2>5, <2>6, <2>7, <2>8, <2>9 DEF Receives
<1>5. CASE LeaveLoop
  BY <1>0, <1>5, LettingGoGoes DEF LeaveLoop
<1>6. CASE TerminateChildren \/ Stopped
  BY <1>2, <1>6 DEF TerminateChildren, Stopped
<1>7. ASSUME NEW n \in Name, SuperviseDeferred(n)
      PROVE  Goes(slots[i], slots'[i]) /\ Waits(slots[i], slots'[i])
  BY <1>0, <1>7, RegistrationGoes DEF SuperviseDeferred
<1> QED BY <1>2, <1>3, <1>4, <1>5, <1>6, <1>7, OnlyTheLoopDecides DEF Loop, Receives

LEMMA RecordsMoveOn ==
    ASSUME SupInv, [Next]_vars, ~NoticeRestarts, NEW i \in Index
    PROVE  /\ slots'[i].state \in ExpectedStop =>
                slots[i].state = slots'[i].state /\ slots[i].handle = slots'[i].handle
           /\ slots'[i].state \in ToComeBack =>
                /\ slots[i].state \in ToComeBack
                /\ slots'[i].ern = slots[i].ern /\ slots'[i].gen = slots[i].gen
           /\ slots'[i].state = "AwaitingRestart" =>
                slots[i].state \in {"AwaitingBackoff", "AwaitingRestart"}
           /\ slots'[i].state = "Restarting" =>
                \/ slots[i].state = "Restarting"
                \/ LaunchStart /\ i = Head(pending) /\ Launchable(i)
<1>1. Goes(slots[i], slots'[i])
  BY RecordsMove
<1>5. slots'[i].state \in ToComeBack /\ slots[i].state \in ToComeBack =>
        slots'[i].ern = slots[i].ern /\ slots'[i].gen = slots[i].gen
  <2>1. slots[i].state \in ToComeBack => i \in Taken
    BY TakenSlots DEF ToComeBack, SupInv
  <2> QED BY <2>1, NextKeeps DEF SupStep, RegStep, Counts, ToComeBack
<1>2. CASE Waits(slots[i], slots'[i])
  BY <1>1, <1>2, <1>5 DEF Goes, Waits, ToComeBack, ExpectedStop
<1>3. CASE LaunchStart /\ i = Head(pending) /\ Launchable(i)
  <2>1. PICK j : j = Head(pending)
    OBVIOUS
  <2>2. PICK state \in {"Starting", "Restarting"} : Rewrites(j, state, NoHandle)
    BY <1>3, <2>1, BeginStartRewrites DEF LaunchStart, SupInv
  <2> QED BY <1>1, <1>3, <2>1, <2>2 DEF Rewrites, ToComeBack, ExpectedStop
<1>4. CASE /\ NoticeSettled /\ slots[i].state \in ExpectedStop
           /\ slots'[i].state = IF slots[i].state = "StopThenRestart"
                                THEN "AwaitingBackoff" ELSE "Down"
  BY <1>1, <1>4, <1>5 DEF ToComeBack, ExpectedStop
<1> QED BY <1>2, <1>3, <1>4, RecordsMove

\* The start of a group restart.
LEMMA GroupBegins ==
    ASSUME SupInv, NoticeRestarts
    PROVE  \E plan, h, n :
             /\ Rearranges(plan) /\ groups' = groups \cup {GroupTask(h, plan)}
             /\ byErn[n] \notin plan.stop /\ n \in Name /\ plan.stop \subseteq Index
             /\ inbox # <<>> /\ n = Head(inbox).name /\ inbox' = Tail(inbox)
             /\ Waiting /\ UNCHANGED <<childVars, inboxOpen, phase, cancelled, pending, used>>
<1>1. PICK m : m = Head(inbox)
  OBVIOUS
<1>2. PICK n, reason, h : n = m.name /\ reason = m.reason /\ h = m.inc
  OBVIOUS
<1>3. PICK plan : plan = RestartPlanFor(n)
  OBVIOUS
<1>4. /\ inbox # <<>> /\ m.type = "ChildTerminated" /\ Restarts(n, reason)
      /\ groups' = groups \cup {GroupTask(h, plan)}
      /\ Waiting /\ UNCHANGED <<childVars, inboxOpen, phase, cancelled>>
      /\ inbox' = Tail(inbox)
  BY <1>1, <1>2, <1>3 DEF NoticeRestarts, Receive
<1>5. n \in Name
  BY <1>1, <1>2, <1>4, HeadRefers DEF Message
<1>6. slots[byErn[n]].charged \in Nat
  BY <1>4, <1>5, TakenSlots DEF Restarts, FreshFailure, Slot, SupInv
<1>7. PICK kept \in Nat : ScheduleRestart(n, reason, kept)
  BY <1>4, <1>6 DEF Restarts
<1>8. Rearranges(plan) /\ byErn[n] \notin plan.stop /\ plan.stop \subseteq Index
  BY <1>3, <1>5, <1>7, ScheduleRearranges, PlannedSlots DEF SupInv
<1>9. UNCHANGED <<pending, used>>
  BY <1>7 DEF ScheduleRestart
<1> QED BY <1>1, <1>2, <1>4, <1>5, <1>8, <1>9

\* How a record moves in a step, seen from one slot: it stays, is launched, comes up,
\* ends by the notice under its name, is let go, comes due, or a failure of another
\* child has it stopped or parked.
Resting == {"Pending", "AwaitingBackoff", "AwaitingRestart", "Down", "Escalated"}
InFlight == {"Starting", "Restarting"} \cup ExpectedStop

Unmoved(i) == slots'[i].state = slots[i].state /\ slots'[i].handle = slots[i].handle
Launched(i) ==
    /\ LaunchStart /\ i = Head(pending) /\ Launchable(i)
    /\ slots'[i].state \in {"Starting", "Restarting"}
CameUp(i) ==
    /\ ReceiveStarted /\ Head(inbox).inc # NoHandle
    /\ Head(inbox).idx = i /\ Head(inbox).name = slots[i].ern
    /\ slots[i].state \in {"Starting", "Restarting"}
    /\ slots'[i].state = "Running" /\ slots'[i].handle = Head(inbox).inc
NoticeRead(i) ==
    Receives /\ Head(inbox).type = "ChildTerminated" /\ Head(inbox).name = slots[i].ern
Ended(i) ==
    /\ NoticeRead(i)
    /\ slots[i].state \in Accepting \cup ExpectedStop
    /\ slots'[i].state \in {"AwaitingBackoff", "Down", "Escalated"}
    /\ slots'[i].state = "AwaitingBackoff" =>
         slots[i].restartable \/ slots[i].state = "StopThenRestart"
LetGo(i) ==
    /\ slots'[i].state = "Retired"
    /\ \/ slots[i].state \in Owed
       \/ ReceiveUnregister /\ Supervised(Head(inbox).name) /\ byErn[Head(inbox).name] = i
CameDue(i) == slots[i].state = "AwaitingBackoff" /\ slots'[i].state = "AwaitingRestart"
ToldToStop(i) ==
    /\ NoticeRestarts /\ slots[i].state = "Running"
    /\ slots'[i].state \in ExpectedStop /\ slots'[i].handle = slots[i].handle
    /\ slots'[i].state = "StopThenRestart" => slots[i].restartable
Parked(i) ==
    /\ NoticeRestarts /\ i # byErn[Head(inbox).name]
    /\ slots[i].state \notin {"Running", "Retired"} /\ slots'[i].state = "AwaitingBackoff"
    /\ slots[i].restartable
Moves(i) ==
    \/ Unmoved(i) \/ Launched(i) \/ CameUp(i) \/ Ended(i) \/ LetGo(i) \/ CameDue(i)
    \/ ToldToStop(i) \/ Parked(i)

LEMMA GroupMoves ==
    ASSUME SupInv, NoticeRestarts, NEW i \in Taken
    PROVE  Moves(i) /\ slots'[i].restartable = slots[i].restartable
<1>1. PICK m : m = Head(inbox)
  OBVIOUS
<1>2. PICK n, reason : n = m.name /\ reason = m.reason
  OBVIOUS
<1>3. /\ inbox # <<>> /\ m.type = "ChildTerminated" /\ Restarts(n, reason) /\ Receives
  BY <1>1, <1>2 DEF NoticeRestarts, Receive, Receives
<1>4. n \in Name /\ RegInv
  BY <1>1, <1>2, <1>3, HeadRefers DEF Message, SupInv
<1>5. PICK plan, f : plan = RestartPlanFor(n) /\ f = byErn[n]
  OBVIOUS
<1>6. slots[f].charged \in Nat /\ slots[f].state \in Accepting /\ f \in Taken /\ slots[f].ern = n
  BY <1>3, <1>4, <1>5, TakenSlots DEF Restarts, FreshFailure, Slot, RegInv, NamesLeadToTheirSlots
<1>7. PICK kept \in Nat : ScheduleRestart(n, reason, kept)
  BY <1>3, <1>5, <1>6 DEF Restarts
<1>8. Rearranges(plan) /\ f \notin plan.stop /\ slots[f].restartable
  BY <1>4, <1>5, <1>7, ScheduleRearranges DEF ScheduleRestart, Restartable
<1>9. /\ \A j \in plan.restart \ plan.stop : j = f \/ slots[j].state # "Running"
      /\ \A j \in plan.restart : slots[j].restartable /\ slots[j].state # "Retired"
  BY <1>4, <1>5, PlannedSlots
<1>10. i \in Index /\ slots[i].state \in SlotStates
  BY <1>4, TakenSlots
<1>11. slots'[i].restartable = slots[i].restartable
  <2>1. PICK s : s = IF i = f THEN [slots[i] EXCEPT !.charged = kept + 1] ELSE slots[i]
    OBVIOUS
  <2>2. slots[i] \in Slot /\ slots[i].handle \in AnyHandle
    BY <1>4, <1>10, TakenSlots
  <2>3. s \in Slot /\ s.restartable = slots[i].restartable /\ s.handle \in AnyHandle
    BY ONLY <2>1, <2>2, kept \in Nat DEF Slot
  <2>4. PICK stopped, rebuilt : stopped = (i \in plan.stop) /\ rebuilt = (i \in plan.restart)
    OBVIOUS
  <2>5. slots'[i] = Rearranged(s, stopped, rebuilt)
    BY <1>5, <1>7, <1>10, <2>1, <2>4 DEF ScheduleRestart
  <2>6. \A state \in SlotStates, h \in AnyHandle : Moved(s, state, h).restartable = s.restartable
    BY <2>3, MovedFields
  <2>7. {"StopThenRestart", "StopThenDown", "AwaitingBackoff"} \subseteq SlotStates
        /\ NoHandle \in AnyHandle
    BY DEF SlotStates, AnyHandle
  <2> QED BY <2>3, <2>5, <2>6, <2>7 DEF Rearranged
<1>12. CASE i \in plan.stop
  BY <1>8, <1>9, <1>10, <1>11, <1>12 DEF Rearranges, Moves, ToldToStop, ExpectedStop
<1>13. CASE i \notin plan.stop /\ i \in plan.restart
  <2>1. slots'[i].state = "AwaitingBackoff" /\ slots[i].restartable /\ slots[i].state # "Retired"
    BY <1>8, <1>9, <1>10, <1>13 DEF Rearranges
  <2>2. CASE i = f
    BY <1>1, <1>2, <1>3, <1>6, <1>11, <2>1, <2>2 DEF Moves, Ended, NoticeRead
  <2>3. CASE i # f
    BY <1>1, <1>2, <1>5, <1>9, <1>11, <1>13, <2>1, <2>3 DEF Moves, Parked
  <2> QED BY <2>2, <2>3
<1>14. CASE i \notin plan.stop /\ i \notin plan.restart
  BY <1>8, <1>10, <1>11, <1>14 DEF Rearranges, Moves, Unmoved
<1> QED BY <1>11, <1>12, <1>13, <1>14

LEMMA RewriteMoves ==
    ASSUME NEW i, NEW j \in Index, NEW state, NEW h, Rewrites(j, state, h), i \in Index
    PROVE  /\ i # j => Moves(i)
           /\ slots'[i].restartable = slots[i].restartable
           /\ slots'[j].state = state /\ slots'[j].handle = h
BY DEF Rewrites, Moves, Unmoved

LEMMA SlotMoves ==
    ASSUME SupInv, [Next]_vars, NEW i \in Taken
    PROVE  Moves(i) /\ slots'[i].restartable = slots[i].restartable
<1>0. RegInv /\ i \in Index /\ slots[i].state # "Unused"
  BY TakenSlots DEF SupInv, RegInv, NamesLeadToTheirSlots
<1>1. CASE UNCHANGED regVars
  BY <1>1 DEF regVars, Moves, Unmoved
<1>2. CASE LaunchStart
  <2>1. PICK j : j = Head(pending)
    OBVIOUS
  <2>2. j \in Index /\ (~Launchable(j) => slots' = slots)
    BY <1>0, <1>2, <2>1, BeginStartRewrites DEF LaunchStart
  <2>3. CASE Launchable(j)
    <3>1. PICK state \in {"Starting", "Restarting"} : Rewrites(j, state, NoHandle)
      BY <1>0, <1>2, <2>1, <2>3, BeginStartRewrites DEF LaunchStart
    <3> QED BY <1>0, <1>2, <2>1, <2>2, <2>3, <3>1, RewriteMoves DEF Moves, Launched
  <2> QED BY <2>2, <2>3 DEF Moves, Unmoved
<1>3. ASSUME NEW n \in Name, NEW s, AddSlot(n, s)
      PROVE  Unmoved(i) /\ slots'[i].restartable = slots[i].restartable
  <2>1. PICK u : u = used + 1
    OBVIOUS
  <2>2. slots' = [slots EXCEPT ![u] = Publish(s)]
    BY <1>3, <2>1 DEF AddSlot
  <2>3. u # i
    BY <1>0, <2>1, TakenSlots DEF Taken
  <2> QED BY <1>0, <2>2, <2>3, TakenSlots DEF RegInv, RegTypeOK, Unmoved
<1>4. CASE Receives
  <2>1. PICK m : m = Head(inbox)
    OBVIOUS
  <2>2. PICK n : n = m.name
    OBVIOUS
  <2>3. inbox # <<>> /\ m \in Message
    BY <1>4, <2>1, ReceivesTakes, HeadRefers
  <2>4. CASE ReceiveRegister
    <3>1. m.type = "RegisterSupervisedChild"
      BY <2>1, <2>4 DEF ReceiveRegister, Receive
    <3>2. n \in Name
      BY <2>2, <2>3, <3>1 DEF Message
    <3>3. Register(n, m.inc, m.restartable) \/ RegisterDuplicate(n)
      BY <2>1, <2>2, <2>4 DEF ReceiveRegister
    <3> QED BY <1>1, <1>3, <3>2, <3>3 DEF Register, RegisterDuplicate, Moves
  <2>5. CASE ReceiveStarted
    <3>1. m.type = "SupervisedChildStarted"
      BY <2>1, <2>5 DEF ReceiveStarted, Receive
    <3>2. PICK j, h : j = m.idx /\ h = m.inc
      OBVIOUS
    <3>3. n \in Name /\ h \in Handle \cup {NoHandle} /\ j \in Index
      BY <2>2, <2>3, <3>1, <3>2 DEF Message
    <3>4. \/ h # NoHandle /\ CompleteStart(j, n, h)
          \/ FailStart(j) \/ UNCHANGED regVars
      BY <2>1, <2>2, <2>5, <3>2 DEF ReceiveStarted
    <3>5. CASE h # NoHandle /\ CompleteStart(j, n, h)
      <4>1. Rewrites(j, "Running", h) /\ slots[j].state \in {"Starting", "Restarting"}
        BY <1>0, <3>3, <3>5, CompleteStartRewrites
      <4>2. n = slots[j].ern
        BY <3>5 DEF CompleteStart, StartAccepted
      <4> QED BY <1>0, <2>1, <2>2, <2>5, <3>2, <3>3, <3>5, <4>1, <4>2, RewriteMoves DEF Moves, CameUp
    <3>6. CASE FailStart(j)
      <4>1. Rewrites(j, "Retired", NoHandle) /\ slots[j].state \in Owed
        BY <1>0, <3>3, <3>6, FailStartRewrites DEF FailStart
      <4> QED BY <1>0, <3>3, <4>1, RewriteMoves DEF Moves, LetGo
    <3> QED BY <1>1, <3>4, <3>5, <3>6
  <2>6. CASE ReceiveUnregister
    <3>1. m.type = "UnregisterSupervisedChild" /\ (Retire(n) \/ RetireUnknown(n))
      BY <2>1, <2>2, <2>6 DEF ReceiveUnregister, Receive
    <3>2. n \in Name
      BY <2>2, <2>3, <3>1 DEF Message
    <3>3. CASE Retire(n)
      <4>1. Rewrites(byErn[n], "Retired", NoHandle) /\ Supervised(n) /\ byErn[n] \in Index
        BY <1>0, <3>2, <3>3, RetireRewrites, TakenSlots DEF Retire
      <4> QED BY <1>0, <2>1, <2>2, <2>6, <4>1, RewriteMoves DEF Moves, LetGo
    <3> QED BY <1>1, <3>1, <3>3 DEF RetireUnknown
  <2>7. CASE ReceiveDue
    <3>1. PICK j, g : j = m.idx /\ g = m.gen
      OBVIOUS
    <3>2. m.type = "RestartDue" /\ (QueueRestart(j, n, g) \/ UNCHANGED regVars)
      BY <2>1, <2>2, <2>7, <3>1 DEF ReceiveDue, Receive
    <3>3. n \in Name /\ j \in Index
      BY <2>2, <2>3, <3>1, <3>2 DEF Message
    <3>4. QueueRestart(j, n, g) => Rewrites(j, "AwaitingRestart", NoHandle)
                                   /\ slots[j].state = "AwaitingBackoff"
      BY <1>0, <3>3, QueueRestartRewrites
    <3> QED BY <1>0, <1>1, <3>2, <3>3, <3>4, RewriteMoves DEF Moves, CameDue
  <2>8. CASE NoticeSettled \/ NoticeEscalates
    <3>1. PICK reason : reason = m.reason
      OBVIOUS
    <3>2. m.type = "ChildTerminated"
      BY <2>1, <2>8 DEF NoticeSettled, NoticeEscalates, Receive
    <3>3. n \in Name /\ reason \in TerminationReasons
      BY <2>2, <2>3, <3>1, <3>2 DEF Message
    <3>4. \/ IgnoreNotice(n)
          \/ GroupStopLanded(n)
          \/ ForgetChild(n, reason)
          \/ Escalates(n, reason)
      BY <2>1, <2>2, <2>8, <3>1 DEF NoticeSettled, NoticeEscalates
    <3>5. PICK j : j = byErn[n]
      OBVIOUS
    <3>6. ASSUME NEW state \in {"AwaitingBackoff", "Down", "Escalated"},
                 Rewrites(j, state, NoHandle), j \in Taken, Supervised(n),
                 slots[j].state \in Accepting \cup ExpectedStop,
                 state = "AwaitingBackoff" => slots[j].state = "StopThenRestart"
          PROVE  Moves(i) /\ slots'[i].restartable = slots[i].restartable
      <4>1. j \in Index /\ slots[j].ern = n
        BY <1>0, <3>3, <3>5, <3>6, TakenSlots DEF RegInv, NamesLeadToTheirSlots
      <4>2. i = j => NoticeRead(i)
        BY <1>4, <2>1, <2>2, <3>2, <4>1 DEF NoticeRead
      <4> QED BY <1>0, <3>6, <4>1, <4>2, RewriteMoves DEF Moves, Ended
    <3>7. CASE IgnoreNotice(n)
      BY <1>1, <3>7 DEF IgnoreNotice
    <3>8. CASE GroupStopLanded(n)
      <4>1. /\ j \in Index /\ slots[j].state \in ExpectedStop
            /\ slots'[j].state = IF slots[j].state = "StopThenRestart" THEN "AwaitingBackoff"
                                                                       ELSE "Down"
        BY <1>0, <3>3, <3>5, <3>8, LandedStop
      <4>2. PICK state \in {"AwaitingBackoff", "Down"} : Rewrites(j, state, NoHandle)
        BY <1>0, <3>3, <3>5, <3>8, GroupStopLandedRewrites
      <4>3. Supervised(n) /\ j \in Taken
        BY <1>0, <3>3, <3>5, <3>8, TakenSlots DEF GroupStopLanded
      <4>4. slots'[j].state = state
        BY <4>2 DEF Rewrites
      <4> QED BY <3>6, <4>1, <4>2, <4>3, <4>4
    <3>9. CASE ForgetChild(n, reason)
      BY <1>0, <3>3, <3>5, <3>6, <3>9, ForgetChildRewrites DEF ForgetChild, FreshFailure
    <3>10. CASE Escalates(n, reason)
      <4>1. slots[j].charged \in Nat /\ Supervised(n)
        BY <1>0, <3>3, <3>5, <3>10, TakenSlots DEF Escalates, FreshFailure, Slot
      <4>2. PICK kept \in Nat : EscalateChild(n, reason, kept)
        BY <3>5, <3>10, <4>1 DEF Escalates
      <4> QED BY <1>0, <3>3, <3>5, <3>6, <4>1, <4>2, EscalateChildRewrites
    <3> QED BY <3>4, <3>7, <3>8, <3>9, <3>10
  <2>9. CASE NoticeRestarts
    BY <2>9, GroupMoves
  <2>10. CASE ReceiveStop
    BY <1>1, <2>10 DEF ReceiveStop
  <2> QED BY <1>4, <2>4, <2>5, <2>6, <2>7, <2>8, <2>9, <2>10 DEF Receives
<1>5. CASE LeaveLoop
  BY <1>0, <1>5, SettledSlots DEF LeaveLoop, Moves, Unmoved, LetGo
<1>6. CASE TerminateChildren \/ Stopped
  BY <1>1, <1>6 DEF TerminateChildren, Stopped
<1>7. ASSUME NEW n \in Name, SuperviseDeferred(n)
      PROVE  Moves(i) /\ slots'[i].restartable = slots[i].restartable
  BY <1>3, <1>7 DEF SuperviseDeferred, RegisterPending, Moves
<1> QED BY <1>1, <1>2, <1>4, <1>5, <1>6, <1>7, OnlyTheLoopDecides DEF Loop, Receives

\* A group restart that parks no sibling whose start or stop is in flight.
Spares ==
    NoticeRestarts =>
        \A i \in Index \ {byErn[Head(inbox).name]} :
            slots'[i].state = "AwaitingBackoff" => slots[i].state \notin InFlight
SparesThoseInFlight == [][Spares]_vars

LEMMA SparedInAStep == [Spares]_vars => Spares
<1>1. UNCHANGED vars => Spares
  BY DEF Spares, vars, regVars, InFlight, ExpectedStop
<1> QED BY <1>1

\* One for one, no sibling is parked at all.
THEOREM OneForOneSparesThem ==
    ASSUME Strategy = "OneForOne"
    PROVE  Spec => SparesThoseInFlight
<1>1. ASSUME SupInv, [Next]_vars PROVE [Spares]_vars
  <2> SUFFICES ASSUME NoticeRestarts, NEW i \in Index, i # byErn[Head(inbox).name]
               PROVE  slots'[i] = slots[i]
    BY DEF Spares, InFlight, ExpectedStop
  <2>1. PICK m : m = Head(inbox)
    OBVIOUS
  <2>2. PICK n, reason : n = m.name /\ reason = m.reason
    OBVIOUS
  <2>3. inbox # <<>> /\ m.type = "ChildTerminated" /\ Restarts(n, reason)
    BY <2>1, <2>2 DEF NoticeRestarts, Receive
  <2>4. n \in Name /\ RegInv
    BY <1>1, <2>1, <2>2, <2>3, HeadRefers DEF Message, SupInv
  <2>5. slots[byErn[n]].charged \in Nat
    BY <2>3, <2>4, TakenSlots DEF Restarts, FreshFailure, Slot
  <2>6. PICK kept \in Nat : ScheduleRestart(n, reason, kept)
    BY <2>3, <2>5 DEF Restarts
  <2> QED BY <2>1, <2>2, <2>4, <2>6, ScheduleRestartAlone DEF Rewrites
<1> QED BY <1>1, SupInvHolds, PTL DEF Spec, SparesThoseInFlight

-------------------------------------------------------------------------------
(* Names that mean one actor.  Whoever is up under a name, and the news that   *)
(* it is not any more (a failed start still to be reported or read, a notice   *)
(* still to be read), are together at most one: the name's token.              *)

IsEnd(n, m) ==
    /\ m.type \in {"ChildTerminated", "SupervisedChildStarted"} /\ m.name = n
    /\ m.type = "SupervisedChildStarted" => m.inc = NoHandle
HasToken(n, h) == inc[h].name = n /\ (Up(h) \/ inc[h].holder = "failed")

NoToken(n) ==
    /\ \A h \in Handle : ~HasToken(n, h)
    /\ \A k \in 1..Len(inbox) : ~IsEnd(n, inbox[k])
OneToken(n) ==
    /\ \A g, h \in Handle : HasToken(n, g) /\ HasToken(n, h) => g = h
    /\ \A k, l \in 1..Len(inbox) : IsEnd(n, inbox[k]) /\ IsEnd(n, inbox[l]) => k = l
    /\ \A h \in Handle, k \in 1..Len(inbox) : ~(HasToken(n, h) /\ IsEnd(n, inbox[k]))

\* No step but a creation hands out a token.
TokensKept(n) == \A h \in Handle : HasToken(n, h)' => HasToken(n, h)

LEMMA NoTokenIsOne ==
    ASSUME NEW n, NoToken(n) PROVE OneToken(n)
BY DEF NoToken, OneToken

LEMMA HadItsToken ==
    ASSUME SupInv, ChildrenStep, NEW n, NEW h \in Handle, HasToken(n, h)',
           born' = born \/ h # born'
    PROVE  HasToken(n, h)
<1>1. CASE h \in 1..born
  <2>1. /\ ChildStep(inc[h], inc'[h]) /\ inc[h] \in Child /\ inc'[h] \in Child
        /\ inc'[h].name = n /\ (inc'[h].life \in {"building", "live"} \/ inc'[h].holder = "failed")
    BY <1>1, BornHandles DEF ChildrenStep, HasToken, Up
  <2>2. inc[h].name = n /\ (inc[h].life \in {"building", "live"} \/ inc[h].holder = "failed")
    BY <2>1 DEF ChildStep, Child, Lives
  <2> QED BY <2>2 DEF HasToken, Up
<1>2. CASE h \notin 1..born
  <2>1. inc'[h] = inc[h] /\ inc[h] = Unborn
    BY <1>2, BornHandles DEF ChildrenStep, Handle
  <2> QED BY <2>1, UnbornFields DEF HasToken, Up
<1> QED BY <1>1, <1>2

LEMMA TokensStay ==
    ASSUME SupInv, ChildrenStep, NEW n, born' = born \/ inc'[born'].name # n
    PROVE  TokensKept(n)
BY HadItsToken DEF TokensKept, HasToken

\* How the inbox may move without adding a token: the news of an end takes the place of
\* whoever it is about.
EndsKept(n) ==
    \/ inbox' = inbox \/ inbox' = <<>>
    \/ inbox # <<>> /\ inbox' = Tail(inbox)
    \/ \E m : /\ inbox' = Append(inbox, m)
              /\ IsEnd(n, m) => \E h \in Handle :
                   /\ HasToken(n, h) /\ ~HasToken(n, h)'
                   /\ \/ inc[h].holder = "failed" /\ m.type = "SupervisedChildStarted"
                      \/ m.type = "ChildTerminated" /\ m.inc = h

LEMMA OneTokenStays ==
    ASSUME SupInv, NEW n, TokensKept(n), EndsKept(n)
    PROVE  /\ OneToken(n) => OneToken(n)'
           /\ NoToken(n) => NoToken(n)'
<1>0. inbox \in Seq(Message) /\ Len(inbox) \in Nat
  BY DEF SupInv, SupTypeOK
<1>1. CASE inbox' = inbox
  BY <1>1 DEF OneToken, NoToken, TokensKept
<1>2. CASE inbox' = <<>>
  <2>1. Len(inbox') = 0
    BY <1>2
  <2> QED BY <2>1 DEF OneToken, NoToken, TokensKept
<1>3. CASE inbox # <<>> /\ inbox' = Tail(inbox)
  <2>1. /\ Len(inbox') = Len(inbox) - 1
        /\ \A k \in 1..Len(inbox') : inbox'[k] = inbox[k + 1] /\ k + 1 \in 1..Len(inbox)
    BY <1>0, <1>3
  <2>2. NoToken(n) => NoToken(n)'
    BY <2>1 DEF NoToken, TokensKept
  <2>3. OneToken(n) => OneToken(n)'
    <3> SUFFICES ASSUME OneToken(n) PROVE OneToken(n)'
      OBVIOUS
    <3>1. ASSUME NEW k \in 1..Len(inbox'), NEW l \in 1..Len(inbox'),
                 IsEnd(n, inbox'[k]), IsEnd(n, inbox'[l])
          PROVE  k = l
      <4>1. k + 1 = l + 1
        BY <2>1, <3>1 DEF OneToken
      <4> QED BY <1>0, <2>1, <4>1
    <3>2. ASSUME NEW h \in Handle, NEW k \in 1..Len(inbox'), HasToken(n, h)'
          PROVE  ~IsEnd(n, inbox'[k])
      BY <2>1, <3>2 DEF OneToken, TokensKept
    <3>3. \A g, h \in Handle : HasToken(n, g)' /\ HasToken(n, h)' => g = h
      BY DEF OneToken, TokensKept
    <3>4. \A k, l \in 1..Len(inbox') : IsEnd(n, inbox'[k]) /\ IsEnd(n, inbox'[l]) => k = l
      BY <3>1
    <3>5. \A h \in Handle : \A k \in 1..Len(inbox') : HasToken(n, h)' => ~IsEnd(n, inbox'[k])
      BY <3>2
    <3> QED BY <3>3, <3>4, <3>5 DEF OneToken, IsEnd
  <2> QED BY <2>2, <2>3
<1>4. ASSUME NEW m, inbox' = Append(inbox, m),
             IsEnd(n, m) => \E h \in Handle : HasToken(n, h) /\ ~HasToken(n, h)'
      PROVE  (OneToken(n) => OneToken(n)') /\ (NoToken(n) => NoToken(n)')
  <2>1. /\ Len(inbox') = Len(inbox) + 1 /\ inbox'[Len(inbox) + 1] = m
        /\ \A k \in 1..Len(inbox) : inbox'[k] = inbox[k]
        /\ \A k \in 1..Len(inbox') : k \in 1..Len(inbox) \/ k = Len(inbox) + 1
    BY <1>0, <1>4
  <2>2. NoToken(n) => NoToken(n)'
    <3> SUFFICES ASSUME NoToken(n) PROVE NoToken(n)'
      OBVIOUS
    <3>1. ~IsEnd(n, m)
      BY <1>4 DEF NoToken
    <3>2. \A k \in 1..Len(inbox') : ~IsEnd(n, inbox'[k])
      BY <2>1, <3>1 DEF NoToken
    <3>3. \A h \in Handle : ~HasToken(n, h)'
      BY DEF NoToken, TokensKept
    <3> QED BY <3>2, <3>3 DEF NoToken, IsEnd
  <2>3. OneToken(n) => OneToken(n)'
    <3> SUFFICES ASSUME OneToken(n) PROVE OneToken(n)'
      OBVIOUS
    <3>1. CASE ~IsEnd(n, m)
      <4>1. \A k \in 1..Len(inbox') : IsEnd(n, inbox'[k]) =>
              k \in 1..Len(inbox) /\ IsEnd(n, inbox[k])
        BY <2>1, <3>1
      <4>2. \A k, l \in 1..Len(inbox') : IsEnd(n, inbox'[k]) /\ IsEnd(n, inbox'[l]) => k = l
        BY <4>1 DEF OneToken
      <4>3. \A h \in Handle : \A k \in 1..Len(inbox') : HasToken(n, h)' => ~IsEnd(n, inbox'[k])
        BY <4>1 DEF OneToken, TokensKept
      <4>4. \A g, h \in Handle : HasToken(n, g)' /\ HasToken(n, h)' => g = h
        BY DEF OneToken, TokensKept
      <4> QED BY <4>2, <4>3, <4>4 DEF OneToken, IsEnd
    <3>2. CASE IsEnd(n, m)
      <4>0. PICK u \in Handle : HasToken(n, u) /\ ~HasToken(n, u)'
        BY <1>4, <3>2
      <4>1. \A h \in Handle : ~HasToken(n, h)'
        BY <4>0 DEF OneToken, TokensKept
      <4>2. \A k \in 1..Len(inbox) : ~IsEnd(n, inbox[k])
        BY <4>0 DEF OneToken
      <4>3. \A k \in 1..Len(inbox') : IsEnd(n, inbox'[k]) => k = Len(inbox) + 1
        BY <2>1, <4>2
      <4>4. \A k, l \in 1..Len(inbox') : IsEnd(n, inbox'[k]) /\ IsEnd(n, inbox'[l]) => k = l
        BY <4>3
      <4> QED BY <4>1, <4>4 DEF OneToken, IsEnd
    <3> QED BY <3>1, <3>2
  <2> QED BY <2>2, <2>3
<1> QED BY <1>1, <1>2, <1>3, <1>4 DEF EndsKept

\* Reading the news uses the token up.
LEMMA TheTokenIsSpent ==
    ASSUME SupInv, NEW n, TokensKept(n), OneToken(n), inbox # <<>>, inbox' = Tail(inbox),
           IsEnd(n, Head(inbox))
    PROVE  NoToken(n)'
<1>1. inbox \in Seq(Message) /\ Len(inbox) \in Nat
  BY DEF SupInv, SupTypeOK
<1>2. /\ Len(inbox') = Len(inbox) - 1 /\ 1 \in 1..Len(inbox) /\ inbox[1] = Head(inbox)
      /\ \A k \in 1..Len(inbox') : /\ inbox'[k] = inbox[k + 1] /\ k + 1 \in 1..Len(inbox)
                                   /\ k + 1 # 1
  BY <1>1
<1>3. \A k \in 1..Len(inbox') : ~IsEnd(n, inbox'[k])
  BY <1>2 DEF OneToken
<1>4. \A h \in Handle : ~HasToken(n, h)'
  BY <1>2 DEF OneToken, TokensKept
<1> QED BY <1>3, <1>4 DEF NoToken, IsEnd

\* A creation hands a token to a name that had none.
LEMMA ATokenIsGiven ==
    ASSUME SupInv, ChildrenStep, NEW n, NoToken(n), born' # born, inbox' = inbox
    PROVE  OneToken(n)'
<1>1. \A h \in Handle : HasToken(n, h)' => h = born'
  BY HadItsToken DEF NoToken
<1> QED BY <1>1 DEF OneToken, NoToken

\* Who sends what.  Only an end of a child, and a start that failed, is an end.
LEMMA DyingIsTheEnd ==
    ASSUME SupInv, NEW h \in Handle, NEW n, NEW reason, inc[h].life = "live", Die(h, reason)
    PROVE  EndsKept(n)
<1>1. PICK m : m = TerminatedMsg(h, reason)
  OBVIOUS
<1>2. inbox' = inbox \/ inbox' = Append(inbox, m)
  BY <1>1 DEF Die, Deliver
<1>3. inc[h] \in Child /\ Sane(inc[h]) /\ inc' = [inc EXCEPT ![h].life = "dead"]
  BY BornHandles DEF Die
<1>4. inc'[h].life = "dead" /\ inc'[h].holder = inc[h].holder /\ inc[h].holder # "failed"
  BY <1>3, BornHandles DEF Child, Sane
<1>5. /\ IsEnd(n, m) => HasToken(n, h) /\ ~HasToken(n, h)'
      /\ m.type = "ChildTerminated" /\ m.inc = h
  BY <1>1, <1>4 DEF IsEnd, TerminatedMsg, HasToken, Up
<1> QED BY <1>2, <1>5 DEF EndsKept

LEMMA ReportingIsTheEnd ==
    ASSUME SupInv, NEW h \in Handle, NEW n, Report(h)
    PROVE  EndsKept(n)
<1>1. PICK m : m = StartedMsg(h)
  OBVIOUS
<1>2. inbox' = inbox \/ inbox' = Append(inbox, m)
  BY <1>1 DEF Report, Deliver
<1>3. Busy(h) /\ inc[h] \in Child /\ Sane(inc[h]) /\ h # NoHandle
  BY BornHandles DEF Report, Busy
<1>4. /\ IsEnd(n, m) => inc[h].holder = "failed" /\ inc[h].name = n
      /\ m.type = "SupervisedChildStarted"
  BY <1>1, <1>3 DEF IsEnd, StartedMsg
<1>5. CASE inc[h].holder = "failed"
  <2>1. inc' = [inc EXCEPT ![h] = Held(inc[h], "nobody")] /\ inc[h].life = "dead"
    BY <1>3, <1>5 DEF Report, Sane
  <2>2. inc'[h].life = "dead" /\ inc'[h].holder = "nobody"
    BY <1>3, <2>1, BornHandles DEF Held, Child
  <2>3. ~HasToken(n, h)'
    BY <2>2 DEF HasToken, Up
  <2> QED BY <1>2, <1>4, <1>5, <2>3 DEF EndsKept, HasToken
<1> QED BY <1>2, <1>4, <1>5 DEF EndsKept

LEMMA EndsStay ==
    ASSUME SupInv, [Next]_vars, NEW n
    PROVE  EndsKept(n)
<1>0. ASSUME NEW m, inbox' = inbox \/ inbox' = Append(inbox, m),
             m.type \notin {"ChildTerminated", "SupervisedChildStarted"}
      PROVE  EndsKept(n)
  BY <1>0 DEF EndsKept, IsEnd
<1>1. CASE inbox' = inbox \/ inbox' = <<>>
  BY <1>1 DEF EndsKept
<1>2. CASE Receives
  BY <1>2, ReceivesTakes DEF EndsKept
<1>3. CASE Loop
  BY <1>1, <1>2, <1>3 DEF Loop, Receives, LaunchStart, LeaveLoop, TerminateChildren, Stopped,
     loopVars
<1>4. ASSUME NEW h \in Handle, Fault(h) \/ Obey(h) PROVE EndsKept(n)
  BY <1>4, DyingIsTheEnd DEF Fault, Obey
<1>5. ASSUME NEW h \in Handle, Build(h) \/ StrayStopped(h) \/ CallerAnswered(h) PROVE inbox' = inbox
  BY <1>5 DEF Build, StrayStopped, CallerAnswered, loopVars
<1>6. ASSUME NEW h \in Handle, AskToRegister(h) PROVE EndsKept(n)
  <2>1. PICK r : Deliver(RegisterMsg(h, r))
    BY <1>6 DEF AskToRegister
  <2>2. PICK m : m = RegisterMsg(h, r)
    OBVIOUS
  <2> QED BY <1>0, <2>1, <2>2 DEF Deliver, RegisterMsg
<1>7. ASSUME NEW t \in groups, SendDue(t) PROVE EndsKept(n)
  <2>1. PICK m : m = DueMsg(NextDue(t))
    OBVIOUS
  <2> QED BY <1>0, <1>7, <2>1 DEF SendDue, Deliver, DueMsg
<1>8. ASSUME NEW t \in groups, AskSibling(t) \/ SiblingDown(t) \/ AbandonBackoff(t)
      PROVE  inbox' = inbox
  BY <1>8 DEF AskSibling, SiblingDown, AbandonBackoff, loopVars
<1>9. ASSUME NEW x, AskToRelease(x) PROVE EndsKept(n)
  <2>1. PICK m : m = UnregisterMsg(x)
    OBVIOUS
  <2> QED BY <1>0, <1>9, <2>1 DEF AskToRelease, Deliver, UnregisterMsg
<1>10. ASSUME NEW x, Hire(x) \/ SuperviseDeferred(x) PROVE inbox' = inbox
  BY <1>10 DEF Hire, SuperviseDeferred, loopVars
<1>11. CASE AskSupervisorToStop
  <2>1. PICK m : m = StopMsg
    OBVIOUS
  <2> QED BY <1>0, <1>11, <2>1 DEF AskSupervisorToStop, Deliver, StopMsg
<1>12. CASE ReleaserReturns \/ UNCHANGED vars
  BY <1>1, <1>12 DEF ReleaserReturns, vars, loopVars
<1> QED BY <1>1, <1>3, <1>4, <1>5, <1>6, <1>7, <1>8, <1>9, <1>10, <1>11, <1>12, ReportingIsTheEnd
        DEF Next, Tasks, Environment

\* Who creates a child: the loop for a queued slot, or a caller of a name that no
\* child was ever built under or that may be used again.
LEMMA Creators ==
    ASSUME SupInv, [Next]_vars, born' # born
    PROVE  /\ inbox' = inbox /\ phase' = phase
           /\ \/ /\ LaunchStart /\ phase = "loop" /\ inc'[born'].holder = "starter"
                 /\ Launchable(Head(pending)) /\ Head(pending) \in Index
                 /\ inc'[born'].name = slots[Head(pending)].ern
                 /\ inc'[born'].idx = Head(pending)
              \/ /\ UNCHANGED regVars
                 /\ \E n \in Name : /\ inc'[born'].name = n
                                    /\ n \in Hired \cup Adopted
                                    /\ n \in Hired \cap Reused \/ NeverBuilt(n)
                                    /\ \/ inc'[born'].holder = "hirer" /\ n \in Hired
                                       \/ /\ inc'[born'].holder = "adopter"
                                          /\ kids' = [kids EXCEPT ![n] = born']
<1>1. CASE Loop
  <2>1. LaunchStart
    BY <1>1 DEF Loop, ReceiveRegister, ReceiveStarted, ReceiveUnregister, ReceiveDue,
       NoticeSettled, NoticeEscalates, NoticeRestarts, ReceiveStop, LeaveLoop,
       TerminateChildren, Stopped, childVars
  <2>2. PICK i : i = Head(pending)
    OBVIOUS
  <2>3. Launchable(i) /\ i \in Index /\ slots[i].ern \in Name
    BY <2>1, <2>2, BeginStartRewrites, TakenSlots DEF LaunchStart, SupInv
  <2>4. PICK n : n = slots[i].ern
    OBVIOUS
  <2>5. PICK c : c = [Unborn EXCEPT !.name = n, !.idx = i, !.life = "building",
                                    !.holder = "starter"]
    OBVIOUS
  <2>6. Create(c)
    BY <2>1, <2>2, <2>3, <2>4, <2>5 DEF LaunchStart
  <2>7. i # NoSlot
    BY <2>3 DEF Index, NoSlot
  <2>8. /\ c \in Child /\ Sane(c) /\ c.name = n /\ c.life = "building"
        /\ c.holder = "starter" /\ c.idx = i
    BY <2>3, <2>4, <2>5, <2>7, UnbornFields DEF Child, Lives, Holders, Sane
  <2>9. inc'[born'] = c
    BY <2>6, <2>8, OneChildIsCreated
  <2> QED BY <2>1, <2>2, <2>3, <2>4, <2>8, <2>9 DEF LaunchStart, loopVars
<1>2. ASSUME NEW n \in Name, Hire(n)
      PROVE  /\ inbox' = inbox /\ phase' = phase /\ UNCHANGED regVars
             /\ inc'[born'].name = n /\ n \in Hired \cup Adopted
             /\ n \in Hired \cap Reused \/ NeverBuilt(n)
             /\ \/ inc'[born'].holder = "hirer" /\ n \in Hired
                \/ inc'[born'].holder = "adopter" /\ kids' = [kids EXCEPT ![n] = born']
  <2>1. PICK c : /\ c \in Child /\ Sane(c) /\ c.name = n /\ c.life = "live" /\ Create(c)
                 /\ NeverBuilt(n) \/ n \in Reused
                 /\ \/ c.holder = "hirer" /\ n \in Hired
                    \/ /\ c.holder = "adopter" /\ n \in Adopted /\ NeverBuilt(n)
                       /\ kids' = [kids EXCEPT ![n] = Fresh]
    BY <1>2, HiredChild
  <2>2. inc'[born'] = c /\ born' = Fresh
    BY <2>1, OneChildIsCreated
  <2> QED BY <1>2, <2>1, <2>2 DEF Hire, loopVars
<1>3. ASSUME NEW h, Build(h) \/ Report(h) \/ StrayStopped(h) \/ CallerAnswered(h)
                    \/ Fault(h) \/ AskToRegister(h) \/ Obey(h)
      PROVE  FALSE
  BY <1>3 DEF Build, Report, StrayStopped, CallerAnswered, Fault, AskToRegister, Obey
<1>4. ASSUME NEW t, AskSibling(t) \/ SiblingDown(t) \/ SendDue(t) \/ AbandonBackoff(t)
      PROVE  FALSE
  BY <1>4 DEF AskSibling, SiblingDown, SendDue, AbandonBackoff, childVars
<1>5. ASSUME NEW n, SuperviseDeferred(n) \/ AskToRelease(n) PROVE FALSE
  BY <1>5 DEF SuperviseDeferred, AskToRelease, childVars
<1>6. CASE ReleaserReturns \/ AskSupervisorToStop \/ UNCHANGED vars
  BY <1>6 DEF ReleaserReturns, AskSupervisorToStop, vars, childVars
<1> QED BY <1>1, <1>2, <1>3, <1>4, <1>5, <1>6 DEF Next, Tasks, Environment

\* A slot that waits for its next incarnation, or was given up on, has nobody up
\* under its name, and neither has a name that was never built, or one that a user
\* handler may record again once it is free.
TokenInv ==
    /\ \A n \in Name : OneToken(n)
    /\ \A n \in Name : NeverBuilt(n) => NoToken(n)
    /\ \A i \in Taken : slots[i].ern \notin Deferred => ~NeverBuilt(slots[i].ern)
    /\ \A i \in Taken : slots[i].state \in Resting => NoToken(slots[i].ern)
    /\ phase = "loop" => \A n \in Deferred \cap Reused : ~Supervised(n) => NoToken(n)

\* Callers choose names that are theirs: no caller builds a child under a name a
\* user handler defers, and a name that is used again is neither a caller's nor one
\* that may be let go with its child still up.
NamesAreKeptApart ==
    Deferred \cap (Hired \cup Adopted) = {} /\ Reused \cap (Hired \cup Released) = {}

LEMMA BuiltForGood ==
    ASSUME SupInv, ChildrenStep, NEW n, NeverBuilt(n)'
    PROVE  NeverBuilt(n) /\ (born' = born \/ inc'[born'].name # n)
<1>1. NeverBuilt(n)
  BY ChildrenKeep DEF NeverBuilt
<1>2. born' # born => born' \in 1..born'
  BY BornHandles DEF ChildrenStep
<1> QED BY <1>1, <1>2 DEF NeverBuilt

LEMMA NoTokenStays ==
    ASSUME SupInv, [Next]_vars, NEW n, NoToken(n), born' = born \/ inc'[born'].name # n
    PROVE  NoToken(n)'
BY NextKeeps, TokensStay, EndsStay, OneTokenStays DEF SupStep

LEMMA OneOfAName ==
    ASSUME SupInv, NEW i \in Index, Launchable(i), NEW n, n = slots[i].ern
    PROVE  i \in Taken /\ n \in Name /\ byErn[n] = i /\ Supervised(n)
<1>1. i \in Taken /\ slots[i].state # "Retired"
  BY DEF Launchable, SupInv, RegInv, NamesLeadToTheirSlots
<1>2. n \in Name /\ i # NoSlot
  BY TakenSlots DEF SupInv, Index, NoSlot
<1> QED BY <1>1, <1>2 DEF SupInv, RegInv, NamesLeadToTheirSlots, Supervised

\* A child is created under a name that has no token.
LEMMA CreatedUnderAFreeName ==
    ASSUME SupInv, TokenInv, NamesAreKeptApart, [Next]_vars, born' # born,
           NEW n, n = inc'[born'].name
    PROVE  n \in Name /\ NoToken(n)
<1>1. CASE /\ Launchable(Head(pending)) /\ Head(pending) \in Index
           /\ n = slots[Head(pending)].ern
  <2>1. PICK i : i = Head(pending)
    OBVIOUS
  <2>2. i \in Taken /\ n \in Name /\ slots[i].ern = n
    BY <1>1, <2>1, OneOfAName
  <2> QED BY <1>1, <2>1, <2>2 DEF TokenInv, Launchable, Resting
<1>2. CASE n \in Name /\ (n \in Hired \cap Reused \/ NeverBuilt(n))
  BY <1>2 DEF TokenInv, NamesAreKeptApart
<1> QED BY <1>1, <1>2, Creators

LEMMA OneTokenStep ==
    ASSUME SupInv, TokenInv, NamesAreKeptApart, [Next]_vars, NEW n \in Name
    PROVE  OneToken(n)'
<1>1. ChildrenStep
  BY NextKeeps DEF SupStep
<1>2. CASE born' = born \/ inc'[born'].name # n
  BY <1>1, <1>2, TokensStay, EndsStay, OneTokenStays DEF TokenInv
<1>3. CASE born' # born /\ inc'[born'].name = n
  BY <1>1, <1>3, CreatedUnderAFreeName, Creators, ATokenIsGiven
<1> QED BY <1>2, <1>3

\* Who adds a record, and who forgets a name.
LEMMA NoticesForgetNobody ==
    ASSUME NoticeSettled \/ NoticeEscalates \/ NoticeRestarts
    PROVE  UNCHANGED <<used, byErn>>
<1>1. CASE NoticeSettled
  BY <1>1 DEF NoticeSettled, IgnoreNotice, GroupStopLanded, ForgetChild, regVars
<1>2. CASE NoticeEscalates
  BY <1>2 DEF NoticeEscalates, Escalates, EscalateChild
<1>3. CASE NoticeRestarts
  BY <1>3 DEF NoticeRestarts, Restarts, ScheduleRestart
<1> QED BY <1>1, <1>2, <1>3

LEMMA RecordsAdded ==
    ASSUME SupInv, [Next]_vars, used' # used
    PROVE  /\ used' = used + 1 /\ used' \in Index
           /\ \/ /\ ReceiveRegister /\ slots'[used'].state = "Running"
                 /\ slots'[used'].ern = Head(inbox).name
                 /\ slots'[used'].restartable = Head(inbox).restartable
                 /\ slots'[used'].handle = Head(inbox).inc
              \/ /\ slots'[used'].state = "Pending"
                 /\ \E n \in Name : SuperviseDeferred(n) /\ slots'[used'].ern = n
<1>0. RegInv
  BY DEF SupInv
<1>1. CASE Loop
  <2>0. NoticeSettled \/ NoticeEscalates \/ NoticeRestarts => UNCHANGED used
    BY NoticesForgetNobody
  <2>1. ReceiveRegister
    BY <1>1, <2>0 DEF Loop, LaunchStart, ReceiveStarted, ReceiveUnregister, ReceiveDue,
       ReceiveStop, LeaveLoop, TerminateChildren, Stopped, regVars, BeginStart,
       CompleteStart, FailStart, Retire, RetireUnknown, QueueRestart, SettleForShutdown
  <2>2. PICK m : m = Head(inbox)
    OBVIOUS
  <2>3. m \in Message /\ m.type = "RegisterSupervisedChild"
    BY <2>1, <2>2, HeadRefers DEF ReceiveRegister, Receive
  <2>4. PICK n, h, restartable : n = m.name /\ h = m.inc /\ restartable = m.restartable
    OBVIOUS
  <2>5. n \in Name /\ h \in AnyHandle /\ restartable \in BOOLEAN
    BY <2>3, <2>4 DEF Message, AnyHandle
  <2>6. AddSlot(n, NewSlot(n, restartable, h, "Running"))
    BY <2>1, <2>2, <2>4 DEF ReceiveRegister, Register, RegisterDuplicate, regVars
  <2>7. PICK u : u = used + 1
    OBVIOUS
  <2>8. /\ u \in Index /\ used' = u /\ slots'[u].ern = n /\ slots'[u].state = "Running"
        /\ slots'[u].restartable = restartable /\ slots'[u].handle = h
    BY <1>0, <2>5, <2>6, <2>7, NewSlotFields
  <2> QED BY <2>1, <2>2, <2>4, <2>7, <2>8
<1>2. ASSUME NEW n \in Name, SuperviseDeferred(n)
      PROVE  /\ used' = used + 1 /\ used' \in Index
             /\ slots'[used'].ern = n /\ slots'[used'].state = "Pending"
  <2>1. PICK restartable \in BOOLEAN, h \in AnyHandle :
          AddSlot(n, NewSlot(n, restartable, h, "Pending"))
    BY <1>2 DEF SuperviseDeferred, RegisterPending, AnyHandle
  <2>2. PICK u : u = used + 1
    OBVIOUS
  <2>3. u \in Index /\ used' = u /\ slots'[u].ern = n /\ slots'[u].state = "Pending"
    BY <1>0, <2>1, <2>2, NewSlotFields
  <2> QED BY <2>2, <2>3
<1> QED BY <1>1, <1>2, OnlyTheLoopDecides DEF regVars

LEMMA NamesForgotten ==
    ASSUME SupInv, [Next]_vars, phase' = "loop", NEW n \in Name, Supervised(n), ~Supervised(n)'
    PROVE  \/ ReceiveUnregister /\ n = Head(inbox).name
           \/ /\ ReceiveStarted /\ Head(inbox).inc = NoHandle
              /\ n = slots[Head(inbox).idx].ern
<1>0. byErn \in [Name -> Index \cup {NoSlot}] /\ byErn[n] # NoSlot /\ byErn'[n] = NoSlot
  BY DEF SupInv, RegInv, RegTypeOK, Supervised
<1>1. byErn' # byErn
  BY <1>0
<1>2. CASE Loop
  <2>0. NoticeSettled \/ NoticeEscalates \/ NoticeRestarts => UNCHANGED byErn
    BY NoticesForgetNobody
  <2>1. ReceiveRegister \/ ReceiveStarted \/ ReceiveUnregister
    BY <1>1, <1>2, <2>0 DEF Loop, LaunchStart, ReceiveDue, ReceiveStop, LeaveLoop,
       TerminateChildren, Stopped, regVars, BeginStart, QueueRestart
  <2>2. PICK m : m = Head(inbox)
    OBVIOUS
  <2>3. CASE ReceiveRegister
    <3>1. PICK x : x = m.name
      OBVIOUS
    <3>2. AddSlot(x, NewSlot(x, m.restartable, m.inc, "Running"))
      BY <1>1, <2>2, <2>3, <3>1 DEF ReceiveRegister, Register, RegisterDuplicate, regVars
    <3>3. used + 1 # NoSlot
      BY DEF SupInv, SupTypeOK, RegTypeOK, NoSlot
    <3>4. PICK u : u = used + 1
      OBVIOUS
    <3>5. byErn' = [byErn EXCEPT ![x] = u]
      BY <3>2, <3>4 DEF AddSlot
    <3> QED BY <1>0, <3>3, <3>4, <3>5
  <2>4. CASE ReceiveUnregister
    <3>1. PICK x : x = m.name
      OBVIOUS
    <3>2. byErn' = [byErn EXCEPT ![x] = NoSlot]
      BY <1>1, <2>2, <2>4, <3>1 DEF ReceiveUnregister, Retire, RetireUnknown, regVars
    <3>3. n = x
      BY <1>0, <3>2
    <3> QED BY <2>2, <2>4, <3>1, <3>3
  <2>5. CASE ReceiveStarted
    <3>1. PICK x : x = slots[m.idx].ern
      OBVIOUS
    <3>2. m.inc = NoHandle /\ byErn' = [byErn EXCEPT ![x] = NoSlot]
      BY <1>1, <2>2, <2>5, <3>1 DEF ReceiveStarted, CompleteStart, FailStart, regVars
    <3>3. n = x
      BY <1>0, <3>2
    <3> QED BY <2>2, <2>5, <3>1, <3>2, <3>3
  <2> QED BY <2>1, <2>3, <2>4, <2>5
<1>3. ASSUME NEW x \in Name, SuperviseDeferred(x) PROVE FALSE
  <2>1. PICK u : u = used + 1
    OBVIOUS
  <2>2. byErn' = [byErn EXCEPT ![x] = u]
    BY <1>3, <2>1 DEF SuperviseDeferred, RegisterPending, AddSlot
  <2>3. u # NoSlot
    BY <2>1 DEF SupInv, SupTypeOK, RegTypeOK, NoSlot
  <2> QED BY <1>0, <2>2, <2>3
<1> QED BY <1>1, <1>2, <1>3, OnlyTheLoopDecides DEF regVars

\* What a slot at rest comes from: another one, or the notice that ended its child.
LEMMA PutToRest ==
    ASSUME SupInv, Spares, [Next]_vars, NEW i \in Taken, slots'[i].state \in Resting
    PROVE  slots[i].state \in Resting \/ Ended(i)
<1>1. i \in Index /\ slots[i].state \in SlotStates \ {"Unused"}
  BY TakenSlots DEF SupInv, RegInv, NamesLeadToTheirSlots
<1>2. CASE Parked(i)
  <2>1. slots[i].state \notin InFlight
    BY <1>1, <1>2 DEF Parked, Spares
  <2> QED BY <1>1, <1>2, <2>1 DEF Parked, InFlight, ExpectedStop, SlotStates, Resting
<1> QED
  BY <1>2, SlotMoves DEF Moves, Unmoved, Launched, CameUp, LetGo, CameDue, ToldToStop, Resting,
     ExpectedStop

\* A notice is read under the name of its slot.
LEMMA ItsNoticeIsRead ==
    ASSUME SupInv, NEW i \in Taken, NoticeRead(i), NEW n, n = slots[i].ern
    PROVE  /\ inbox # <<>> /\ inbox' = Tail(inbox) /\ IsEnd(n, Head(inbox)) /\ born' = born
           /\ n \in Name
<1>1. i \in Index /\ n \in Name
  BY TakenSlots DEF SupInv
<1>2. inbox # <<>> /\ inbox' = Tail(inbox)
  BY ReceivesTakes DEF NoticeRead
<1>3. born' = born
  BY DEF NoticeRead, Receives, ReceiveRegister, ReceiveStarted, ReceiveUnregister, ReceiveDue,
     NoticeSettled, NoticeEscalates, NoticeRestarts, ReceiveStop, childVars
<1> QED BY <1>1, <1>2, <1>3 DEF NoticeRead, IsEnd

LEMMA RestingSlotsAreFree ==
    ASSUME SupInv, TokenInv, Spares, NamesAreKeptApart,
           [Next]_vars, NEW i, i \in Taken', slots'[i].state \in Resting,
           NEW n, n = slots'[i].ern
    PROVE  NoToken(n)'
<1>0. SupStep /\ RegInv
  BY NextKeeps DEF SupInv
<1>1. CASE i \in Taken
  <2>1. i \in Index /\ slots[i].ern = n /\ n \in Name
    BY <1>0, <1>1, TakenSlots DEF SupStep, RegStep
  <2>2. CASE slots[i].state \in Resting
    <3>1. NoToken(n)
      BY <1>1, <2>1, <2>2 DEF TokenInv
    <3>2. ASSUME born' # born, inc'[born'].name = n PROVE FALSE
      <4>1. CASE /\ LaunchStart /\ Launchable(Head(pending)) /\ Head(pending) \in Index
                 /\ n = slots[Head(pending)].ern
        <5>1. PICK j : j = Head(pending)
          OBVIOUS
        <5>2. j \in Index /\ Launchable(j) /\ byErn[n] = j
          BY <4>1, <5>1, OneOfAName
        <5>3. byErn[n] = i
          BY <1>0, <1>1, <2>1, <2>2 DEF RegInv, NamesLeadToTheirSlots, Resting
        <5>4. PICK state \in {"Starting", "Restarting"} : Rewrites(j, state, NoHandle)
          BY <1>0, <4>1, <5>1, <5>2, BeginStartRewrites DEF LaunchStart
        <5> QED BY <5>2, <5>3, <5>4 DEF Rewrites, Resting
      <4>2. CASE n \in Hired \cup Adopted /\ (n \in Hired \cap Reused \/ NeverBuilt(n))
        BY <1>1, <2>1, <4>2 DEF TokenInv, NamesAreKeptApart
      <4> QED BY <3>2, <4>1, <4>2, Creators
    <3> QED BY <3>1, <3>2, NoTokenStays
  <2>3. CASE Ended(i)
    <3>1. /\ inbox # <<>> /\ inbox' = Tail(inbox) /\ IsEnd(n, Head(inbox)) /\ born' = born
      BY <1>1, <2>1, <2>3, ItsNoticeIsRead DEF Ended
    <3>2. TokensKept(n)
      BY <1>0, <3>1, TokensStay DEF SupStep
    <3> QED BY <2>1, <3>1, <3>2, TheTokenIsSpent DEF TokenInv
  <2> QED BY <1>1, <2>2, <2>3, PutToRest
<1>2. CASE i \notin Taken
  <2>1. used' # used
    BY <1>2 DEF Taken
  <2>2. i = used'
    <3>1. used' = used + 1 /\ used \in Nat
      BY <2>1, RecordsAdded DEF SupInv, SupTypeOK, RegTypeOK
    <3> QED BY <1>2, <3>1 DEF Taken
  <2>3. SuperviseDeferred(n)
    BY <2>1, <2>2, RecordsAdded DEF Resting
  <2>4. /\ n \in Deferred /\ (n \in Reused \/ NeverBuilt(n)) /\ phase = "loop"
        /\ ~Supervised(n) /\ born' = born
    BY <2>3 DEF SuperviseDeferred, RegisterPending, AddSlot, Waiting, childVars
  <2>5. n \in Name
    BY <2>4, SupervisionConstants
  <2> QED BY <2>4, <2>5, NoTokenStays DEF TokenInv
<1> QED BY <1>1, <1>2

LEMMA FreedNamesAreFree ==
    ASSUME SupInv, TokenInv, NamesAreKeptApart, [Next]_vars, phase' = "loop",
           NEW n \in Deferred \cap Reused, ~Supervised(n)'
    PROVE  NoToken(n)'
<1>0. SupStep /\ n \in Name /\ phase = "loop"
  BY NextKeeps, SupervisionConstants, TheRegistryRests
<1>1. CASE ~Supervised(n)
  <2>1. ASSUME born' # born, inc'[born'].name = n PROVE FALSE
    <3>1. PICK i : i = Head(pending)
      OBVIOUS
    <3>2. CASE Launchable(i) /\ i \in Index /\ n = slots[i].ern
      BY <1>1, <3>2, OneOfAName
    <3>3. CASE n \in Hired \cup Adopted
      BY <3>3 DEF NamesAreKeptApart
    <3> QED BY <2>1, <3>1, <3>2, <3>3, Creators
  <2> QED BY <1>0, <1>1, <2>1, NoTokenStays DEF TokenInv
<1>2. CASE Supervised(n)
  <2>1. PICK m : m = Head(inbox)
    OBVIOUS
  <2>2. CASE ReceiveUnregister /\ n = m.name
    <3>1. inbox # <<>> /\ m.type = "UnregisterSupervisedChild"
      BY <2>1, <2>2 DEF ReceiveUnregister, Receive
    <3>2. n \in Released
      BY <2>1, <2>2, <3>1, HeadRefers DEF MessageRefers
    <3> QED BY <3>2 DEF NamesAreKeptApart
  <2>3. CASE ReceiveStarted /\ m.inc = NoHandle /\ n = slots[m.idx].ern
    <3>1. /\ inbox # <<>> /\ m.type = "SupervisedChildStarted" /\ inbox' = Tail(inbox)
          /\ born' = born
      BY <2>1, <2>3 DEF ReceiveStarted, Receive
    <3>2. m.name = n
      BY <2>1, <2>3, <3>1, HeadRefers DEF MessageRefers, Recorded
    <3>3. IsEnd(n, m)
      BY <2>3, <3>1, <3>2 DEF IsEnd
    <3>4. TokensKept(n)
      BY <1>0, <3>1, TokensStay DEF SupStep
    <3> QED BY <1>0, <2>1, <3>1, <3>3, <3>4, TheTokenIsSpent DEF TokenInv
  <2> QED BY <1>0, <1>2, <2>1, <2>2, <2>3, NamesForgotten
<1> QED BY <1>1, <1>2

LEMMA TokenStep ==
    ASSUME SupInv, TokenInv, Spares, NamesAreKeptApart, [Next]_vars
    PROVE  TokenInv'
<1>0. SupStep
  BY NextKeeps
<1>1. \A n \in Name : OneToken(n)'
  BY OneTokenStep
<1>2. ASSUME NEW n \in Name, NeverBuilt(n)' PROVE NoToken(n)'
  BY <1>0, <1>2, BuiltForGood, NoTokenStays DEF SupStep, TokenInv
<1>3. ASSUME NEW i \in Taken', NEW n, n = slots'[i].ern, n \notin Deferred
      PROVE  ~NeverBuilt(n)'
  <2>1. CASE i \in Taken
    <3>1. slots[i].ern = n
      BY <1>0, <1>3, <2>1 DEF SupStep, RegStep
    <3> QED BY <1>0, <1>3, <2>1, <3>1, BuiltForGood DEF SupStep, TokenInv
  <2>2. CASE i \notin Taken
    <3>1. used' # used
      BY <2>2 DEF Taken
    <3>2. i = used'
      <4>1. used' = used + 1 /\ used \in Nat
        BY <3>1, RecordsAdded DEF SupInv, SupTypeOK, RegTypeOK
      <4> QED BY <1>3, <2>2, <4>1 DEF Taken
    <3>3. ReceiveRegister /\ n = Head(inbox).name
      BY <1>3, <3>1, <3>2, RecordsAdded DEF SuperviseDeferred
    <3>4. PICK m : m = Head(inbox)
      OBVIOUS
    <3>5. Born(m.inc, n)
      BY <3>3, <3>4, HeadRefers DEF ReceiveRegister, Receive, MessageRefers
    <3>6. ~NeverBuilt(n)
      BY <3>5 DEF Born, NeverBuilt
    <3> QED BY <1>0, <3>6, BuiltForGood DEF SupStep
  <2> QED BY <2>1, <2>2
<1>4. ASSUME NEW i \in Taken', NEW n, n = slots'[i].ern, slots'[i].state \in Resting
      PROVE  NoToken(n)'
  BY <1>4, RestingSlotsAreFree
<1>5. ASSUME phase' = "loop", NEW n \in Deferred \cap Reused, ~Supervised(n)'
      PROVE  NoToken(n)'
  BY <1>5, FreedNamesAreFree
<1>6. \A i \in Taken' : slots'[i].ern \notin Deferred => ~NeverBuilt(slots[i].ern)'
  BY <1>3 DEF NeverBuilt
<1>7. \A i \in Taken' : slots'[i].state \in Resting => NoToken(slots[i].ern)'
  BY <1>4 DEF NoToken, HasToken, Up, IsEnd
<1> QED BY <1>1, <1>2, <1>5, <1>6, <1>7 DEF TokenInv

LEMMA TokenInit == Init => TokenInv
<1> SUFFICES ASSUME Init PROVE TokenInv
  OBVIOUS
<1>1. \A n \in Name : NoToken(n)
  BY UnbornFields DEF Init, NoToken, HasToken, Up
<1>2. Taken = {}
  BY DEF Init, RegInit, Taken
<1>3. \A n \in Deferred : n \in Name
  BY SupervisionConstants
<1> QED BY <1>1, <1>2, <1>3, NoTokenIsOne DEF TokenInv

LEMMA NoStopsAreExpected ==
    ASSUME Strategy = "OneForOne"
    PROVE  Spec => []NoStopsExpected
<1>1. SupInv /\ NoStopsExpected /\ [Next]_vars => NoStopsExpected'
  BY NextKeeps, RecordsGo DEF SupStep, SupInv, NoStopsExpected, Goes
<1>2. Init => NoStopsExpected
  BY DrivenInit DEF DrivenInv
<1> QED BY <1>1, <1>2, SupInvHolds, PTL DEF Spec

LEMMA TokensAreSingle ==
    ASSUME NamesAreKeptApart
    PROVE  Spec /\ SparesThoseInFlight => []TokenInv
<1>1. SupInv /\ TokenInv /\ [Next]_vars /\ [Spares]_vars => TokenInv'
  BY TokenStep, SparedInAStep
<1> QED BY <1>1, TokenInit, SupInvHolds, PTL DEF Spec, SparesThoseInFlight

\* A supervised child is one actor: no replacement is built while an earlier
\* incarnation of the slot is up, the caller's own child included, whatever the order
\* in which reports, notices, timers and registrations are read, whatever the
\* overrunning stops, failures and releases.  It needs names that mean one child at a
\* time, since a notice names a child and not an incarnation.
THEOREM OneActorPerChild ==
    ASSUME Strategy = "OneForOne", NamesAreKeptApart
    PROVE  Spec => []AtMostOneIncarnation
<1>1. SupInv /\ TokenInv => AtMostOneIncarnation
  <2> SUFFICES ASSUME SupInv, TokenInv, NEW g \in Handle, NEW h \in Handle,
                      SlotServed(g) # NoSlot, Up(g), Up(h), SlotServed(g) = SlotServed(h)
               PROVE  g = h
    BY DEF AtMostOneIncarnation
  <2>1. PICK i : i = SlotServed(g)
    OBVIOUS
  <2>2. ASSUME NEW x \in Handle, SlotServed(x) = i
        PROVE  inc[x].name \in Name /\ i \in Taken /\ slots[i].ern = inc[x].name
    <3>1. inc[x].name \in Name
      BY BornHandles DEF SupInv, Child
    <3>2. CASE inc[x].idx # NoSlot
      BY <2>1, <2>2, <3>1, <3>2, BornHandles
         DEF SlotServed, SupInv, ReferencesHold, ChildRefers, Recorded
    <3>3. CASE inc[x].idx = NoSlot
      BY <2>1, <2>2, <3>1, <3>3, TakenSlots
         DEF SlotServed, Supervised, SupInv, RegInv, NamesLeadToTheirSlots
    <3> QED BY <3>1, <3>2, <3>3
  <2>3. PICK n : n = inc[g].name
    OBVIOUS
  <2>4. n \in Name /\ inc[h].name = n
    BY <2>1, <2>2, <2>3
  <2> QED BY <2>3, <2>4 DEF TokenInv, OneToken, HasToken
<1> QED BY <1>1, OneForOneSparesThem, TokensAreSingle, SupInvHolds, PTL

-------------------------------------------------------------------------------
(* The group tasks: what they do next, and to whom.                            *)

LEMMA TheLeastDue ==
    ASSUME NEW t, t.dues # {}, \A d \in t.dues : d.idx \in Index, NEW d, d = NextDue(t)
    PROVE  d \in t.dues /\ \A r \in t.dues : d.idx <= r.idx
<1> DEFINE S == {e.idx : e \in t.dues}
<1>1. S \subseteq Nat /\ S # {}
  BY DEF Index
<1>2. PICK x \in S : \A y \in S : x <= y
  BY <1>1, LeastExists
<1>3. \E e \in t.dues : \A r \in t.dues : e.idx <= r.idx
  BY <1>2
<1> QED BY <1>3 DEF NextDue

\* Asking for one restart: the first that is left.
LEMMA AskingForOne ==
    ASSUME SupInv, NEW t \in groups, SendDue(t)
    PROVE  \E d \in t.dues : \E m :
             /\ \A e \in t.dues : d.idx <= e.idx
             /\ d.idx \in Index
             /\ m.type = "RestartDue" /\ m.idx = d.idx /\ m.name = d.name /\ m.gen = d.gen
             /\ m = DueMsg(NextDue(t))
             /\ t.stops = {}
             /\ inboxOpen => inbox' = Append(inbox, m)
             /\ \/ groups' = groups \ {t} /\ (inboxOpen => t.dues = {d})
                \/ /\ inboxOpen
                   /\ \E u : /\ groups' = (groups \ {t}) \cup {u}
                             /\ u.stops = {} /\ u.dues = t.dues \ {d}
<1>1. PICK d : d = NextDue(t)
  OBVIOUS
<1>2. GroupRestart(t) /\ t.dues # {}
  BY DEF SupInv, SupTypeOK, GroupsHaveDues
<1>3. d \in t.dues /\ (\A e \in t.dues : d.idx <= e.idx) /\ d.idx \in Index
  BY <1>1, <1>2, TheLeastDue DEF GroupRestart
<1>4. PICK m : m = DueMsg(d)
  OBVIOUS
<1>5. m.type = "RestartDue" /\ m.idx = d.idx /\ m.name = d.name /\ m.gen = d.gen
  BY <1>4 DEF DueMsg
<1>6. t.stops = {} /\ Deliver(m) /\ m = DueMsg(NextDue(t))
  BY <1>1, <1>4 DEF SendDue
<1>7. PICK u : u = [t EXCEPT !.dues = t.dues \ {d}, !.due = TRUE]
  OBVIOUS
<1>8. u.stops = t.stops /\ u.dues = t.dues \ {d}
  BY <1>2, <1>7 DEF GroupRestart
<1>9. \/ groups' = groups \ {t} /\ (inboxOpen => t.dues = {d})
      \/ inboxOpen /\ groups' = (groups \ {t}) \cup {u}
  BY <1>1, <1>3, <1>7 DEF SendDue, Advance
<1> QED BY <1>3, <1>5, <1>6, <1>8, <1>9 DEF Deliver

\* One of the stops is over, or was only asked for.
Proceeds(t, u) ==
    /\ groups' = (groups \ {t}) \cup {u} /\ u.dues = t.dues
    /\ \/ AskSibling(t) /\ u.stops = t.stops
       \/ Over(NextStop(t).inc) /\ t.asked /\ ~u.asked /\ u.stops = t.stops \ {NextStop(t)}

LEMMA GroupsMove ==
    ASSUME SupInv, [Next]_vars
    PROVE  \/ groups' = groups
           \/ NoticeRestarts
           \/ \E t \in groups : \E u : Proceeds(t, u) /\ t.stops # {}
           \/ \E t \in groups : SendDue(t)
           \/ \E t \in groups : groups' = groups \ {t} /\ t.stops = {} /\ cancelled
<1>1. ASSUME NEW t \in groups, AskSibling(t) PROVE \E u : Proceeds(t, u) /\ t.stops # {}
  <2>1. PICK u : u = [t EXCEPT !.asked = TRUE]
    OBVIOUS
  <2>2. u.dues = t.dues /\ u.stops = t.stops
    BY <2>1
  <2> QED BY <1>1, <2>1, <2>2 DEF AskSibling, Advance, Proceeds
<1>2. ASSUME NEW t \in groups, SiblingDown(t) PROVE \E u : Proceeds(t, u) /\ t.stops # {}
  <2>1. PICK u : u = [t EXCEPT !.asked = FALSE, !.stops = @ \ {NextStop(t)}]
    OBVIOUS
  <2>2. GroupRestart(t)
    BY DEF SupInv, SupTypeOK
  <2>3. u.dues = t.dues /\ u.stops = t.stops \ {NextStop(t)} /\ ~u.asked
    BY <2>1, <2>2
  <2> QED BY <1>2, <2>1, <2>3 DEF SiblingDown, Advance, Proceeds
<1>3. ASSUME NEW t \in groups, AbandonBackoff(t)
      PROVE  groups' = groups \ {t} /\ t.stops = {} /\ cancelled
  BY <1>3 DEF AbandonBackoff
<1>4. CASE Loop
  BY <1>4 DEF Loop, LaunchStart, ReceiveRegister, ReceiveStarted, ReceiveUnregister, ReceiveDue,
     NoticeSettled, NoticeEscalates, ReceiveStop, LeaveLoop, TerminateChildren, Stopped, taskVars
<1>5. ASSUME NEW h, Build(h) \/ Report(h) \/ StrayStopped(h) \/ CallerAnswered(h)
                    \/ Fault(h) \/ AskToRegister(h) \/ Obey(h)
      PROVE  groups' = groups
  BY <1>5 DEF Build, Report, StrayStopped, CallerAnswered, Fault, AskToRegister, Obey, taskVars
<1>6. ASSUME NEW n, SuperviseDeferred(n) \/ Hire(n) \/ AskToRelease(n)
      PROVE  groups' = groups
  BY <1>6 DEF SuperviseDeferred, Hire, AskToRelease, taskVars
<1>7. CASE ReleaserReturns \/ AskSupervisorToStop \/ UNCHANGED vars
  BY <1>7 DEF ReleaserReturns, AskSupervisorToStop, vars, taskVars
<1> QED BY <1>1, <1>2, <1>3, <1>4, <1>5, <1>6, <1>7 DEF Next, Tasks, Environment

\* A stop that was begun has been sent, unless a group task has still to send it.
StopSent(h) == inc[h].life = "dead" \/ inc[h].signals # {}
OnAList(h) == \E t \in groups : \E s \in t.stops : s.inc = h
StopsAreSent ==
    /\ \A h \in 1..born : inc[h].life # "unborn"
    /\ \A t \in groups : t.asked /\ t.stops # {} => StopSent(NextStop(t).inc)
    /\ \A t \in groups : \A s \in t.stops : s.inc \in 1..born /\ Kept(s.inc)
    /\ \A i \in Index : slots[i].state \in ExpectedStop =>
         StopSent(slots[i].handle) \/ OnAList(slots[i].handle)

LEMMA SentStays ==
    ASSUME SupInv, [Next]_vars, NEW h \in 1..born, StopSent(h)
    PROVE  StopSent(h)'
<1>1. ChildStep(inc[h], inc'[h])
  BY NextKeeps DEF SupStep, ChildrenStep
<1> QED BY <1>1 DEF ChildStep, StopSent

LEMMA NextIsListed ==
    ASSUME NEW t, GroupRestart(t), t.stops # {}
    PROVE  NextStop(t) \in t.stops
<1> DEFINE S == {MaxSlots - e.idx : e \in t.stops}
<1>1. S \subseteq Nat /\ S # {}
  BY RegistryConstants DEF Index, GroupRestart
<1>2. PICK x \in S : \A y \in S : x <= y
  BY <1>1, LeastExists
<1>3. PICK e \in t.stops : x = MaxSlots - e.idx
  BY <1>2
<1>4. \A f \in t.stops : MaxSlots - e.idx <= MaxSlots - f.idx
  BY <1>2, <1>3
<1>5. \A f \in t.stops : e.idx >= f.idx
  BY <1>4, RegistryConstants DEF Index, GroupRestart
<1> QED BY <1>5 DEF NextStop

LEMMA AskedIsSent ==
    ASSUME SupInv, StopsAreSent, NEW t \in groups, AskSibling(t), NEW h, h = NextStop(t).inc
    PROVE  StopSent(h)' /\ h \in 1..born
<1>1. GroupRestart(t) /\ t.stops # {}
  BY DEF AskSibling, SupInv, SupTypeOK
<1>2. h \in 1..born /\ Kept(h) /\ h \in Handle
  BY <1>1, NextIsListed, BornHandles DEF StopsAreSent
<1>3. inc[h] \in Child /\ inc[h].life \in {"live", "dead"}
  <2>1. inc[h] \in Child /\ Sane(inc[h])
    BY <1>2, BornHandles
  <2>2. inc[h].life # "unborn"
    BY <1>2 DEF StopsAreSent
  <2> QED BY <1>2, <2>1, <2>2 DEF Sane, Kept, Child, Lives
<1>4. PICK d : d = Signalled(inc[h], "Terminate")
  OBVIOUS
<1>5. inc'[h] = d
  BY <1>2, <1>4, BornHandles DEF AskSibling
<1>6. d.life = inc[h].life /\ (inc[h].life = "live" => d.signals # {})
  BY <1>3, <1>4, Told
<1> QED BY <1>2, <1>3, <1>5, <1>6 DEF StopSent

\* Whoever is on a list stays on it until the stop was sent.
LEMMA ListsAreKept ==
    ASSUME SupInv, StopsAreSent, [Next]_vars, NEW h \in 1..born, OnAList(h)
    PROVE  StopSent(h)' \/ OnAList(h)'
<1>1. PICK t \in groups : \E s \in t.stops : s.inc = h
  BY DEF OnAList
<1>2. PICK s \in t.stops : s.inc = h
  BY <1>1
<1>3. CASE t \in groups'
  BY <1>2, <1>3 DEF OnAList
<1>4. ASSUME NEW r \in groups, NEW u, Proceeds(r, u), t \notin groups'
      PROVE  StopSent(h)' \/ OnAList(h)'
  <2>1. r = t /\ u \in groups'
    BY <1>4 DEF Proceeds
  <2>2. CASE s \in u.stops
    BY <1>2, <2>1, <2>2 DEF OnAList
  <2>3. CASE s \notin u.stops
    <3>1. s = NextStop(t) /\ t.asked /\ t.stops # {}
      BY <1>2, <1>4, <2>1, <2>3 DEF Proceeds
    <3> QED BY <1>2, <3>1, SentStays DEF StopsAreSent
  <2> QED BY <2>2, <2>3
<1>5. ASSUME NEW r \in groups, r.stops = {}, groups \ {r} \subseteq groups'
      PROVE  t \in groups'
  BY <1>2, <1>5
<1>6. ASSUME NEW r \in groups, SendDue(r) PROVE t \in groups'
  <2>1. r.stops = {} /\ groups \ {r} \subseteq groups'
    BY <1>6, AskingForOne
  <2> QED BY <1>5, <2>1
<1>7. NoticeRestarts => t \in groups'
  BY GroupBegins
<1> QED BY <1>3, <1>4, <1>5, <1>6, <1>7, GroupsMove

LEMMA StopsAreSentStep ==
    ASSUME SupInv, StopsAreSent, [Next]_vars
    PROVE  StopsAreSent'
<1>0. SupInv' /\ ChildrenStep
  BY NextKeeps DEF SupStep
<1>1. \A h \in 1..born : /\ Kept(h) => h \in 1..born' /\ Kept(h)'
                         /\ StopSent(h) => StopSent(h)'
  BY <1>0, ChildrenKeep, SentStays
<1> DEFINE Good(t) == /\ t.asked /\ t.stops # {} => StopSent(NextStop(t).inc)'
                      /\ \A s \in t.stops : s.inc \in 1..born' /\ Kept(s.inc)'
<1>2. ASSUME NEW t \in groups PROVE Good(t)
  <2>1. \A s \in t.stops : s.inc \in 1..born' /\ Kept(s.inc)'
    BY <1>1 DEF StopsAreSent
  <2>2. ASSUME t.asked, t.stops # {} PROVE StopSent(NextStop(t).inc)'
    <3>1. PICK h : h = NextStop(t).inc
      OBVIOUS
    <3>2. h \in 1..born /\ StopSent(h)
      <4>1. GroupRestart(t)
        BY DEF SupInv, SupTypeOK
      <4> QED BY <2>2, <3>1, <4>1, NextIsListed DEF StopsAreSent
    <3> QED BY <1>1, <3>1, <3>2 DEF StopSent
  <2> QED BY <2>1, <2>2
<1>3. ASSUME NEW t \in groups, NEW u, Proceeds(t, u), t.stops # {} PROVE Good(u)
  <2>1. u.stops \subseteq t.stops
    BY <1>3 DEF Proceeds
  <2>2. CASE AskSibling(t) /\ u.stops = t.stops
    <3>1. PICK h : h = NextStop(t).inc
      OBVIOUS
    <3>2. StopSent(h)'
      BY <2>2, <3>1, AskedIsSent
    <3>3. NextStop(u).inc = h
      BY <2>2, <3>1 DEF NextStop
    <3> QED BY <1>2, <2>1, <3>2, <3>3 DEF StopSent
  <2>3. CASE ~u.asked
    BY <1>2, <2>1, <2>3
  <2> QED BY <1>3, <2>2, <2>3 DEF Proceeds
<1>4. ASSUME NEW t \in groups, SendDue(t), NEW u \in groups' PROVE Good(u)
  <2>1. u \in groups \/ u.stops = {}
    BY <1>4, AskingForOne
  <2> QED BY <1>2, <2>1
<1>5. ASSUME NoticeRestarts, NEW u \in groups' PROVE Good(u)
  <2>1. PICK plan, x : /\ Rearranges(plan) /\ groups' = groups \cup {GroupTask(x, plan)}
                       /\ plan.stop \subseteq Index
    BY <1>5, GroupBegins
  <2>2. CASE u = GroupTask(x, plan)
    <3>1. ~u.asked
      BY <2>2 DEF GroupTask
    <3>2. ASSUME NEW s \in u.stops PROVE s.inc \in 1..born /\ Kept(s.inc)
      <4>1. PICK i \in plan.stop : s = [idx |-> i, inc |-> slots[i].handle]
        BY <2>2, <3>2 DEF GroupTask
      <4>2. i \in Index /\ slots[i].handle \in Handle /\ s.inc = slots[i].handle
        BY <2>1, <4>1 DEF Rearranges
      <4> QED BY <4>2, BornHandles DEF SupInv, ReferencesHold, SlotRefers, Born
    <3> QED BY <1>1, <3>1, <3>2
  <2> QED BY <1>2, <2>1, <2>2
<1>6. ASSUME NEW u \in groups' PROVE Good(u)
  <2>1. CASE groups' \subseteq groups
    BY <1>2, <1>6, <2>1
  <2>2. ASSUME NEW t \in groups, NEW v, Proceeds(t, v), t.stops # {} PROVE u \in groups \/ u = v
    BY <1>6, <2>2 DEF Proceeds
  <2> QED BY <1>2, <1>3, <1>4, <1>5, <1>6, <2>1, <2>2, GroupsMove
<1>7. ASSUME NEW h \in 1..born' PROVE inc'[h].life # "unborn"
  BY <1>0, <1>7, BornHandles DEF StopsAreSent, ChildrenStep, ChildStep
<1>8. ASSUME NEW i \in Index, slots'[i].state \in ExpectedStop
      PROVE  (StopSent(slots[i].handle) \/ OnAList(slots[i].handle))'
  <2>1. CASE slots[i].state \in ExpectedStop /\ slots'[i].handle = slots[i].handle
    <3>1. PICK h : h = slots[i].handle
      OBVIOUS
    <3>2. h \in 1..born
      <4>1. h # NoHandle
        BY <2>1, <3>1 DEF SupInv, RegInv, Sound
      <4> QED BY <3>1, <4>1 DEF SupInv, ReferencesHold, SlotRefers, Born
    <3>3. StopSent(h) \/ OnAList(h)
      BY <2>1, <3>1 DEF StopsAreSent
    <3>4. StopSent(h)' \/ OnAList(h)'
      BY <3>2, <3>3, SentStays, ListsAreKept
    <3>5. slots'[i].handle = h
      BY <2>1, <3>1
    <3> QED BY <3>4, <3>5 DEF StopSent, OnAList
  <2>2. CASE NoticeRestarts
    <3>1. PICK plan, x : /\ Rearranges(plan) /\ groups' = groups \cup {GroupTask(x, plan)}
                         /\ plan.stop \subseteq Index
      BY <2>2, GroupBegins
    <3>2. CASE i \in plan.stop
      <4>1. PICK s : s = [idx |-> i, inc |-> slots[i].handle]
        OBVIOUS
      <4>2. s \in GroupTask(x, plan).stops /\ s.inc = slots'[i].handle
        BY <3>1, <3>2, <4>1 DEF GroupTask, Rearranges
      <4>3. GroupTask(x, plan) \in groups'
        BY <3>1
      <4> QED BY <4>2, <4>3 DEF OnAList
    <3>3. CASE i \notin plan.stop
      BY <1>8, <2>1, <3>1, <3>3 DEF Rearranges, ExpectedStop
    <3> QED BY <3>2, <3>3
  <2> QED BY <1>8, <2>1, <2>2, RecordsMoveOn
<1>9. \A t \in groups' : t.asked /\ t.stops # {} => StopSent(NextStop(t).inc)'
  BY <1>6
<1>10. \A t \in groups' : \A s \in t.stops : s.inc \in 1..born' /\ Kept(s.inc)'
  BY <1>6
<1>11. (\A t \in groups : t.asked /\ t.stops # {} => StopSent(NextStop(t).inc))'
  BY <1>9 DEF StopSent, NextStop
<1> QED BY <1>7, <1>8, <1>10, <1>11 DEF StopsAreSent, Kept

-------------------------------------------------------------------------------
(* Whose child it is.  A child that is up is in the hands of a task or of a    *)
(* caller, on the list of a group task that is to stop it, or was told to; or  *)
(* it is where the shutdown looks for it: on record, in a report in the inbox, *)
(* or in the children map.                                                     *)

InHand(h) ==
    \/ inc[h].signals # {}
    \/ inc[h].holder \notin {"nobody", "accepted"}
    \/ releaser.got = h /\ releaser.at = "answered"
    \/ OnAList(h)
OnRecord(h) ==
    \/ \E i \in Index : slots[i].handle = h
    \/ \E m \in Message : InInbox(m) /\ m.type = "SupervisedChildStarted" /\ m.inc = h
    \/ kids[inc[h].name] = h

\* Once the loop is left nothing reaches the supervisor any more.
InboxShut ==
    /\ ~cancelled
    /\ phase # "loop" => ~inboxOpen /\ inbox = <<>>

\* A caller that lets a child go asks once, and its request is in the inbox only
\* while it waits.
IsRequest(m) == m.type = "UnregisterSupervisedChild"
OneRequest ==
    /\ \A k \in 1..Len(inbox) :
         IsRequest(inbox[k]) => releaser.at = "waiting" /\ releaser.name = inbox[k].name
    /\ \A k, l \in 1..Len(inbox) : IsRequest(inbox[k]) /\ IsRequest(inbox[l]) => k = l

LEMMA InboxShutStep ==
    ASSUME SupInv, InboxShut, Escalation = "NotifyParent", [Next]_vars
    PROVE  InboxShut'
<1>1. CASE Loop
  <2>1. CASE NoticeEscalates
    BY <2>1 DEF NoticeEscalates, Receive, Waiting, InboxShut
  <2>2. CASE Loop /\ ~NoticeEscalates
    <3>1. cancelled' = cancelled
      BY <2>2 DEF Loop, LaunchStart, ReceiveRegister, ReceiveStarted, ReceiveUnregister,
         ReceiveDue, NoticeSettled, NoticeRestarts, ReceiveStop, LeaveLoop,
         TerminateChildren, Stopped, loopVars
    <3>2. CASE LeaveLoop
      BY <3>1, <3>2 DEF LeaveLoop, InboxShut
    <3>3. CASE TerminateChildren \/ Stopped
      BY <3>1, <3>3 DEF TerminateChildren, Stopped, InboxShut
    <3>4. CASE LaunchStart
      BY <3>1, <3>4 DEF LaunchStart, InboxShut, loopVars
    <3>5. CASE Receives
      BY <3>1, <3>5, ReceivesTakes DEF Waiting, InboxShut
    <3> QED BY <2>2, <3>2, <3>3, <3>4, <3>5 DEF Loop, Receives
  <2> QED BY <1>1, <2>1, <2>2
<1>2. CASE \E n \in Name : SuperviseDeferred(n)
  BY <1>2 DEF SuperviseDeferred, InboxShut, loopVars
<1>3. CASE UNCHANGED <<regVars, inboxOpen, cancelled, phase, toStop>>
  <2>1. inbox' = inbox \/ inboxOpen \/ Receives \/ TerminateChildren
    BY InboxMoves
  <2> QED BY <1>3, <2>1, ReceivesTakes DEF InboxShut, Waiting, TerminateChildren
<1> QED BY <1>1, <1>2, <1>3, OnlyTheLoopDecides

\* Who moves the caller.
LEMMA ReleaserMoves ==
    ASSUME [Next]_vars, releaser' # releaser
    PROVE  (\E n \in Name : AskToRelease(n)) \/ ReceiveUnregister \/ ReleaserReturns
<1>1. CASE Loop
  BY <1>1 DEF Loop, LaunchStart, ReceiveRegister, ReceiveStarted, ReceiveDue,
     NoticeSettled, NoticeEscalates, NoticeRestarts, ReceiveStop, LeaveLoop,
     TerminateChildren, Stopped, taskVars
<1>2. ASSUME NEW h, \/ Build(h) \/ Report(h) \/ StrayStopped(h) \/ CallerAnswered(h)
                    \/ Fault(h) \/ AskToRegister(h) \/ Obey(h)
      PROVE  FALSE
  BY <1>2 DEF Build, Report, StrayStopped, CallerAnswered, Fault, AskToRegister, Obey, taskVars
<1>3. ASSUME NEW t, AskSibling(t) \/ SiblingDown(t) \/ SendDue(t) \/ AbandonBackoff(t)
      PROVE  FALSE
  BY <1>3 DEF AskSibling, SiblingDown, SendDue, AbandonBackoff
<1>4. ASSUME NEW n, SuperviseDeferred(n) \/ Hire(n) PROVE FALSE
  BY <1>4 DEF SuperviseDeferred, Hire, taskVars
<1>5. CASE AskSupervisorToStop \/ UNCHANGED vars
  BY <1>5 DEF AskSupervisorToStop, vars, taskVars
<1> QED BY <1>1, <1>2, <1>3, <1>4, <1>5 DEF Next, Tasks, Environment

LEMMA OneRequestStep ==
    ASSUME SupInv, OneRequest, [Next]_vars
    PROVE  OneRequest'
<1>0. inbox \in Seq(Message) /\ Len(inbox) \in Nat
  BY DEF SupInv, SupTypeOK
<1>1. CASE Receives
  <2>1. inbox # <<>> /\ inbox' = Tail(inbox)
    BY <1>1, ReceivesTakes
  <2>2. /\ Len(inbox') = Len(inbox) - 1 /\ inbox[1] = Head(inbox) /\ 1 \in 1..Len(inbox)
        /\ \A k \in 1..Len(inbox') : /\ inbox'[k] = inbox[k + 1] /\ k + 1 \in 1..Len(inbox)
                                     /\ k + 1 # 1
    BY <1>0, <2>1
  <2>3. ASSUME NEW k \in 1..Len(inbox'), NEW l \in 1..Len(inbox'),
               IsRequest(inbox'[k]), IsRequest(inbox'[l])
        PROVE  k = l
    <3>1. k + 1 = l + 1
      BY <2>2, <2>3 DEF OneRequest
    <3> QED BY <1>0, <2>2, <3>1
  <2>4. CASE ReceiveUnregister
    <3>1. IsRequest(inbox[1])
      BY <2>2, <2>4 DEF ReceiveUnregister, Receive, IsRequest
    <3>2. \A k \in 1..Len(inbox') : ~IsRequest(inbox'[k])
      BY <2>2, <3>1 DEF OneRequest
    <3> QED BY <3>2 DEF OneRequest, IsRequest
  <2>5. CASE ~ReceiveUnregister
    <3>1. releaser' = releaser
      <4>1. ~(\E n \in Name : AskToRelease(n)) /\ ~ReleaserReturns
        <5>1. inbox' # inbox
          BY <1>0, <2>2
        <5>2. \A m : inbox' # Append(inbox, m)
          <6> SUFFICES ASSUME NEW m, inbox' = Append(inbox, m) PROVE FALSE
            OBVIOUS
          <6>1. Len(Append(inbox, m)) = Len(inbox) + 1
            BY <1>0
          <6> QED BY <1>0, <2>1, <2>2, <6>1
        <5>3. ASSUME NEW n, AskToRelease(n) PROVE FALSE
          <6>1. PICK m : m = UnregisterMsg(n)
            OBVIOUS
          <6> QED BY <5>1, <5>2, <5>3, <6>1 DEF AskToRelease, Deliver
        <5>4. ~ReleaserReturns
          BY <5>1 DEF ReleaserReturns, loopVars
        <5> QED BY <5>3, <5>4
      <4> QED BY <2>5, <4>1, ReleaserMoves
    <3>2. \A k \in 1..Len(inbox') : IsRequest(inbox'[k]) =>
             releaser'.at = "waiting" /\ releaser'.name = inbox'[k].name
      BY <2>2, <3>1 DEF OneRequest
    <3> QED BY <2>3, <3>2 DEF OneRequest, IsRequest
  <2> QED BY <2>4, <2>5
<1>2. CASE TerminateChildren
  <2>1. Len(inbox') = 0
    BY <1>2 DEF TerminateChildren
  <2> QED BY <2>1 DEF OneRequest
<1>3. ASSUME ~Receives, ~TerminateChildren PROVE OneRequest'
  <2>0. ~ReceiveUnregister
    BY <1>3 DEF Receives
  <2>1. ASSUME NEW n \in Name, AskToRelease(n) PROVE OneRequest'
    <3>1. releaser.at = "idle" /\ releaser'.at = "waiting" /\ releaser'.name = n
      BY <2>1 DEF AskToRelease
    <3>2. \A k \in 1..Len(inbox) : ~IsRequest(inbox[k])
      BY <3>1 DEF OneRequest
    <3>3. PICK m : m = UnregisterMsg(n)
      OBVIOUS
    <3>4. m.name = n
      BY <3>3 DEF UnregisterMsg
    <3>5. CASE inbox' = inbox
      BY <3>2, <3>5 DEF OneRequest, IsRequest
    <3>6. CASE inbox' = Append(inbox, m)
      <4>1. /\ Len(inbox') = Len(inbox) + 1 /\ inbox'[Len(inbox) + 1] = m
            /\ \A k \in 1..Len(inbox) : inbox'[k] = inbox[k]
            /\ \A k \in 1..Len(inbox') : k \in 1..Len(inbox) \/ k = Len(inbox) + 1
        BY <1>0, <3>6
      <4>2. \A k \in 1..Len(inbox') : IsRequest(inbox'[k]) => k = Len(inbox) + 1 /\ inbox'[k] = m
        BY <3>2, <4>1
      <4> QED BY <3>1, <3>4, <4>2 DEF OneRequest, IsRequest
    <3> QED BY <2>1, <3>3, <3>5, <3>6 DEF AskToRelease, Deliver
  <2>2. CASE ReleaserReturns
    <3>1. inbox' = inbox
      BY <2>2 DEF ReleaserReturns, loopVars
    <3>2. \A k \in 1..Len(inbox) : ~IsRequest(inbox[k])
      <4> SUFFICES ASSUME NEW k \in 1..Len(inbox), IsRequest(inbox[k]) PROVE FALSE
        OBVIOUS
      <4>1. releaser.at = "waiting" /\ releaser.name = inbox[k].name
        BY DEF OneRequest
      <4>2. PICK m : m = inbox[k]
        OBVIOUS
      <4>3. m \in Message /\ m.type = "UnregisterSupervisedChild" /\ m.name = releaser.name
        BY <1>0, <4>1, <4>2 DEF IsRequest
      <4>4. m = UnregisterMsg(releaser.name)
        BY <4>3 DEF Message, UnregisterMsg
      <4>5. InInbox(UnregisterMsg(releaser.name))
        BY <4>2, <4>4 DEF InInbox
      <4> QED BY <2>2, <4>1, <4>5 DEF ReleaserReturns
    <3> QED BY <3>1, <3>2 DEF OneRequest, IsRequest
  <2>3. CASE (\A n \in Name : ~AskToRelease(n)) /\ ~ReleaserReturns
    <3>1. releaser' = releaser
      BY <2>0, <2>3, ReleaserMoves
    <3>2. CASE inbox' = inbox
      BY <3>1, <3>2 DEF OneRequest, IsRequest
    <3>3. ASSUME NEW m, inbox' = Append(inbox, m), Sent(m) PROVE OneRequest'
      <4>1. ~IsRequest(m)
        BY <2>3, <3>3 DEF Sent, IsRequest, StartedMsg, RegisterMsg
      <4>2. /\ Len(inbox') = Len(inbox) + 1 /\ inbox'[Len(inbox) + 1] = m
            /\ \A k \in 1..Len(inbox) : inbox'[k] = inbox[k]
            /\ \A k \in 1..Len(inbox') : k \in 1..Len(inbox) \/ k = Len(inbox) + 1
        BY <1>0, <3>3
      <4>3. \A k \in 1..Len(inbox') : IsRequest(inbox'[k]) =>
               k \in 1..Len(inbox) /\ inbox'[k] = inbox[k]
        BY <4>1, <4>2
      <4> QED BY <3>1, <4>3 DEF OneRequest, IsRequest
    <3> QED BY <1>3, <3>2, <3>3, InboxMoves
  <2> QED BY <2>1, <2>2, <2>3
<1> QED BY <1>1, <1>2, <1>3

\* Who takes a child out of whose hands.
LEMMA WhoHandsOver ==
    ASSUME SupInv, [Next]_vars, NEW h \in 1..born, inc'[h].holder # inc[h].holder
    PROVE  \/ Build(h) /\ inc'[h].life = "dead"
           \/ Report(h) \/ StrayStopped(h) \/ CallerAnswered(h) \/ AskToRegister(h)
           \/ ReceiveRegister /\ Head(inbox).inc = h /\ Head(inbox).restartable
           \/ ReceiveStarted /\ Head(inbox).inc = h /\ inc'[h].holder = "stray"
           \/ ReleaserReturns /\ releaser.got = h /\ inc'[h].holder = "owner"
<1>0. inc \in [Handle -> Child] /\ inc[h] \in Child /\ h \in Handle
  BY BornHandles
<1>1. ASSUME NEW g \in Handle, Fault(g) \/ Obey(g) PROVE FALSE
  <2>1. inc' = [inc EXCEPT ![g].life = "dead"]
    BY <1>1 DEF Fault, Obey, Die
  <2> QED BY <1>0, <2>1 DEF Child
<1>2. ASSUME NEW g \in Handle, Build(g)
      PROVE  Build(h) /\ inc'[h].life = "dead"
  <2>1. \/ inc' = [inc EXCEPT ![g].life = "live"]
        \/ inc' = [inc EXCEPT ![g].life = "dead", ![g].holder = "failed"]
        \/ inc' = [inc EXCEPT ![g].life = "dead", ![g].holder = "nobody"]
    BY <1>2 DEF Build
  <2>2. g = h /\ inc'[h].life = "dead"
    BY <1>0, <2>1 DEF Child
  <2> QED BY <1>2, <2>2
<1>3. ASSUME NEW g \in Handle, \E d : inc' = [inc EXCEPT ![g] = d] PROVE g = h
  BY <1>0, <1>3
<1>4. ASSUME NEW g \in Handle,
             Report(g) \/ StrayStopped(g) \/ CallerAnswered(g) \/ AskToRegister(g)
      PROVE  Report(h) \/ StrayStopped(h) \/ CallerAnswered(h) \/ AskToRegister(h)
  <2>1. \E d : inc' = [inc EXCEPT ![g] = d]
    BY <1>4 DEF Report, StrayStopped, CallerAnswered, AskToRegister
  <2> QED BY <1>3, <1>4, <2>1
<1>5. ASSUME NEW signal \in {"Terminate", "Cascade"},
             inc'[h] = inc[h] \/ inc'[h] = Signalled(inc[h], signal)
      PROVE  FALSE
  <2>1. PICK d : d = Signalled(inc[h], signal)
    OBVIOUS
  <2>2. d.holder = inc[h].holder
    BY <1>0, <2>1, Told
  <2> QED BY <1>5, <2>1, <2>2
<1>6. ASSUME NEW t, AskSibling(t) PROVE FALSE
  <2>1. PICK g : inc' = [inc EXCEPT ![g] = Signalled(inc[g], "Terminate")]
    BY <1>6 DEF AskSibling
  <2>2. inc'[h] = inc[h] \/ inc'[h] = Signalled(inc[h], "Terminate")
    BY <1>0, <2>1
  <2> QED BY <1>5, <2>2
<1>7. ASSUME NEW c, Create(c) PROVE FALSE
  <2>1. inc' = [inc EXCEPT ![Fresh] = c] /\ Fresh # h
    BY <1>7, BornHandles DEF Create, Fresh
  <2> QED BY <1>0, <2>1
<1>8. CASE ReleaserReturns
  <2>1. releaser.got = h
    BY <1>0, <1>8 DEF ReleaserReturns
  <2>2. inc'[h] = Signalled(inc[h], "Terminate") \/ inc'[h] = Held(inc[h], "owner")
    BY <1>0, <1>8, <2>1 DEF ReleaserReturns
  <2>3. inc'[h] = Held(inc[h], "owner")
    BY <1>5, <2>2
  <2>4. inc'[h].holder = "owner"
    BY <1>0, <2>3 DEF Held, Child
  <2> QED BY <1>8, <2>1, <2>4
<1>9. CASE ReceiveRegister
  <2>1. PICK m : m = Head(inbox)
    OBVIOUS
  <2>2. m.restartable /\ \E d : inc' = [inc EXCEPT ![m.inc] = d]
    BY <1>9, <2>1 DEF ReceiveRegister
  <2>3. m.inc \in Handle
    BY <1>9, <2>1, HeadRefers DEF ReceiveRegister, Receive, Message
  <2> QED BY <1>3, <1>9, <2>1, <2>2, <2>3
<1>10. CASE ReceiveStarted
  <2>1. PICK m : m = Head(inbox)
    OBVIOUS
  <2>2. PICK g : g = m.inc
    OBVIOUS
  <2>3. /\ g # NoHandle
        /\ inc' = [inc EXCEPT ![g] = Held(Signalled(inc[g], "Terminate"), "stray")]
    BY <1>10, <2>1, <2>2 DEF ReceiveStarted
  <2>4. g \in Handle
    BY <1>10, <2>1, <2>2, <2>3, HeadRefers DEF ReceiveStarted, Receive, Message
  <2>5. g = h
    BY <1>3, <2>3, <2>4
  <2>6. PICK c : c = Signalled(inc[h], "Terminate")
    OBVIOUS
  <2>7. c \in Child
    BY <1>0, <2>6, Told
  <2>8. inc'[h] = Held(c, "stray")
    BY <1>0, <2>3, <2>5, <2>6
  <2>9. inc'[h].holder = "stray"
    BY <2>7, <2>8 DEF Held, Child
  <2> QED BY <1>10, <2>1, <2>2, <2>5, <2>9
<1>11. CASE TerminateChildren
  <2>1. inc'[h] = inc[h] \/ inc'[h] = Signalled(inc[h], "Cascade")
    BY <1>0, <1>11 DEF TerminateChildren
  <2> QED BY <1>5, <2>1
<1>12. \/ \E g \in Handle : \/ Fault(g) \/ Obey(g) \/ Build(g)
                            \/ Report(g) \/ StrayStopped(g) \/ CallerAnswered(g) \/ AskToRegister(g)
       \/ (\E t : AskSibling(t)) \/ (\E c : Create(c))
       \/ ReleaserReturns \/ ReceiveRegister \/ ReceiveStarted \/ TerminateChildren
  <2>1. inc' # inc
    OBVIOUS
  <2>2. CASE Loop
    BY <2>1, <2>2 DEF Loop, LaunchStart, ReceiveUnregister, ReceiveDue, NoticeSettled,
       NoticeEscalates, NoticeRestarts, ReceiveStop, LeaveLoop, Stopped, childVars
  <2>3. ASSUME NEW t, SiblingDown(t) \/ SendDue(t) \/ AbandonBackoff(t)
        PROVE  FALSE
    BY <2>1, <2>3 DEF SiblingDown, SendDue, AbandonBackoff, childVars
  <2>4. ASSUME NEW n, SuperviseDeferred(n) \/ AskToRelease(n)
        PROVE  FALSE
    BY <2>1, <2>4 DEF SuperviseDeferred, AskToRelease, childVars
  <2>5. ASSUME NEW n, Hire(n) PROVE \E c : Create(c)
    BY <2>5 DEF Hire
  <2>6. CASE AskSupervisorToStop \/ UNCHANGED vars
    BY <2>1, <2>6 DEF AskSupervisorToStop, vars, childVars
  <2> QED BY <2>2, <2>3, <2>4, <2>5, <2>6 DEF Next, Tasks, Environment
<1> QED BY <1>1, <1>2, <1>4, <1>6, <1>7, <1>8, <1>9, <1>10, <1>11, <1>12

\* Where a child of a caller comes from: supervise_with's children are restartable,
\* supervise's are not, and there is one of each of their names.
CallersNames ==
    /\ \A h \in Handle : inc[h].holder \in {"hirer", "waiting", "accepted", "refused"} =>
         inc[h].name \in Hired
    /\ \A k \in 1..Len(inbox) :
         inbox[k].type = "RegisterSupervisedChild" /\ inbox[k].restartable =>
             inbox[k].name \in Hired
AdoptedOnce ==
    \A h \in 1..born : inc[h].name \in Adopted => kids[inc[h].name] = h
MayBeLaunched == {"Pending", "AwaitingBackoff", "AwaitingRestart", "StopThenRestart"}
NeverRelaunched ==
    \A i \in Taken : slots[i].ern \in Adopted =>
        /\ ~slots[i].restartable
        /\ slots[i].state \notin MayBeLaunched

LEMMA CallersNamesStep ==
    ASSUME SupInv, CallersNames, [Next]_vars
    PROVE  CallersNames'
<1>0. SupStep /\ ChildrenStep
  BY NextKeeps DEF SupStep
<1>1. ASSUME NEW h \in Handle, inc'[h].holder \in {"hirer", "waiting", "accepted", "refused"}
      PROVE  inc'[h].name \in Hired
  <2>1. CASE h \in 1..born
    <3>1. inc'[h].name = inc[h].name /\ inc[h] \in Child
      BY <1>0, <2>1, BornHandles, ChildrenKeep
    <3>2. CASE inc'[h].holder = inc[h].holder
      BY <1>1, <3>1, <3>2 DEF CallersNames
    <3>3. CASE Report(h) \/ StrayStopped(h) \/ CallerAnswered(h)
      <4>1. PICK d \in Child, holder \in {"nobody", "stray"} : inc' = [inc EXCEPT ![h] = Held(d, holder)]
        <5>1. PICK d : d = Signalled(inc[h], "Terminate")
          OBVIOUS
        <5>2. d \in Child
          BY <3>1, <5>1, Told
        <5> QED BY <3>1, <3>3, <5>1, <5>2 DEF Report, StrayStopped, CallerAnswered
      <4>2. inc'[h].holder = holder
        BY <4>1, BornHandles DEF Held, Child
      <4> QED BY <1>1, <4>1, <4>2
    <3>4. CASE AskToRegister(h)
      <4>1. CASE inc[h].holder = "hirer"
        BY <3>1, <4>1 DEF CallersNames
      <4>2. CASE inc[h].holder = "adopter"
        <5>1. PICK holder \in {"nobody", "owner"} : inc' = [inc EXCEPT ![h] = Held(inc[h], holder)]
          BY <3>4, <4>2 DEF AskToRegister
        <5>2. inc'[h].holder = holder
          BY <3>1, <5>1, BornHandles DEF Held, Child
        <5> QED BY <1>1, <5>1, <5>2
      <4> QED BY <3>4, <4>1, <4>2 DEF AskToRegister
    <3>5. CASE ReceiveRegister /\ Head(inbox).inc = h /\ Head(inbox).restartable
      <4>1. PICK m : m = Head(inbox)
        OBVIOUS
      <4>2. /\ inbox # <<>> /\ m.type = "RegisterSupervisedChild"
            /\ m.inc = h /\ m.restartable
        BY <3>5, <4>1 DEF ReceiveRegister, Receive
      <4>3. 1 \in 1..Len(inbox) /\ inbox[1] = m
        BY <4>1, <4>2 DEF SupInv, SupTypeOK
      <4>4. m.name \in Hired
        BY <4>2, <4>3 DEF CallersNames
      <4>5. inc[h].name = m.name
        BY <4>1, <4>2, HeadRefers DEF MessageRefers, Born
      <4> QED BY <3>1, <4>4, <4>5
    <3>6. CASE (Build(h) /\ inc'[h].life = "dead" /\ inc'[h].holder # inc[h].holder)
      <4>1. \/ inc' = [inc EXCEPT ![h].life = "live"]
            \/ inc' = [inc EXCEPT ![h].life = "dead", ![h].holder = "failed"]
            \/ inc' = [inc EXCEPT ![h].life = "dead", ![h].holder = "nobody"]
        BY <3>6 DEF Build
      <4>2. inc'[h].holder \in {"failed", "nobody"}
        BY <3>1, <3>6, <4>1, BornHandles DEF Child
      <4> QED BY <1>1, <4>2
    <3> QED BY <1>1, <2>1, <3>2, <3>3, <3>4, <3>5, <3>6, WhoHandsOver
  <2>2. CASE h \notin 1..born /\ (born' = born \/ h # born')
    <3>1. inc'[h] = inc[h] /\ inc[h] = Unborn
      BY <1>0, <2>2, BornHandles DEF ChildrenStep, Handle
    <3> QED BY <1>1, <3>1, UnbornFields
  <2>3. CASE born' # born /\ h = born'
    BY <1>1, <2>3, Creators
  <2> QED BY <2>1, <2>2, <2>3
<1>2. ASSUME NEW k \in 1..Len(inbox'), inbox'[k].type = "RegisterSupervisedChild",
             inbox'[k].restartable
      PROVE  inbox'[k].name \in Hired
  <2>0. inbox \in Seq(Message) /\ Len(inbox) \in Nat
    BY DEF SupInv, SupTypeOK
  <2>1. CASE inbox' = inbox
    BY <1>2, <2>1 DEF CallersNames
  <2>2. CASE Receives
    <3>1. inbox # <<>> /\ inbox' = Tail(inbox)
      BY <2>2, ReceivesTakes
    <3>2. inbox'[k] = inbox[k + 1] /\ k + 1 \in 1..Len(inbox)
      BY <1>2, <2>0, <3>1
    <3> QED BY <1>2, <3>2 DEF CallersNames
  <2>3. CASE TerminateChildren
    BY <1>2, <2>3 DEF TerminateChildren
  <2>4. ASSUME NEW m, inbox' = Append(inbox, m), Sent(m) PROVE inbox'[k].name \in Hired
    <3>1. (k \in 1..Len(inbox) /\ inbox'[k] = inbox[k]) \/ inbox'[k] = m
      BY <1>2, <2>0, <2>4
    <3>2. CASE inbox'[k] = m
      <4>1. PICK h \in Handle : AskToRegister(h) /\ m = RegisterMsg(h, inc[h].holder = "hirer")
        BY <1>2, <2>4, <3>2 DEF Sent, StartedMsg, UnregisterMsg
      <4>2. PICK r : r = (inc[h].holder = "hirer")
        OBVIOUS
      <4>3. m = RegisterMsg(h, r)
        BY <4>1, <4>2
      <4>4. m.restartable = r /\ m.name = inc[h].name
        BY <4>3 DEF RegisterMsg
      <4>5. m.restartable
        BY <1>2, <3>2
      <4>6. r
        BY ONLY <4>4, <4>5
      <4>7. inc[h].holder = "hirer"
        BY ONLY <4>2, <4>6
      <4>8. inc[h].name \in Hired
        BY <4>7 DEF CallersNames
      <4> QED BY <3>2, <4>4, <4>8
    <3> QED BY <1>2, <3>1, <3>2 DEF CallersNames
  <2> QED BY <2>1, <2>2, <2>3, <2>4, InboxMoves
<1> QED BY <1>1, <1>2 DEF CallersNames

\* The children map only grows.
LEMMA KidsStay ==
    ASSUME SupInv, [Next]_vars
    PROVE  \/ kids' = kids
           \/ \E n \in Name : NeverBuilt(n) /\ born' # born /\ kids' = [kids EXCEPT ![n] = Fresh]
<1>1. CASE Loop
  BY <1>1 DEF Loop, LaunchStart, ReceiveRegister, ReceiveStarted, ReceiveUnregister, ReceiveDue,
     NoticeSettled, NoticeEscalates, NoticeRestarts, ReceiveStop, LeaveLoop,
     TerminateChildren, Stopped, taskVars
<1>2. ASSUME NEW h, \/ Build(h) \/ Report(h) \/ StrayStopped(h) \/ CallerAnswered(h)
                    \/ Fault(h) \/ AskToRegister(h) \/ Obey(h)
      PROVE  kids' = kids
  BY <1>2 DEF Build, Report, StrayStopped, CallerAnswered, Fault, AskToRegister, Obey, taskVars
<1>3. ASSUME NEW t, AskSibling(t) \/ SiblingDown(t) \/ SendDue(t) \/ AbandonBackoff(t)
      PROVE  kids' = kids
  BY <1>3 DEF AskSibling, SiblingDown, SendDue, AbandonBackoff
<1>4. ASSUME NEW n, SuperviseDeferred(n) \/ AskToRelease(n) PROVE kids' = kids
  BY <1>4 DEF SuperviseDeferred, AskToRelease, taskVars
<1>5. ASSUME NEW n \in Name, Hire(n)
      PROVE  \/ kids' = kids
             \/ NeverBuilt(n) /\ born' # born /\ kids' = [kids EXCEPT ![n] = Fresh]
  BY <1>5, BornHandles DEF Hire, Create, Fresh
<1>6. CASE AskSupervisorToStop \/ ReleaserReturns \/ UNCHANGED vars
  BY <1>6 DEF AskSupervisorToStop, ReleaserReturns, vars, taskVars
<1> QED BY <1>1, <1>2, <1>3, <1>4, <1>5, <1>6 DEF Next, Tasks, Environment

LEMMA AdoptedOnceStep ==
    ASSUME SupInv, AdoptedOnce, NeverRelaunched, Adopted \cap Hired = {}, [Next]_vars
    PROVE  AdoptedOnce'
<1>0. ChildrenStep /\ kids \in [Name -> Handle \cup {NoHandle}]
  BY NextKeeps DEF SupStep, SupInv, SupTypeOK
<1> SUFFICES ASSUME NEW h \in 1..born', NEW n, n = inc'[h].name, n \in Adopted
             PROVE  kids'[n] = h
  BY DEF AdoptedOnce
<1>1. n \in Name
  BY SupervisionConstants
<1>2. CASE h \in 1..born
  <2>1. inc[h].name = n /\ kids[n] = h
    BY <1>0, <1>2, ChildrenKeep DEF AdoptedOnce
  <2>2. ASSUME NEW x \in Name, NeverBuilt(x), kids' = [kids EXCEPT ![x] = Fresh]
        PROVE  kids'[n] = kids[n]
    <3>1. x # n
      BY <1>2, <2>1, <2>2 DEF NeverBuilt
    <3> QED BY <1>0, <1>1, <2>2, <3>1
  <2> QED BY <2>1, <2>2, KidsStay
<1>3. CASE h \notin 1..born
  <2>1. h = born' /\ born' # born
    BY <1>0, <1>3, BornHandles DEF ChildrenStep
  <2>2. CASE /\ Launchable(Head(pending)) /\ Head(pending) \in Index
             /\ n = slots[Head(pending)].ern
    <3>1. PICK i : i = Head(pending)
      OBVIOUS
    <3>2. i \in Taken
      BY <2>2, <3>1, OneOfAName
    <3> QED BY <2>2, <3>1, <3>2 DEF NeverRelaunched, MayBeLaunched, Launchable
  <2>3. CASE kids' = [kids EXCEPT ![n] = born']
    BY <1>0, <1>1, <2>1, <2>3
  <2> QED BY <2>1, <2>2, <2>3, Creators
<1> QED BY <1>2, <1>3

LEMMA NeverRelaunchedStep ==
    ASSUME SupInv, CallersNames, NeverRelaunched, Adopted \cap (Hired \cup Deferred) = {},
           [Next]_vars
    PROVE  NeverRelaunched'
<1>0. SupStep /\ RegInv
  BY NextKeeps DEF SupInv
<1> SUFFICES ASSUME NEW i \in Taken', slots'[i].ern \in Adopted
             PROVE  ~slots'[i].restartable /\ slots'[i].state \notin MayBeLaunched
  BY DEF NeverRelaunched
<1>1. CASE i \in Taken
  <2>1. i \in Index /\ slots[i].ern = slots'[i].ern /\ slots[i].state # "Unused"
    BY <1>0, <1>1, TakenSlots DEF SupStep, RegStep, RegInv, NamesLeadToTheirSlots
  <2>2. ~slots[i].restartable /\ slots[i].state \notin MayBeLaunched
    BY <1>1, <2>1 DEF NeverRelaunched
  <2>3. Moves(i) /\ slots'[i].restartable = slots[i].restartable
    BY <1>1, SlotMoves
  <2> QED BY <2>2, <2>3 DEF Moves, Unmoved, Launched, CameUp, Ended, LetGo, CameDue,
          ToldToStop, Parked, MayBeLaunched, Launchable, ExpectedStop
<1>2. CASE i \notin Taken
  <2>1. used' # used
    BY <1>2 DEF Taken
  <2>2. i = used'
    <3>1. used' = used + 1 /\ used \in Nat
      BY <2>1, RecordsAdded DEF SupInv, SupTypeOK, RegTypeOK
    <3> QED BY <1>2, <3>1 DEF Taken
  <2>3. PICK m : m = Head(inbox)
    OBVIOUS
  <2>4. /\ ReceiveRegister /\ slots'[i].state = "Running" /\ slots'[i].ern = m.name
        /\ slots'[i].restartable = m.restartable
    BY <2>1, <2>2, <2>3, RecordsAdded DEF SuperviseDeferred
  <2>5. inbox # <<>> /\ m.type = "RegisterSupervisedChild"
    BY <2>3, <2>4 DEF ReceiveRegister, Receive
  <2>6. 1 \in 1..Len(inbox) /\ inbox[1] = m
    BY <2>3, <2>5 DEF SupInv, SupTypeOK
  <2>7. ~m.restartable
    BY <2>4, <2>5, <2>6 DEF CallersNames
  <2> QED BY <2>4, <2>7 DEF MayBeLaunched
<1> QED BY <1>1, <1>2

\* Which messages take a running child off its record.
LEMMA OnRecordUntilNews ==
    ASSUME SupInv, [Next]_vars,
           NEW i \in Index, slots[i].handle # NoHandle, slots[i].state \notin ExpectedStop
    PROVE  \/ slots'[i].handle = slots[i].handle
           \/ ReceiveUnregister /\ Supervised(Head(inbox).name) /\ byErn[Head(inbox).name] = i
           \/ Receives /\ Head(inbox).type = "ChildTerminated"
                       /\ Head(inbox).name = slots[i].ern
<1>1. slots[i].state = "Running" /\ i \in Taken
  BY TakenSlots DEF Sound, SupInv
<1> QED BY <1>1, SlotMoves DEF Moves, Unmoved, Launched, CameUp, Ended, NoticeRead, LetGo,
        CameDue, ToldToStop, Parked, Launchable, Owed, ExpectedStop

\* A child nobody could record was told to stop; the legacy caller's child is the
\* one the children map has.
HandsHold ==
    \A h \in Handle :
        /\ inc[h].holder = "stray" /\ Up(h) => inc[h].signals # {}
        /\ inc[h].holder = "adopter" => inc[h].name \in Adopted

\* What a report leaves of a child that could not be delivered.
LEMMA Disowned ==
    ASSUME NEW c \in Child, c.life # "building", NEW d, d = Held(Signalled(c, "Terminate"), "stray")
    PROVE  d.life = c.life /\ d.holder = "stray" /\ (d.life \in {"building", "live"} => d.signals # {})
<1>1. PICK e : e = Signalled(c, "Terminate")
  OBVIOUS
<1>2. e \in Child /\ e.life = c.life /\ (c.life = "live" => e.signals # {})
  BY <1>1, Told
<1>3. d = Held(e, "stray")
  BY <1>1
<1>4. d.life = e.life /\ d.signals = e.signals /\ d.holder = "stray"
  BY <1>2, <1>3 DEF Held, Child
<1> QED BY <1>2, <1>4

LEMMA ReportHands ==
    ASSUME SupInv, NEW h \in Handle, Report(h), Up(h)'
    PROVE  /\ inc'[h] = IF inboxOpen THEN Held(inc[h], "nobody")
                                     ELSE Held(Signalled(inc[h], "Terminate"), "stray")
           /\ inc[h] \in Child /\ inc[h].life = "live" /\ inc[h].holder = "starter"
<1>1. inc[h] \in Child /\ Sane(inc[h]) /\ inc \in [Handle -> Child]
  BY BornHandles
<1>2. PICK d : d = IF inboxOpen \/ inc[h].holder = "failed"
                   THEN Held(inc[h], "nobody")
                   ELSE Held(Signalled(inc[h], "Terminate"), "stray")
  OBVIOUS
<1>3. inc'[h] = d /\ inc[h].holder \in {"starter", "failed"} /\ inc[h].life \in {"live", "dead"}
  BY <1>1, <1>2 DEF Report
<1>4. d.life = inc[h].life
  <2>1. Held(inc[h], "nobody").life = inc[h].life
    BY <1>1 DEF Held, Child
  <2>2. inc[h].life # "building"
    BY <1>3
  <2>3. PICK e : e = Held(Signalled(inc[h], "Terminate"), "stray")
    OBVIOUS
  <2>4. e.life = inc[h].life
    BY <1>1, <2>2, <2>3, Disowned
  <2> QED BY <1>2, <2>1, <2>3, <2>4
<1>5. inc[h].life = "live"
  BY <1>3, <1>4 DEF Up
<1> QED BY <1>1, <1>2, <1>3, <1>5 DEF Sane

LEMMA HandsHoldStep ==
    ASSUME SupInv, HandsHold, [Next]_vars
    PROVE  HandsHold'
<1>0. SupInv' /\ ChildrenStep
  BY NextKeeps DEF SupStep
<1> SUFFICES ASSUME NEW h \in Handle
             PROVE  /\ inc'[h].holder = "stray" /\ Up(h)' => inc'[h].signals # {}
                    /\ inc'[h].holder = "adopter" => inc'[h].name \in Adopted
  BY DEF HandsHold
<1>1. CASE h \in 1..born
  <2>1. ChildStep(inc[h], inc'[h]) /\ inc[h] \in Child /\ inc'[h] \in Child
    BY <1>0, <1>1, BornHandles DEF ChildrenStep
  <2>2. inc'[h].holder = "adopter" => inc'[h].name \in Adopted
    BY <2>1 DEF ChildStep, HandsHold
  <2>3. ASSUME inc'[h].holder = "stray", Up(h)' PROVE inc'[h].signals # {}
    <3>1. CASE inc[h].holder = "stray"
      <4>1. Up(h)
        BY <2>1, <2>3 DEF Up, ChildStep, Child, Lives
      <4> QED BY <2>1, <3>1, <4>1 DEF HandsHold, ChildStep
    <3>2. CASE Report(h)
      <4>1. PICK d, e : /\ d = Held(inc[h], "nobody")
                        /\ e = Held(Signalled(inc[h], "Terminate"), "stray")
        OBVIOUS
      <4>2. inc'[h] \in {d, e} /\ inc[h].life # "building"
        BY <2>3, <3>2, <4>1, ReportHands
      <4>3. d.holder = "nobody"
        BY <2>1, <4>1 DEF Held, Child
      <4>4. e.life \in {"building", "live"} => e.signals # {}
        BY <2>1, <4>1, <4>2, Disowned
      <4> QED BY <2>3, <4>2, <4>3, <4>4 DEF Up
    <3>3. CASE ReceiveStarted /\ Head(inbox).inc = h
      <4>1. PICK m : m = Head(inbox)
        OBVIOUS
      <4>2. inbox # <<>> /\ m.type = "SupervisedChildStarted" /\ m.inc = h
        BY <3>3, <4>1 DEF ReceiveStarted, Receive
      <4>3. MessageRefers(m)
        BY <4>1, <4>2, HeadRefers
      <4>4. Kept(h) /\ h # NoHandle
        BY <4>2, <4>3, BornHandles DEF MessageRefers
      <4>5. inc[h].life # "building"
        BY <4>4, BornHandles DEF Sane, Kept
      <4>6. inc' = inc \/ inc' = [inc EXCEPT ![h] = Held(Signalled(inc[h], "Terminate"), "stray")]
        BY <3>3, <4>1, <4>2, <4>4 DEF ReceiveStarted
      <4>7. CASE inc' = inc
        BY <2>3, <3>1, <4>7
      <4>8. CASE inc' = [inc EXCEPT ![h] = Held(Signalled(inc[h], "Terminate"), "stray")]
        <5>1. PICK e : e = Held(Signalled(inc[h], "Terminate"), "stray")
          OBVIOUS
        <5>2. inc'[h] = e
          BY <4>8, <5>1, BornHandles
        <5> QED BY <2>1, <2>3, <4>5, <5>1, <5>2, Disowned DEF Up
      <4> QED BY <4>6, <4>7, <4>8
    <3>4. CASE StrayStopped(h) \/ CallerAnswered(h)
      <4>1. PICK d \in Child : inc' = [inc EXCEPT ![h] = Held(d, "nobody")]
        <5>1. PICK d : d = Signalled(inc[h], "Terminate")
          OBVIOUS
        <5>2. d \in Child
          BY <2>1, <5>1, Told
        <5> QED BY <2>1, <3>4, <5>1, <5>2 DEF StrayStopped, CallerAnswered
      <4>2. inc'[h].holder = "nobody"
        BY <4>1, BornHandles DEF Held, Child
      <4> QED BY <2>3, <4>2
    <3>5. CASE AskToRegister(h)
      <4>1. PICK holder \in {"waiting", "nobody", "owner"} : inc' = [inc EXCEPT ![h] = Held(inc[h], holder)]
        BY <3>5 DEF AskToRegister
      <4>2. inc'[h].holder = holder
        BY <2>1, <4>1, BornHandles DEF Held, Child
      <4> QED BY <2>3, <4>2
    <3>6. CASE ReceiveRegister /\ Head(inbox).inc = h /\ Head(inbox).restartable
      <4>1. PICK holder \in {"accepted", "refused"} : inc' = [inc EXCEPT ![h] = Held(inc[h], holder)]
        BY <3>6 DEF ReceiveRegister
      <4>2. inc'[h].holder = holder
        BY <2>1, <4>1, BornHandles DEF Held, Child
      <4> QED BY <2>3, <4>2
    <3>7. ~(inc'[h].life = "dead") /\ ~(inc'[h].holder = "owner")
      BY <2>3 DEF Up
    <3> QED BY <1>1, <2>3, <3>1, <3>2, <3>3, <3>4, <3>5, <3>6, <3>7, WhoHandsOver
  <2> QED BY <2>2, <2>3
<1>2. CASE h \notin 1..born /\ (born' = born \/ h # born')
  <2>1. inc'[h] = inc[h] /\ inc[h] = Unborn
    BY <1>0, <1>2, BornHandles DEF ChildrenStep, Handle
  <2> QED BY <2>1, UnbornFields
<1>3. CASE born' # born /\ h = born'
  <2>1. CASE inc'[h].holder \in {"starter", "hirer"}
    BY <2>1
  <2>2. ASSUME NEW n \in Name, inc'[h].name = n, inc'[h].holder = "adopter", kids' = [kids EXCEPT ![n] = h]
        PROVE  n \in Adopted
    <3>1. kids'[n] = h
      BY <2>2 DEF SupInv, SupTypeOK
    <3> QED BY <1>0, <3>1, BornHandles DEF SupInv, ReferencesHold
  <2> QED BY <1>3, <2>1, <2>2, Creators
<1> QED BY <1>1, <1>2, <1>3

\* Whoever lets a child out of his hands puts it on record, or its stop has been
\* waited for, or a caller returns.
LEMMA HandsOver ==
    ASSUME SupInv, HandsHold, InboxShut, AdoptedOnce, [Next]_vars,
           NEW h \in 1..born, Up(h)', inc'[h].holder # inc[h].holder,
           inc'[h].holder \in {"nobody", "accepted"}
    PROVE  \/ OnRecord(h)' /\ phase = "loop" /\ phase' = "loop"
           \/ StrayStopped(h) \/ CallerAnswered(h)
<1>0. /\ SupInv' /\ ChildStep(inc[h], inc'[h]) /\ inc[h] \in Child /\ inc'[h] \in Child
      /\ h \in Handle /\ Sane(inc[h]) /\ inc \in [Handle -> Child]
      /\ inc'[h].name = inc[h].name
  BY NextKeeps, BornHandles, ChildrenKeep DEF SupStep, ChildrenStep
<1>1. inboxOpen => phase = "loop"
  BY DEF InboxShut
<1>2. CASE Report(h)
  <2>1. PICK d, e : d = Held(inc[h], "nobody") /\ e = Held(Signalled(inc[h], "Terminate"), "stray")
    OBVIOUS
  <2>2. inc'[h] = (IF inboxOpen THEN d ELSE e) /\ inc[h].life = "live"
    BY <1>0, <1>2, <2>1, ReportHands
  <2>3. CASE ~inboxOpen
    <3>1. inc'[h].holder = "stray"
      BY <1>0, <2>1, <2>2, <2>3, Disowned
    <3> QED BY <3>1
  <2>4. CASE inboxOpen
    <3>1. Busy(h) /\ inc[h].holder = "starter"
      BY <1>0, <1>2, ReportHands DEF Busy
    <3>2. PICK m : m = StartedMsg(h)
      OBVIOUS
    <3>3. m.type = "SupervisedChildStarted" /\ m.inc = h
      BY <3>1, <3>2 DEF StartedMsg
    <3>4. inbox' = Append(inbox, m) /\ phase' = phase
      BY <1>2, <2>4, <3>2 DEF Report, Deliver
    <3>5. InInbox(m)'
      BY <3>4, MessageSent
    <3>6. m \in Message
      BY <1>0, <3>5 DEF InInbox, SupInv, SupTypeOK
    <3> QED BY <1>1, <2>4, <3>3, <3>4, <3>5, <3>6 DEF OnRecord
  <2> QED BY <2>3, <2>4
<1>3. CASE AskToRegister(h)
  <2>1. PICK holder : /\ inc' = [inc EXCEPT ![h] = Held(inc[h], holder)]
                      /\ \/ holder \in {"waiting", "owner"}
                         \/ holder = "nobody" /\ inboxOpen /\ inc[h].holder = "adopter"
    BY <1>3 DEF AskToRegister
  <2>2. inc'[h].holder = holder
    BY <1>0, <2>1 DEF Held, Child
  <2>3. CASE holder \in {"waiting", "owner"}
    BY <2>2, <2>3
  <2>4. CASE inboxOpen /\ inc[h].holder = "adopter"
    <3>1. kids[inc[h].name] = h
      BY <1>0, <2>4 DEF HandsHold, AdoptedOnce
    <3>2. kids' = kids /\ phase' = phase
      BY <1>3 DEF AskToRegister, taskVars
    <3> QED BY <1>0, <1>1, <2>4, <3>1, <3>2 DEF OnRecord
  <2> QED BY <2>1, <2>3, <2>4
<1>4. CASE ReceiveRegister /\ Head(inbox).inc = h /\ Head(inbox).restartable
  <2>1. PICK m : m = Head(inbox)
    OBVIOUS
  <2>2. /\ m.inc = h /\ m.restartable /\ m.type = "RegisterSupervisedChild" /\ inbox # <<>>
        /\ phase = "loop" /\ phase' = phase
    BY <1>4, <2>1 DEF ReceiveRegister, Receive, Waiting
  <2>3. CASE Supervised(m.name)
    <3>1. inc' = [inc EXCEPT ![h] = Held(inc[h], "refused")]
      BY <1>4, <2>1, <2>2, <2>3 DEF ReceiveRegister
    <3>2. inc'[h].holder = "refused"
      BY <1>0, <3>1 DEF Held, Child
    <3> QED BY <3>2
  <2>4. CASE ~Supervised(m.name)
    <3>1. Register(m.name, m.inc, m.restartable)
      BY <1>4, <2>1, <2>4 DEF ReceiveRegister, RegisterDuplicate
    <3>2. used' = used + 1
      BY <3>1 DEF Register, AddSlot
    <3>3. used' # used
      BY <3>2 DEF SupInv, SupTypeOK, RegTypeOK
    <3>4. ~(\E n \in Name : SuperviseDeferred(n))
      <4>1. inbox' = Tail(inbox) /\ inbox # <<>>
        BY <1>4 DEF ReceiveRegister, Receive
      <4>2. Tail(inbox) # inbox
        <5>1. inbox \in Seq(Message)
          BY DEF SupInv, SupTypeOK
        <5>2. Len(Tail(inbox)) = Len(inbox) - 1 /\ Len(inbox) \in Nat
          BY <4>1, <5>1
        <5>3. Len(Tail(inbox)) # Len(inbox)
          BY ONLY <5>2
        <5> QED BY <5>3
      <4> QED BY <4>1, <4>2 DEF SuperviseDeferred, loopVars
    <3>5. used' \in Index /\ slots'[used'].handle = h
      BY <2>1, <2>2, <3>3, <3>4, RecordsAdded
    <3> QED BY <2>2, <3>5 DEF OnRecord
  <2> QED BY <2>3, <2>4
<1>5. CASE Build(h) /\ inc'[h].life = "dead"
  BY <1>5 DEF Up
<1>6. inc'[h].holder \notin {"stray", "owner"}
  OBVIOUS
<1> QED BY <1>2, <1>3, <1>4, <1>5, <1>6, WhoHandsOver

\* A child in somebody's hands stays there, or is put on record.
LEMMA InHandStep ==
    ASSUME SupInv, HandsHold, InboxShut, OneRequest, AdoptedOnce, StopsAreSent, [Next]_vars,
           NEW h \in 1..born, Up(h)', InHand(h)
    PROVE  InHand(h)' \/ (OnRecord(h)' /\ phase = "loop" /\ phase' = "loop")
<1>0. /\ SupInv' /\ ChildStep(inc[h], inc'[h]) /\ inc[h] \in Child /\ inc'[h] \in Child
      /\ h \in Handle /\ Sane(inc[h]) /\ inc \in [Handle -> Child]
      /\ inc'[h].name = inc[h].name
  BY NextKeeps, BornHandles, ChildrenKeep DEF SupStep, ChildrenStep
<1>1. Up(h) /\ (inc[h].life = "building" => inc[h].holder = "starter")
  BY <1>0 DEF Up, ChildStep, Child, Lives, Sane
<1>2. CASE inc[h].signals # {}
  BY <1>0, <1>2 DEF InHand, ChildStep
<1>3. CASE inc[h].holder \notin {"nobody", "accepted"} /\ inc'[h].holder = inc[h].holder
  BY <1>3 DEF InHand
<1>4. CASE inc[h].holder \notin {"nobody", "accepted"} /\ inc'[h].holder # inc[h].holder
  <2>1. CASE StrayStopped(h)
    <3>1. inc[h].holder = "stray"
      BY <2>1 DEF StrayStopped
    <3> QED BY <1>0, <1>1, <1>2, <3>1 DEF HandsHold
  <2>2. CASE CallerAnswered(h)
    <3>1. PICK d : d = Signalled(inc[h], "Terminate")
      OBVIOUS
    <3>2. d \in Child /\ (inc[h].life = "live" => d.signals # {})
      BY <1>0, <3>1, Told
    <3>3. inc'[h] = Held(d, "nobody") /\ inc[h].holder # "starter"
      BY <1>0, <1>4, <2>2, <3>1 DEF CallerAnswered
    <3>4. inc'[h].signals = d.signals
      BY <3>2, <3>3 DEF Held, Child
    <3> QED BY <1>1, <3>2, <3>3, <3>4 DEF Up, InHand
  <2>3. CASE inc'[h].holder \notin {"nobody", "accepted"}
    BY <2>3 DEF InHand
  <2> QED BY <1>4, <2>1, <2>2, <2>3, HandsOver
<1>5. CASE inc[h].holder \in {"nobody", "accepted"} /\ releaser.got = h /\ releaser.at = "answered"
  <2>1. CASE releaser' = releaser
    BY <1>5, <2>1 DEF InHand
  <2>2. CASE ReceiveUnregister
    <3>1. inbox # <<>> /\ Head(inbox).type = "UnregisterSupervisedChild"
      BY <2>2 DEF ReceiveUnregister, Receive
    <3>2. 1 \in 1..Len(inbox) /\ inbox[1] = Head(inbox)
      BY <3>1 DEF SupInv, SupTypeOK
    <3> QED BY <1>5, <3>1, <3>2 DEF OneRequest, IsRequest
  <2>3. CASE ReleaserReturns
    <3>1. PICK d, e : d = Signalled(inc[h], "Terminate") /\ e = Held(inc[h], "owner")
      OBVIOUS
    <3>2. inc'[h] = d \/ inc'[h] = e
      BY <1>0, <1>5, <2>3, <3>1 DEF ReleaserReturns
    <3>3. e.holder = "owner"
      BY <1>0, <3>1 DEF Held, Child
    <3>4. d.signals # {}
      BY <1>0, <1>1, <1>5, <3>1, Told DEF Up
    <3> QED BY <3>2, <3>3, <3>4 DEF InHand
  <2>4. CASE \E n \in Name : AskToRelease(n)
    BY <1>5, <2>4 DEF AskToRelease
  <2> QED BY <2>1, <2>2, <2>3, <2>4, ReleaserMoves
<1>6. CASE OnAList(h)
  <2>1. StopSent(h)' \/ OnAList(h)'
    BY <1>6, ListsAreKept
  <2> QED BY <2>1 DEF InHand, StopSent, Up
<1> QED BY <1>2, <1>3, <1>4, <1>5, <1>6 DEF InHand

\* The shutdown finds everybody it has on record.
LEMMA RecordedAreFound ==
    ASSUME SupInv, InboxShut, AdoptedOnce, TerminateChildren, NEW h \in 1..born, OnRecord(h)
    PROVE  h \in ShutdownChildren
<1>0. /\ h \in Handle /\ inc[h] \in Child /\ Sane(inc[h]) /\ RegInv /\ NoHandle \notin Handle
  BY BornHandles DEF SupInv
<1>1. inbox = <<>>
  BY DEF InboxShut, TerminateChildren
<1>2. CASE \E i \in Index : slots[i].handle = h
  <2>1. PICK i \in Index : slots[i].handle = h
    BY <1>2
  <2>2. i \in Taken /\ slots[i].state # "Retired"
    BY <1>0, <2>1, TakenSlots DEF Sound, ExpectedStop
  <2>3. h \in LiveHandles
    BY <1>0, <2>1, <2>2 DEF LiveHandles
  <2>4. h \in ShutdownChildren
    BY <2>3 DEF ShutdownChildren
  <2> QED BY <2>4
<1>3. CASE kids[inc[h].name] = h
  <2>1. PICK n : n = inc[h].name
    OBVIOUS
  <2>2. n \in Name /\ n \in Adopted
    BY <1>0, <1>3, <2>1 DEF Child, SupInv, ReferencesHold
  <2>3. CASE n \in NamesOf(LiveHandles)
    <3>1. PICK g \in LiveHandles : inc[g].name = n
      BY <2>3 DEF NamesOf
    <3>2. g \in 1..born
      <4>1. PICK i \in Index : slots[i].handle = g /\ g # NoHandle
        BY <1>0, <3>1, TakenSlots DEF LiveHandles
      <4> QED BY <4>1 DEF SupInv, ReferencesHold, SlotRefers, Born
    <3>3. g = h
      BY <1>3, <2>1, <2>2, <3>1, <3>2 DEF AdoptedOnce
    <3>4. h \in ShutdownChildren
      BY <3>1, <3>3 DEF ShutdownChildren
    <3> QED BY <3>4
  <2>4. CASE n \notin NamesOf(LiveHandles)
    <3>1. h \in {kids[x] : x \in Name \ NamesOf(LiveHandles)} \ {NoHandle}
      BY <1>0, <1>3, <2>1, <2>2, <2>4
    <3>2. h \in ShutdownChildren
      BY <3>1 DEF ShutdownChildren
    <3> QED BY <3>2
  <2> QED BY <2>3, <2>4
<1>4. ~(\E m \in Message : InInbox(m))
  BY <1>1 DEF InInbox
<1> QED BY <1>2, <1>3, <1>4 DEF OnRecord

LEMMA RecordedAreTold ==
    ASSUME SupInv, InboxShut, AdoptedOnce, TerminateChildren, NEW h \in 1..born, Up(h)',
           OnRecord(h)
    PROVE  InHand(h)'
<1>1. h \in Handle /\ inc[h] \in Child /\ Sane(inc[h]) /\ h \in ShutdownChildren
  BY BornHandles, RecordedAreFound
<1>2. PICK d : d = Signalled(inc[h], "Cascade")
  OBVIOUS
<1>3. inc'[h] = d
  BY <1>1, <1>2 DEF TerminateChildren
<1>4. d.life = inc[h].life /\ d.holder = inc[h].holder /\ (inc[h].life = "live" => d.signals # {})
  BY <1>1, <1>2, Told
<1> QED BY <1>1, <1>3, <1>4 DEF Up, InHand, Sane

\* Disowned by the supervisor, or handed to the caller that lets it go.
Passed(h) ==
    \/ inc[h].holder = "stray"
    \/ releaser.got = h /\ releaser.at = "answered"

\* A child on record stays there, or passes into somebody's hands.  The notice that
\* takes a running child off its record is its own: nobody up has one on its way.
LEMMA OnRecordStep ==
    ASSUME SupInv, TokenInv, [Next]_vars, ~TerminateChildren,
           NEW h \in 1..born, Up(h), OnRecord(h),
           \A i \in Index : slots[i].handle = h => slots[i].state \notin ExpectedStop
    PROVE  OnRecord(h)' \/ Passed(h)'
<1>0. /\ SupInv' /\ h \in Handle /\ inc[h] \in Child /\ NoHandle \notin Handle
      /\ inc'[h].name = inc[h].name /\ inc \in [Handle -> Child]
  BY NextKeeps, BornHandles, ChildrenKeep DEF SupStep
<1>1. ASSUME NEW i \in Index, slots[i].handle = h PROVE OnRecord(h)' \/ Passed(h)'
  <2>1. PICK m : m = Head(inbox)
    OBVIOUS
  <2>2. CASE ReceiveUnregister /\ Supervised(m.name) /\ byErn[m.name] = i
    <3>1. releaser' = [releaser EXCEPT !.at = "answered", !.got = h]
      BY <1>1, <2>1, <2>2 DEF ReceiveUnregister
    <3>2. releaser'.got = h /\ releaser'.at = "answered"
      BY <3>1 DEF SupInv, SupTypeOK
    <3> QED BY <3>2 DEF Passed
  <2>3. CASE Receives /\ m.type = "ChildTerminated" /\ m.name = slots[i].ern
    <3>1. PICK n : n = slots[i].ern
      OBVIOUS
    <3>2. n \in Name /\ inc[h].name = n
      BY <1>0, <1>1, <3>1, TakenSlots DEF SupInv, ReferencesHold, SlotRefers, Born
    <3>3. inbox # <<>>
      BY <2>3, ReceivesTakes
    <3>4. 1 \in 1..Len(inbox) /\ inbox[1] = m
      BY <2>1, <3>3 DEF SupInv, SupTypeOK
    <3>5. IsEnd(n, m) /\ HasToken(n, h)
      BY <2>3, <3>1, <3>2 DEF IsEnd, HasToken
    <3> QED BY <1>0, <3>2, <3>4, <3>5 DEF TokenInv, OneToken
  <2>4. CASE slots'[i].handle = h
    BY <2>4 DEF OnRecord
  <2> QED BY <1>0, <1>1, <2>1, <2>2, <2>3, <2>4, OnRecordUntilNews
<1>2. ASSUME NEW m \in Message, InInbox(m), m.type = "SupervisedChildStarted", m.inc = h
      PROVE  OnRecord(h)' \/ Passed(h)'
  <2>1. CASE InInbox(m)'
    BY <1>2, <2>1 DEF OnRecord
  <2>2. CASE Receives /\ m = Head(inbox)
    <3>1. ReceiveStarted
      BY <1>2, <2>2 DEF Receives, ReceiveRegister, ReceiveUnregister, ReceiveDue,
         NoticeSettled, NoticeEscalates, NoticeRestarts, ReceiveStop, Receive
    <3>2. h # NoHandle
      BY <1>0
    <3>3. PICK i, n : i = m.idx /\ n = m.name
      OBVIOUS
    <3>4. i \in Index /\ n \in Name
      BY <1>2, <3>3 DEF Message
    <3>5. CASE CompleteStart(i, n, h)
      <4>1. slots'[i].handle = h
        BY <1>0, <3>4, <3>5, CompleteStartRewrites DEF Rewrites, SupInv
      <4> QED BY <3>4, <4>1 DEF OnRecord
    <3>6. CASE inc' = [inc EXCEPT ![h] = Held(Signalled(inc[h], "Terminate"), "stray")]
      <4>1. PICK d : d = Signalled(inc[h], "Terminate")
        OBVIOUS
      <4>2. d \in Child /\ inc'[h] = Held(d, "stray")
        BY <1>0, <3>6, <4>1, Told
      <4>3. inc'[h].holder = "stray"
        BY <4>2 DEF Held, Child
      <4> QED BY <4>3 DEF Passed
    <3> QED BY <1>2, <2>2, <3>1, <3>2, <3>3, <3>5, <3>6 DEF ReceiveStarted
  <2> QED BY <1>2, <2>1, <2>2, MessageStays
<1>3. CASE kids[inc[h].name] = h
  <2>1. PICK n : n = inc[h].name
    OBVIOUS
  <2>2. n \in Name /\ kids \in [Name -> Handle \cup {NoHandle}]
    BY <1>0, <2>1 DEF Child, SupInv, SupTypeOK
  <2>3. ASSUME NEW x \in Name, NeverBuilt(x), kids' = [kids EXCEPT ![x] = Fresh]
        PROVE  kids'[n] = kids[n]
    <3>1. x # n
      BY <2>1, <2>3 DEF NeverBuilt
    <3> QED BY <2>2, <2>3, <3>1
  <2>4. kids'[n] = h
    BY <1>3, <2>1, <2>3, KidsStay
  <2> QED BY <1>0, <2>1, <2>4 DEF OnRecord
<1> QED BY <1>1, <1>2, <1>3 DEF OnRecord

LEMMA PhasesInOrder ==
    ASSUME SupInv, [Next]_vars
    PROVE  /\ phase' = "loop" => phase = "loop"
           /\ phase \in {"loop", "awaitStarts"} =>
                phase' \in {"loop", "awaitStarts"} \/ TerminateChildren
           /\ phase = "terminating" => phase' \in {"terminating", "stopped"}
           /\ phase = "stopped" => phase' = "stopped"
           /\ phase' = "stopped" => phase = "stopped" \/ Stopped
<1>1. CASE phase = "loop"
  <2>1. phase' = "loop" \/ LeaveLoop
    BY <1>1, LoopIsLeftOnce
  <2> QED BY <1>1, <2>1 DEF LeaveLoop
<1>2. CASE phase # "loop"
  <2>1. CASE Loop
    BY <1>2, <2>1 DEF Loop, LaunchStart, ReceiveRegister, ReceiveStarted, ReceiveUnregister,
       ReceiveDue, NoticeSettled, NoticeEscalates, NoticeRestarts, ReceiveStop, LeaveLoop,
       TerminateChildren, Stopped, Receive, Waiting
  <2>2. CASE \E n \in Name : SuperviseDeferred(n)
    BY <1>2, <2>2 DEF SuperviseDeferred, Waiting
  <2> QED BY <1>2, <2>1, <2>2, OnlyTheLoopDecides
<1> QED BY <1>1, <1>2

\* Until its children have been told, whoever is up is on record or in somebody's
\* hands; from then on he is in somebody's hands.
SomebodysChild ==
    \A h \in 1..born : Up(h) =>
        InHand(h) \/ (phase \in {"loop", "awaitStarts"} /\ OnRecord(h))

\* What it rests on.
WhoHasWhom ==
    /\ InboxShut /\ OneRequest /\ HandsHold /\ StopsAreSent
    /\ CallersNames /\ AdoptedOnce /\ NeverRelaunched
    /\ SomebodysChild

LEMMA SomebodysChildStep ==
    ASSUME SupInv, TokenInv, WhoHasWhom, [Next]_vars
    PROVE  SomebodysChild'
<1>0. ChildrenStep
  BY NextKeeps DEF SupStep
<1> SUFFICES ASSUME NEW h \in 1..born', Up(h)'
             PROVE  InHand(h)' \/ (phase' \in {"loop", "awaitStarts"} /\ OnRecord(h)')
  BY DEF SomebodysChild
<1>1. CASE h \in 1..born
  <2>1. Up(h)
    <3>1. ChildStep(inc[h], inc'[h]) /\ inc[h] \in Child /\ inc'[h] \in Child
      BY <1>0, <1>1, BornHandles DEF ChildrenStep
    <3> QED BY <3>1 DEF Up, ChildStep, Child, Lives
  <2>2. CASE InHand(h)
    BY <1>1, <2>2, InHandStep DEF WhoHasWhom
  <2>3. CASE phase \in {"loop", "awaitStarts"} /\ OnRecord(h) /\ TerminateChildren
    BY <1>1, <2>3, RecordedAreTold DEF WhoHasWhom
  <2>4. CASE phase \in {"loop", "awaitStarts"} /\ OnRecord(h) /\ ~TerminateChildren /\ ~InHand(h)
    <3>1. \A i \in Index : slots[i].handle = h => slots[i].state \notin ExpectedStop
      BY <2>1, <2>4 DEF WhoHasWhom, StopsAreSent, StopSent, InHand, Up
    <3>2. OnRecord(h)' \/ Passed(h)'
      BY <1>1, <2>1, <2>4, <3>1, OnRecordStep
    <3> QED BY <2>4, <3>2, PhasesInOrder DEF Passed, InHand
  <2> QED BY <1>1, <2>1, <2>2, <2>3, <2>4 DEF WhoHasWhom, SomebodysChild
<1>2. CASE h \notin 1..born
  <2>1. h = born' /\ born' # born
    BY <1>0, <1>2, BornHandles DEF ChildrenStep
  <2>2. inc'[h].holder \in {"starter", "hirer", "adopter"}
    BY <2>1, Creators
  <2> QED BY <2>2 DEF InHand
<1> QED BY <1>1, <1>2

LEMMA WhoHasWhomStep ==
    ASSUME SupInv, TokenInv, WhoHasWhom, [Next]_vars, Escalation = "NotifyParent",
           Adopted \cap (Hired \cup Deferred) = {}
    PROVE  WhoHasWhom'
<1>1. InboxShut' /\ OneRequest' /\ HandsHold' /\ CallersNames' /\ StopsAreSent'
  BY InboxShutStep, OneRequestStep, HandsHoldStep, CallersNamesStep, StopsAreSentStep
     DEF WhoHasWhom
<1>2. AdoptedOnce' /\ NeverRelaunched'
  BY AdoptedOnceStep, NeverRelaunchedStep DEF WhoHasWhom
<1> QED BY <1>1, <1>2, SomebodysChildStep DEF WhoHasWhom

LEMMA WhoHasWhomInit == Init => WhoHasWhom
<1> SUFFICES ASSUME Init PROVE WhoHasWhom
  OBVIOUS
<1>1. inbox = <<>> /\ Len(inbox) = 0 /\ 1..Len(inbox) = {} /\ 1..born = {} /\ Taken = {}
  BY DEF Init, RegInit, Taken
<1>2. \A h \in Handle : inc[h] = Unborn
  BY DEF Init
<1>3. StopsAreSent
  <2>1. groups = {} /\ \A i \in Index : slots[i].state = "Unused"
    BY DEF Init, RegInit, Unregistered, NewSlot
  <2> QED BY <1>1, <2>1 DEF StopsAreSent, ExpectedStop
<1> QED BY <1>1, <1>2, <1>3, UnbornFields
        DEF Init, WhoHasWhom, InboxShut, OneRequest, HandsHold, CallersNames, AdoptedOnce,
            NeverRelaunched, SomebodysChild

\* So nobody is lost on the way from one hand, message or record to the next.
LEMMA EverybodyIsSomebodys ==
    ASSUME NamesAreKeptApart, Adopted \cap Hired = {}, Escalation = "NotifyParent"
    PROVE  Spec /\ SparesThoseInFlight => []WhoHasWhom
<1>1. Adopted \cap (Hired \cup Deferred) = {}
  BY DEF NamesAreKeptApart
<1>2. SupInv /\ TokenInv /\ WhoHasWhom /\ [Next]_vars => WhoHasWhom'
  BY <1>1, WhoHasWhomStep
<1>3. Spec /\ SparesThoseInFlight => []TokenInv
  BY TokensAreSingle
<1> QED BY <1>2, <1>3, WhoHasWhomInit, SupInvHolds, PTL DEF Spec

\* A supervisor that has stopped leaves no child running that nobody will ever
\* stop: whoever is still up was told to, or a task or a caller has his handle.  The
\* three views of shutdown_child_handles, the start tasks' duty to stop a child they
\* cannot deliver, a group task that stops those on its list after the supervisor is
\* gone, and closing the inbox before anything is awaited, together.  It holds for
\* every strategy; the names must be kept apart, as for OneActorPerChild, and those in
\* flight spared; and giving up must not fire the supervisor's own token, which
\* ends the loop with registrations and notices still queued.
THEOREM NobodyIsForgotten ==
    ASSUME NamesAreKeptApart, Adopted \cap Hired = {}, Escalation = "NotifyParent"
    PROVE  Spec /\ SparesThoseInFlight => []NoChildForgotten
<1>1. SupInv /\ WhoHasWhom => NoChildForgotten
  <2> SUFFICES ASSUME SupInv, WhoHasWhom, phase = "stopped", NEW h \in Handle, Up(h)
               PROVE  Accounted(h)
    BY DEF NoChildForgotten
  <2>1. h \in 1..born
    BY BornHandles, UnbornFields DEF Up
  <2>2. InHand(h)
    BY <2>1 DEF WhoHasWhom, SomebodysChild
  <2>3. OnAList(h) => h \in AwaitingStop
    BY DEF OnAList, AwaitingStop
  <2> QED BY <2>2, <2>3 DEF InHand, Accounted
<1> QED BY <1>1, EverybodyIsSomebodys, SupInvHolds, PTL

-------------------------------------------------------------------------------
(* The shutdown waits.  With nobody else's stops about, whoever nobody holds is  *)
(* on record until the shutdown takes stock, and is among those it waits for     *)
(* from then on; no start task is left by then.                                  *)

TakenStock == phase \in {"terminating", "stopped"}
WaitedFor ==
    /\ \A h \in 1..born : Up(h) /\ inc[h].holder = "nobody" =>
         IF TakenStock THEN h \in toStop ELSE OnRecord(h)
    /\ TakenStock => StartTasks = {}
    /\ phase = "stopped" => \A h \in toStop : inc[h].life = "dead"

\* Once stock is taken no start task comes about: only the loop starts a child, and
\* only the loop or a start task disowns one.
LEMMA NoMoreStartTasks ==
    ASSUME SupInv, [Next]_vars, TakenStock, StartTasks = {}
    PROVE  StartTasks' = {}
<1>0. ChildrenStep /\ phase # "loop"
  BY NextKeeps DEF SupStep, TakenStock
<1> SUFFICES ASSUME NEW h \in Handle, inc'[h].holder \in {"starter", "failed", "stray"}
             PROVE  FALSE
  BY DEF StartTasks
<1>1. inc[h].holder \notin {"starter", "failed", "stray"}
  BY DEF StartTasks
<1>2. CASE h \in 1..born
  <2>1. inc'[h].holder = "stray"
    BY <1>0, <1>1, <1>2 DEF ChildrenStep, ChildStep
  <2>2. ~Report(h) /\ ~StrayStopped(h)
    BY <1>1 DEF Report, StrayStopped
  <2>3. ~CallerAnswered(h)
    <3> SUFFICES ASSUME CallerAnswered(h) PROVE FALSE
      OBVIOUS
    <3>1. PICK d : d = Signalled(inc[h], "Terminate")
      OBVIOUS
    <3>2. d \in Child /\ inc[h] \in Child
      BY <3>1, BornHandles, Told
    <3>3. inc'[h] = Held(inc[h], "nobody") \/ inc'[h] = Held(d, "nobody")
      BY <3>1, BornHandles DEF CallerAnswered
    <3>4. inc'[h].holder = "nobody"
      BY <3>2, <3>3 DEF Held, Child
    <3> QED BY <2>1, <3>4
  <2>4. ~AskToRegister(h)
    <3> SUFFICES ASSUME AskToRegister(h) PROVE FALSE
      OBVIOUS
    <3>1. PICK holder \in {"waiting", "nobody", "owner"} : inc' = [inc EXCEPT ![h] = Held(inc[h], holder)]
      BY DEF AskToRegister
    <3>2. inc'[h].holder = holder
      BY <3>1, BornHandles DEF Held, Child
    <3> QED BY <2>1, <3>2
  <2>5. ~ReceiveRegister /\ ~ReceiveStarted
    BY <1>0 DEF ReceiveRegister, ReceiveStarted, Receive, Waiting
  <2>6. ~(Build(h) /\ inc'[h].life = "dead")
    <3>1. Build(h) => inc[h].holder = "starter"
      BY BornHandles DEF Build, Sane
    <3> QED BY <1>1, <3>1
  <2> QED BY <1>1, <1>2, <2>1, <2>2, <2>3, <2>4, <2>5, <2>6, WhoHandsOver
<1>3. CASE h \notin 1..born /\ (born' = born \/ h # born')
  BY <1>0, <1>1, <1>3, BornHandles DEF ChildrenStep, Handle
<1>4. CASE born' # born /\ h = born'
  BY <1>0, <1>4, Creators
<1> QED BY <1>2, <1>3, <1>4

\* A stop that is waited for without a deadline has landed, and there are no callers
\* whose children could be handed over but by supervise.
LEMMA OnlyToTheSupervisor ==
    ASSUME SupInv, WhoHasWhom, [Next]_vars, Overruns = {}, Hired = {},
           NEW h \in 1..born, Up(h)', inc'[h].holder = "nobody", inc[h].holder # "nobody"
    PROVE  OnRecord(h)' /\ phase = "loop" /\ phase' = "loop"
<1>0. h \in Handle /\ inc[h] \in Child /\ ChildStep(inc[h], inc'[h])
  BY NextKeeps, BornHandles DEF SupStep, ChildrenStep
<1>1. ~StrayStopped(h)
  <2>1. StrayStopped(h) => inc[h].life = "dead"
    BY DEF StrayStopped, Over
  <2> QED BY <1>0, <2>1 DEF Up, ChildStep
<1>2. ~CallerAnswered(h)
  BY <1>0 DEF CallerAnswered, WhoHasWhom, CallersNames
<1> QED BY <1>1, <1>2, HandsOver DEF WhoHasWhom

LEMMA WaitedForStep ==
    ASSUME SupInv, NoStopsExpected, TokenInv, WhoHasWhom, WaitedFor, [Next]_vars,
           Overruns = {}, Hired = {}, Released = {}
    PROVE  WaitedFor'
<1>0. SupInv' /\ ChildrenStep
  BY NextKeeps DEF SupStep
<1>1. ASSUME NEW h \in 1..born', Up(h)', inc'[h].holder = "nobody"
      PROVE  /\ TakenStock' => h \in toStop'
             /\ ~TakenStock' => OnRecord(h)'
  <2>1. CASE h \notin 1..born
    <3>1. h = born' /\ born' # born
      BY <1>0, <2>1, BornHandles DEF ChildrenStep
    <3> QED BY <1>1, <3>1, Creators
  <2>2. CASE h \in 1..born /\ inc[h].holder # "nobody"
    BY <1>1, <2>2, OnlyToTheSupervisor DEF TakenStock
  <2>3. CASE h \in 1..born /\ inc[h].holder = "nobody"
    <3>1. Up(h)
      <4>1. ChildStep(inc[h], inc'[h]) /\ inc[h] \in Child /\ inc'[h] \in Child
        BY <1>0, <2>3, BornHandles DEF ChildrenStep
      <4> QED BY <1>1, <4>1 DEF Up, ChildStep, Child, Lives
    <3>2. CASE TakenStock
      <4>1. h \in toStop /\ TakenStock'
        BY <2>3, <3>1, <3>2, PhasesInOrder DEF WaitedFor, TakenStock
      <4>2. toStop' = toStop
        <5>1. CASE Loop
          BY <3>2, <5>1 DEF TakenStock, Loop, LaunchStart, ReceiveRegister, ReceiveStarted,
             ReceiveUnregister, ReceiveDue, NoticeSettled, NoticeEscalates, NoticeRestarts,
             ReceiveStop, LeaveLoop, TerminateChildren, Stopped, Receive, Waiting
        <5>2. CASE \E n \in Name : SuperviseDeferred(n)
          BY <3>2, <5>2 DEF TakenStock, SuperviseDeferred, Waiting
        <5> QED BY <5>1, <5>2, OnlyTheLoopDecides
      <4> QED BY <4>1, <4>2
    <3>3. CASE ~TakenStock /\ TerminateChildren
      <4>1. h \in ShutdownChildren
        BY <2>3, <3>1, <3>3, RecordedAreFound DEF WaitedFor, WhoHasWhom
      <4> QED BY <3>3, <4>1 DEF TerminateChildren, TakenStock
    <3>4. CASE ~TakenStock /\ ~TerminateChildren
      <4>1. OnRecord(h)
        BY <2>3, <3>1, <3>4 DEF WaitedFor
      <4>2. OnRecord(h)' \/ Passed(h)'
        BY <2>3, <3>1, <3>4, <4>1, OnRecordStep DEF NoStopsExpected
      <4>3. ~Passed(h)'
        <5>1. releaser'.got # h
          BY <1>0, <2>3, BornHandles DEF SupInv, ReferencesHold
        <5> QED BY <1>1, <5>1 DEF Passed
      <4>4. ~TakenStock'
        BY <3>4, PhasesInOrder DEF TakenStock, SupInv, SupTypeOK
      <4> QED BY <4>2, <4>3, <4>4
    <3> QED BY <3>2, <3>3, <3>4
  <2> QED BY <2>1, <2>2, <2>3
<1>2. ASSUME TakenStock' PROVE StartTasks' = {}
  <2>1. CASE TakenStock
    BY <2>1, NoMoreStartTasks DEF WaitedFor
  <2>2. CASE ~TakenStock
    <3>1. TerminateChildren
      BY <1>2, <2>2, PhasesInOrder DEF TakenStock, SupInv, SupTypeOK
    <3>2. StartTasks = {}
      BY <3>1 DEF TerminateChildren
    <3>3. ASSUME NEW h \in Handle PROVE inc'[h].holder = inc[h].holder
      <4>1. PICK d : d = Signalled(inc[h], "Cascade")
        OBVIOUS
      <4>2. inc'[h] = inc[h] \/ inc'[h] = d
        BY <3>1, <4>1 DEF TerminateChildren
      <4> QED BY <4>1, <4>2, BornHandles, Told
    <3> QED BY <3>2, <3>3 DEF StartTasks
  <2> QED BY <2>1, <2>2
<1>3. ASSUME phase' = "stopped", NEW h \in toStop' PROVE inc'[h].life = "dead"
  <2>1. phase = "stopped" \/ Stopped
    BY <1>3, PhasesInOrder
  <2>2. toStop' = toStop
    <3>1. CASE phase = "stopped"
      <4>1. CASE Loop
        BY <3>1, <4>1 DEF Loop, LaunchStart, ReceiveRegister, ReceiveStarted,
           ReceiveUnregister, ReceiveDue, NoticeSettled, NoticeEscalates, NoticeRestarts,
           ReceiveStop, LeaveLoop, TerminateChildren, Stopped, Receive, Waiting
      <4>2. CASE \E n \in Name : SuperviseDeferred(n)
        BY <3>1, <4>2 DEF SuperviseDeferred, Waiting
      <4> QED BY <4>1, <4>2, OnlyTheLoopDecides
    <3>2. CASE Stopped
      BY <3>2 DEF Stopped
    <3> QED BY <2>1, <3>1, <3>2
  <2>3. h \in Handle /\ inc[h].life = "dead"
    <3>1. h \in Handle /\ h \in toStop
      BY <1>3, <2>2 DEF SupInv, SupTypeOK
    <3>2. phase = "stopped" => inc[h].life = "dead"
      BY <3>1 DEF WaitedFor
    <3>3. Stopped => inc[h].life = "dead"
      BY <3>1 DEF Stopped, Over
    <3> QED BY <2>1, <3>1, <3>2, <3>3
  <2>4. h \in 1..born
    BY <2>3, BornHandles, UnbornFields
  <2> QED BY <1>0, <2>3, <2>4 DEF ChildrenStep, ChildStep
<1> QED BY <1>1, <1>2, <1>3 DEF WaitedFor

\* A supervisor that reports its end has seen its children end: none that it has on
\* record, or that a start task has, is up when it is stopped (signal.rs promises it
\* of Terminate).  This is for a supervisor whose children nobody else stops: a stop
\* without a deadline, no caller that is refused a child or lets one go, and no
\* group restart that is stopping siblings on the side.
THEOREM TheSupervisorEndsLast ==
    ASSUME Strategy = "OneForOne", NamesAreKeptApart, Escalation = "NotifyParent",
           Overruns = {}, Hired = {}, Released = {}
    PROVE  Spec => []StoppedLeavesNoneRunning
<1>1. SupInv /\ NoStopsExpected /\ TokenInv /\ WhoHasWhom /\ WaitedFor /\ [Next]_vars
        => WaitedFor'
  BY WaitedForStep
<1>2. Init => WaitedFor
  <2> SUFFICES ASSUME Init PROVE WaitedFor
    OBVIOUS
  <2>1. 1..born = {} /\ ~TakenStock /\ phase # "stopped"
    BY DEF Init, TakenStock
  <2> QED BY <2>1 DEF WaitedFor
<1>3. Spec => []WaitedFor
  <2>1. Adopted \cap Hired = {}
    OBVIOUS
  <2>2. Spec /\ SparesThoseInFlight => []WhoHasWhom
    BY <2>1, EverybodyIsSomebodys
  <2>3. (Spec => SparesThoseInFlight) /\ (Spec /\ SparesThoseInFlight => []TokenInv)
    BY OneForOneSparesThem, TokensAreSingle
  <2>4. Spec => []NoStopsExpected
    BY NoStopsAreExpected
  <2> QED BY <1>1, <1>2, <2>2, <2>3, <2>4, SupInvHolds, PTL DEF Spec
<1>4. SupInv /\ WaitedFor => StoppedLeavesNoneRunning
  <2> SUFFICES ASSUME SupInv, WaitedFor, phase = "stopped", NEW h \in Handle,
                      inc[h].holder \in {"nobody", "stray"}, Up(h)
               PROVE  FALSE
    BY DEF StoppedLeavesNoneRunning
  <2>1. h \in 1..born /\ TakenStock
    BY BornHandles, UnbornFields DEF Up, TakenStock
  <2>2. inc[h].holder = "nobody"
    BY <2>1 DEF WaitedFor, StartTasks
  <2> QED BY <2>1, <2>2 DEF WaitedFor, Up
<1> QED BY <1>3, <1>4, SupInvHolds, PTL

-------------------------------------------------------------------------------
(* Whose handle it is.  A handle is in one place: in the hands of whoever built  *)
(* the child, in one message that brings it, on one record, or with the caller   *)
(* that let the child go.                                                        *)

Builder(h) == inc[h].holder \in {"starter", "failed", "hirer", "adopter"}
Brings(m, h) == m.type \in {"SupervisedChildStarted", "RegisterSupervisedChild"} /\ m.inc = h

Nowhere(h) ==
    /\ \A k \in 1..Len(inbox) : ~Brings(inbox[k], h)
    /\ \A i \in Index : slots[i].handle # h
    /\ releaser.got # h
OnePlace(h) ==
    /\ Builder(h) => Nowhere(h)
    /\ \A k, l \in 1..Len(inbox) : Brings(inbox[k], h) /\ Brings(inbox[l], h) => k = l
    /\ \A k \in 1..Len(inbox) : Brings(inbox[k], h) =>
         releaser.got # h /\ \A i \in Index : slots[i].handle # h
    /\ \A i, j \in Index : slots[i].handle = h /\ slots[j].handle = h => i = j
    /\ \A i \in Index : slots[i].handle = h => releaser.got # h

\* Where a record gets a handle from.
LEMMA HandlesMove ==
    ASSUME SupInv, [Next]_vars, NEW i \in Index,
           slots'[i].handle \notin {NoHandle, slots[i].handle}
    PROVE  /\ slots'[i].handle = Head(inbox).inc
           /\ \/ ReceiveRegister /\ i = used + 1
              \/ ReceiveStarted /\ i = Head(inbox).idx
<1>0. RegInv
  BY DEF SupInv
<1>1. ASSUME NEW j, NEW state, Rewrites(j, state, NoHandle) PROVE FALSE
  BY <1>1 DEF Rewrites
<1>2. ~(UNCHANGED regVars) /\ slots' # slots
  BY DEF regVars
<1>3. CASE LaunchStart
  <2>1. PICK j : j = Head(pending)
    OBVIOUS
  <2>2. slots' = slots \/ \E state : Rewrites(j, state, NoHandle)
    BY <1>0, <1>3, <2>1, BeginStartRewrites DEF LaunchStart
  <2> QED BY <1>1, <1>2, <2>2
<1>4. CASE Receives
  <2>1. PICK m : m = Head(inbox)
    OBVIOUS
  <2>2. PICK n : n = m.name
    OBVIOUS
  <2>3. inbox # <<>> /\ m \in Message
    BY <1>4, <2>1, ReceivesTakes, HeadRefers
  <2>4. CASE ReceiveRegister
    <3>1. m.type = "RegisterSupervisedChild"
      BY <2>1, <2>4 DEF ReceiveRegister, Receive
    <3>2. PICK h, restartable : h = m.inc /\ restartable = m.restartable
      OBVIOUS
    <3>3. n \in Name /\ h \in AnyHandle /\ restartable \in BOOLEAN
      BY <2>2, <2>3, <3>1, <3>2 DEF Message, AnyHandle
    <3>4. AddSlot(n, NewSlot(n, restartable, h, "Running"))
      BY <1>2, <2>1, <2>2, <2>4, <3>2 DEF ReceiveRegister, Register, RegisterDuplicate
    <3>5. PICK u : u = used + 1
      OBVIOUS
    <3>6. slots'[u].handle = h /\ \A j \in Index : j # u => slots'[j] = slots[j]
      BY <1>0, <3>3, <3>4, <3>5, NewSlotFields
    <3> QED BY <2>1, <2>4, <3>2, <3>5, <3>6
  <2>5. CASE ReceiveStarted
    <3>1. m.type = "SupervisedChildStarted"
      BY <2>1, <2>5 DEF ReceiveStarted, Receive
    <3>2. PICK j, h : j = m.idx /\ h = m.inc
      OBVIOUS
    <3>3. n \in Name /\ h \in Handle \cup {NoHandle} /\ j \in Index
      BY <2>2, <2>3, <3>1, <3>2 DEF Message
    <3>4. (h # NoHandle /\ CompleteStart(j, n, h)) \/ FailStart(j)
      BY <1>2, <2>1, <2>2, <2>5, <3>2 DEF ReceiveStarted
    <3>5. ~FailStart(j)
      BY <1>0, <1>1, <3>3, FailStartRewrites
    <3>6. Rewrites(j, "Running", h)
      BY <1>0, <3>3, <3>4, <3>5, CompleteStartRewrites
    <3> QED BY <2>1, <2>5, <3>2, <3>6 DEF Rewrites
  <2>6. CASE ReceiveUnregister
    <3>1. m.type = "UnregisterSupervisedChild" /\ (Retire(n) \/ RetireUnknown(n))
      BY <2>1, <2>2, <2>6 DEF ReceiveUnregister, Receive
    <3>2. n \in Name
      BY <2>2, <2>3, <3>1 DEF Message
    <3> QED BY <1>0, <1>1, <1>2, <3>1, <3>2, RetireRewrites DEF RetireUnknown
  <2>7. CASE ReceiveDue
    <3>1. PICK j, g : j = m.idx /\ g = m.gen
      OBVIOUS
    <3>2. m.type = "RestartDue" /\ (QueueRestart(j, n, g) \/ UNCHANGED regVars)
      BY <2>1, <2>2, <2>7, <3>1 DEF ReceiveDue, Receive
    <3>3. n \in Name /\ j \in Index
      BY <2>2, <2>3, <3>1, <3>2 DEF Message
    <3> QED BY <1>0, <1>1, <1>2, <3>2, <3>3, QueueRestartRewrites
  <2>8. CASE NoticeSettled \/ NoticeEscalates \/ NoticeRestarts
    <3>1. PICK reason : reason = m.reason
      OBVIOUS
    <3>2. m.type = "ChildTerminated"
      BY <2>1, <2>8 DEF NoticeSettled, NoticeEscalates, NoticeRestarts, Receive
    <3>3. n \in Name /\ reason \in TerminationReasons
      BY <2>2, <2>3, <3>1, <3>2 DEF Message
    <3>4. Notice(n, reason)
      BY <2>1, <2>2, <2>8, <3>1 DEF Notice, NoticeSettled, NoticeEscalates, NoticeRestarts
    <3>5. ~IgnoreNotice(n)
      BY <1>2 DEF IgnoreNotice
    <3>6. ~GroupStopLanded(n) /\ ~ForgetChild(n, reason)
      BY <1>0, <1>1, <3>3, GroupStopLandedRewrites, ForgetChildRewrites
    <3>7. slots[byErn[n]].charged \in Nat
      BY <1>0, <3>3, <3>4, <3>5, <3>6, TakenSlots DEF Notice, Escalates, Restarts, FreshFailure, Slot
    <3>8. PICK kept \in Nat : EscalateChild(n, reason, kept) \/ ScheduleRestart(n, reason, kept)
      BY <3>4, <3>5, <3>6, <3>7 DEF Notice, Escalates, Restarts
    <3>9. ~EscalateChild(n, reason, kept)
      BY <1>0, <1>1, <3>3, EscalateChildRewrites
    <3>10. ~ScheduleRestart(n, reason, kept)
      BY <1>0, <3>3, ScheduleRestartClears
    <3> QED BY <3>8, <3>9, <3>10
  <2>9. CASE ReceiveStop
    BY <1>2, <2>9 DEF ReceiveStop
  <2> QED BY <1>4, <2>4, <2>5, <2>6, <2>7, <2>8, <2>9 DEF Receives
<1>5. CASE LeaveLoop
  BY <1>0, <1>5, SettledSlots DEF LeaveLoop
<1>6. CASE TerminateChildren \/ Stopped
  BY <1>2, <1>6 DEF TerminateChildren, Stopped
<1>7. ASSUME NEW n \in Name, SuperviseDeferred(n) PROVE FALSE
  <2>1. PICK u : u = used + 1
    OBVIOUS
  <2>2. AddSlot(n, NewSlot(n, TRUE, NoHandle, "Pending"))
    BY <1>7 DEF SuperviseDeferred, RegisterPending
  <2>3. slots'[u].handle = NoHandle /\ \A j \in Index : j # u => slots'[j] = slots[j]
    BY <1>0, <2>1, <2>2, NewSlotFields DEF AnyHandle
  <2> QED BY <2>3
<1> QED BY <1>2, <1>3, <1>4, <1>5, <1>6, <1>7, OnlyTheLoopDecides DEF Loop, Receives

\* Where the caller gets its answer from: the record it empties.
LEMMA AnswerMoves ==
    ASSUME SupInv, [Next]_vars, releaser'.got \notin {NoHandle, releaser.got}
    PROVE  /\ ReceiveUnregister
           /\ \E i \in Index : slots[i].handle = releaser'.got /\ slots'[i].handle = NoHandle
<1>0. RegInv /\ releaser' # releaser
  BY DEF SupInv
<1>1. ~(\E n \in Name : AskToRelease(n))
  BY DEF AskToRelease
<1>2. ~ReleaserReturns
  BY DEF ReleaserReturns, SupInv, SupTypeOK
<1>3. ReceiveUnregister
  BY <1>0, <1>1, <1>2, ReleaserMoves
<1>4. PICK m : m = Head(inbox)
  OBVIOUS
<1>5. PICK n : n = m.name
  OBVIOUS
<1>6. n \in Name
  BY <1>3, <1>4, <1>5, HeadRefers DEF ReceiveUnregister, Receive, Message
<1>7. /\ Retire(n) \/ RetireUnknown(n)
      /\ releaser'.got = IF Supervised(n) THEN slots[byErn[n]].handle ELSE NoHandle
  BY <1>3, <1>4, <1>5 DEF ReceiveUnregister, SupInv, SupTypeOK
<1>8. Retire(n) /\ slots[byErn[n]].handle = releaser'.got
  BY <1>7 DEF RetireUnknown
<1>9. PICK i : i = byErn[n]
  OBVIOUS
<1>10. i \in Index /\ slots'[i].handle = NoHandle
  BY <1>0, <1>6, <1>8, <1>9, RetireRewrites, TakenSlots DEF Rewrites
<1> QED BY <1>3, <1>8, <1>9, <1>10

\* A step that brings a handle nowhere new leaves it in its place.
QuietFor(h) ==
    /\ Builder(h)' => Builder(h)
    /\ \/ inbox' = inbox \/ inbox' = <<>>
       \/ inbox # <<>> /\ inbox' = Tail(inbox)
       \/ \E m : inbox' = Append(inbox, m) /\ ~Brings(m, h)
    /\ \A i \in Index : slots'[i].handle = h => slots[i].handle = h
    /\ releaser'.got = h => releaser.got = h

LEMMA BroughtByTheRest ==
    ASSUME SupInv, inbox # <<>>, inbox' = Tail(inbox), NEW k \in 1..Len(inbox')
    PROVE  inbox'[k] = inbox[k + 1] /\ k + 1 \in 1..Len(inbox) /\ k + 1 # 1
BY DEF SupInv, SupTypeOK

LEMMA QuietKeeps ==
    ASSUME SupInv, NEW h, QuietFor(h), OnePlace(h)
    PROVE  OnePlace(h)'
<1>0. inbox \in Seq(Message) /\ Len(inbox) \in Nat
  BY DEF SupInv, SupTypeOK
<1>1. CASE inbox' = inbox
  BY <1>1 DEF QuietFor, OnePlace, Nowhere
<1>2. CASE inbox' = <<>>
  <2>1. 1..Len(inbox') = {}
    BY <1>2
  <2> QED BY <2>1 DEF QuietFor, OnePlace, Nowhere
<1>3. CASE inbox # <<>> /\ inbox' = Tail(inbox)
  <2>1. \A k \in 1..Len(inbox') : inbox'[k] = inbox[k + 1] /\ k + 1 \in 1..Len(inbox)
    BY <1>3, BroughtByTheRest
  <2>2. ASSUME NEW k \in 1..Len(inbox'), NEW l \in 1..Len(inbox'),
               Brings(inbox'[k], h), Brings(inbox'[l], h)
        PROVE  k = l
    <3>1. k + 1 = l + 1
      BY <2>1, <2>2 DEF OnePlace
    <3> QED BY <3>1
  <2> QED BY <2>1, <2>2 DEF QuietFor, OnePlace, Nowhere
<1>4. ASSUME NEW m, inbox' = Append(inbox, m), ~Brings(m, h) PROVE OnePlace(h)'
  <2>1. /\ Len(inbox') = Len(inbox) + 1 /\ inbox'[Len(inbox) + 1] = m
        /\ \A k \in 1..Len(inbox') : k \in 1..Len(inbox) \/ k = Len(inbox) + 1
        /\ \A k \in 1..Len(inbox) : inbox'[k] = inbox[k]
    BY <1>0, <1>4
  <2>2. \A k \in 1..Len(inbox') : Brings(inbox'[k], h) => k \in 1..Len(inbox) /\ inbox'[k] = inbox[k]
    BY <1>4, <2>1
  <2> QED BY <2>2 DEF QuietFor, OnePlace, Nowhere
<1> QED BY <1>1, <1>2, <1>3, <1>4 DEF QuietFor

\* Nobody but its maker becomes a builder.
LEMMA BuildersStay ==
    ASSUME SupInv, [Next]_vars, NEW h \in Handle, Builder(h)'
    PROVE  Builder(h) \/ (h = born' /\ born' # born)
<1>0. ChildrenStep
  BY NextKeeps DEF SupStep
<1>1. CASE h \in 1..born
  BY <1>0, <1>1 DEF ChildrenStep, ChildStep, Builder
<1>2. CASE h \notin 1..born /\ (born' = born \/ h # born')
  BY <1>0, <1>2, BornHandles DEF ChildrenStep, Handle, Builder
<1> QED BY <1>1, <1>2

\* Whatever refers to a child refers to one that was born.
LEMMA NowhereBeforeBirth ==
    ASSUME SupInv, NEW h \in Handle, h \notin 1..born
    PROVE  Nowhere(h)
<1>1. \A k \in 1..Len(inbox) : ~Brings(inbox[k], h)
  BY BornHandles DEF SupInv, ReferencesHold, MessageRefers, Brings, Born
<1>2. \A i \in Index : slots[i].handle # h
  BY BornHandles DEF SupInv, ReferencesHold, SlotRefers, Born
<1>3. releaser.got # h
  BY BornHandles DEF SupInv, ReferencesHold, Born
<1> QED BY <1>1, <1>2, <1>3 DEF Nowhere

\* A builder sends the handle off, and has it no more.
LEMMA SentByItsBuilder ==
    ASSUME SupInv, [Next]_vars, NEW h \in Handle, NEW m, inbox' = Append(inbox, m),
           Sent(m), Brings(m, h)
    PROVE  /\ Builder(h) /\ ~Builder(h)' /\ slots' = slots /\ releaser' = releaser
<1>0. inc \in [Handle -> Child] /\ inc[h] \in Child
  BY BornHandles
<1>1. ASSUME NEW g \in Handle, Report(g), m = StartedMsg(g)
      PROVE  Builder(h) /\ ~Builder(h)' /\ slots' = slots /\ releaser' = releaser
  <2>1. m.inc = g \/ m.inc = NoHandle
    BY <1>1 DEF StartedMsg
  <2>2. g = h
    BY <2>1, BornHandles DEF Brings
  <2>3. PICK d, e : d = Held(inc[h], "nobody") /\ e = Held(Signalled(inc[h], "Terminate"), "stray")
    OBVIOUS
  <2>4. inc[h].holder \in {"starter", "failed"} /\ inc[h].life # "building" /\ inc'[h] \in {d, e}
    BY <1>0, <1>1, <2>2, <2>3 DEF Report
  <2>5. d.holder = "nobody" /\ e.holder = "stray"
    BY <1>0, <2>3, <2>4, Disowned DEF Held, Child
  <2>6. inc'[h].holder \in {"nobody", "stray"}
    BY <2>4, <2>5
  <2> QED BY <1>1, <2>4, <2>6 DEF Builder, Report, regVars, taskVars
<1>2. ASSUME NEW g \in Handle, NEW r, AskToRegister(g), m = RegisterMsg(g, r)
      PROVE  Builder(h) /\ ~Builder(h)' /\ slots' = slots /\ releaser' = releaser
  <2>1. g = h
    BY <1>2 DEF RegisterMsg, Brings
  <2>2. PICK holder \in {"waiting", "nobody", "owner"} : inc' = [inc EXCEPT ![h] = Held(inc[h], holder)]
    BY <1>2, <2>1 DEF AskToRegister
  <2>3. inc'[h].holder = holder
    BY <1>0, <2>2 DEF Held, Child
  <2>4. inc[h].holder \in {"hirer", "adopter"}
    BY <1>2, <2>1 DEF AskToRegister
  <2> QED BY <1>2, <2>3, <2>4 DEF Builder, AskToRegister, regVars, taskVars
<1>3. ~(\E n \in Name : m = UnregisterMsg(n)) /\ m.type \notin {"ChildTerminated", "RestartDue", "Terminate"}
  <2>1. \A n \in Name : UnregisterMsg(n).type = "UnregisterSupervisedChild"
    BY DEF UnregisterMsg
  <2> QED BY <2>1 DEF Brings
<1>4. ASSUME NEW g \in Handle, AskToRegister(g), m = RegisterMsg(g, inc[g].holder = "hirer")
      PROVE  Builder(h) /\ ~Builder(h)' /\ slots' = slots /\ releaser' = releaser
  <2>1. PICK r : r = (inc[g].holder = "hirer")
    OBVIOUS
  <2> QED BY <1>2, <1>4, <2>1
<1> QED BY <1>1, <1>3, <1>4 DEF Sent

LEMMA OnePlaceStep ==
    ASSUME SupInv, [Next]_vars, NEW h \in Handle, OnePlace(h)
    PROVE  OnePlace(h)'
<1>0. inbox \in Seq(Message) /\ Len(inbox) \in Nat /\ h # NoHandle
  BY BornHandles DEF SupInv, SupTypeOK
\* a record takes the handle the message brings
<1>1. CASE \E i \in Index : slots'[i].handle = h /\ slots[i].handle # h
  <2>1. PICK b \in Index : slots'[b].handle = h /\ slots[b].handle # h
    BY <1>1
  <2>2. PICK m : m = Head(inbox)
    OBVIOUS
  <2>3. m.inc = h /\ (ReceiveRegister \/ ReceiveStarted)
    BY <1>0, <2>1, <2>2, HandlesMove
  <2>4. inbox # <<>> /\ inbox' = Tail(inbox) /\ Brings(m, h) /\ releaser' = releaser
    BY <2>2, <2>3 DEF ReceiveRegister, ReceiveStarted, Receive, Brings, taskVars
  <2>5. 1 \in 1..Len(inbox) /\ inbox[1] = m
    BY <1>0, <2>2, <2>4
  <2>6. \A k \in 1..Len(inbox') : ~Brings(inbox'[k], h)
    <3> SUFFICES ASSUME NEW k \in 1..Len(inbox'), Brings(inbox'[k], h) PROVE FALSE
      OBVIOUS
    <3>1. inbox'[k] = inbox[k + 1] /\ k + 1 \in 1..Len(inbox) /\ k + 1 # 1
      BY <2>4, BroughtByTheRest
    <3> QED BY <2>4, <2>5, <3>1 DEF OnePlace
  <2>7. releaser.got # h /\ \A i \in Index : slots[i].handle # h
    BY <2>4, <2>5 DEF OnePlace
  <2>8. \A i \in Index : slots'[i].handle = h => i = b
    <3> SUFFICES ASSUME NEW i \in Index, slots'[i].handle = h PROVE i = b
      OBVIOUS
    <3>1. slots[i].handle # h
      BY <2>7
    <3>2. /\ (ReceiveRegister /\ i = used + 1) \/ (ReceiveStarted /\ i = m.idx)
          /\ (ReceiveRegister /\ b = used + 1) \/ (ReceiveStarted /\ b = m.idx)
      BY <1>0, <2>1, <2>2, <3>1, HandlesMove
    <3>3. ~(ReceiveRegister /\ ReceiveStarted)
      BY DEF ReceiveRegister, ReceiveStarted, Receive
    <3> QED BY <3>2, <3>3
  <2>9. ~Builder(h)'
    <3>1. ~Builder(h)
      BY <2>4, <2>5 DEF OnePlace, Nowhere
    <3>2. born' = born
      BY <2>3 DEF ReceiveRegister, ReceiveStarted
    <3> QED BY <3>1, <3>2, BuildersStay
  <2> QED BY <2>4, <2>6, <2>7, <2>8, <2>9 DEF OnePlace
\* the caller takes it from a record
<1>2. CASE releaser'.got = h /\ releaser.got # h
  <2>1. ReceiveUnregister /\ \E i \in Index : slots[i].handle = h /\ slots'[i].handle = NoHandle
    BY <1>0, <1>2, AnswerMoves
  <2>2. PICK b \in Index : slots[b].handle = h /\ slots'[b].handle = NoHandle
    BY <2>1
  <2>3. inbox # <<>> /\ inbox' = Tail(inbox) /\ born' = born
    BY <2>1 DEF ReceiveUnregister, Receive, childVars
  <2>4. \A k \in 1..Len(inbox') : ~Brings(inbox'[k], h)
    <3> SUFFICES ASSUME NEW k \in 1..Len(inbox'), Brings(inbox'[k], h) PROVE FALSE
      OBVIOUS
    <3>1. inbox'[k] = inbox[k + 1] /\ k + 1 \in 1..Len(inbox)
      BY <2>3, BroughtByTheRest
    <3> QED BY <2>2, <3>1 DEF OnePlace
  <2>5. \A i \in Index : slots'[i].handle # h
    <3> SUFFICES ASSUME NEW i \in Index, slots'[i].handle = h PROVE FALSE
      OBVIOUS
    <3>1. ~ReceiveRegister /\ ~ReceiveStarted
      BY <2>1 DEF ReceiveUnregister, ReceiveRegister, ReceiveStarted, Receive
    <3>2. slots[i].handle = h
      BY <1>0, <3>1, HandlesMove
    <3> QED BY <1>0, <2>2, <3>2 DEF OnePlace
  <2>6. ~Builder(h)'
    BY <2>2, <2>3, BuildersStay DEF OnePlace, Nowhere
  <2> QED BY <2>4, <2>5, <2>6 DEF OnePlace
\* its builder sends it off
<1>3. ASSUME NEW m, inbox' = Append(inbox, m), Sent(m), Brings(m, h) PROVE OnePlace(h)'
  <2>1. Builder(h) /\ ~Builder(h)' /\ slots' = slots /\ releaser' = releaser
    BY <1>3, SentByItsBuilder
  <2>2. Nowhere(h)
    BY <2>1 DEF OnePlace
  <2>3. /\ Len(inbox') = Len(inbox) + 1
        /\ \A k \in 1..Len(inbox') : k \in 1..Len(inbox) \/ k = Len(inbox) + 1
        /\ \A k \in 1..Len(inbox) : inbox'[k] = inbox[k]
    BY <1>0, <1>3
  <2>4. \A k \in 1..Len(inbox') : Brings(inbox'[k], h) => k = Len(inbox) + 1
    BY <2>2, <2>3 DEF Nowhere
  <2> QED BY <2>1, <2>2, <2>4 DEF OnePlace, Nowhere
\* it is created
<1>4. CASE h = born' /\ born' # born
  <2>1. h \notin 1..born /\ inbox' = inbox
    BY <1>4, Creators, BornHandles, NextKeeps DEF SupStep, ChildrenStep
  <2>2. Nowhere(h)
    BY <2>1, NowhereBeforeBirth
  <2>3. \A i \in Index : slots'[i].handle # h
    <3>1. ~ReceiveRegister /\ ~ReceiveStarted
      BY <1>4 DEF ReceiveRegister, ReceiveStarted
    <3> QED BY <1>0, <2>2, <3>1, HandlesMove DEF Nowhere
  <2>4. releaser'.got # h
    <3>1. ~ReceiveUnregister
      BY <1>4 DEF ReceiveUnregister, childVars
    <3> QED BY <1>0, <2>2, <3>1, AnswerMoves DEF Nowhere
  <2> QED BY <2>1, <2>2, <2>3, <2>4 DEF OnePlace, Nowhere
<1>5. ASSUME \A i \in Index : slots'[i].handle = h => slots[i].handle = h,
             releaser'.got = h => releaser.got = h,
             ~(\E m : inbox' = Append(inbox, m) /\ Sent(m) /\ Brings(m, h)),
             ~(h = born' /\ born' # born)
      PROVE  OnePlace(h)'
  <2>1. Builder(h)' => Builder(h)
    BY <1>5, BuildersStay
  <2>2. \/ inbox' = inbox \/ inbox' = <<>>
        \/ inbox # <<>> /\ inbox' = Tail(inbox)
        \/ \E m : inbox' = Append(inbox, m) /\ ~Brings(m, h)
    BY <1>5, InboxMoves, ReceivesTakes DEF TerminateChildren
  <2> QED BY <1>5, <2>1, <2>2, QuietKeeps DEF QuietFor
<1> QED BY <1>1, <1>2, <1>3, <1>4, <1>5

LEMMA OnePlaceAtFirst == Init => \A h \in Handle : OnePlace(h)
<1> SUFFICES ASSUME Init PROVE \A h \in Handle : OnePlace(h)
  OBVIOUS
<1>1. /\ \A h \in Handle : Nowhere(h)
      /\ \A i \in Index : slots[i].handle = NoHandle
      /\ 1..Len(inbox) = {} /\ releaser.got = NoHandle
  BY InitHolds, NowhereBeforeBirth DEF Init, RegInit, Unregistered, NewSlot
<1> QED BY <1>1 DEF OnePlace, Nowhere

LEMMA HandlesHaveOnePlace == Spec => [](\A h \in Handle : OnePlace(h))
<1>1. SupInv /\ (\A h \in Handle : OnePlace(h)) /\ [Next]_vars => (\A h \in Handle : OnePlace(h))'
  BY OnePlaceStep
<1> QED BY <1>1, OnePlaceAtFirst, SupInvHolds, PTL DEF Spec

\* Only the shutdown sends the parent's signal, and to those it has found.
LEMMA OnlyTheShutdownCascades ==
    ASSUME SupInv, [Next]_vars, NEW h \in Handle,
           "Cascade" \in inc'[h].signals, "Cascade" \notin inc[h].signals
    PROVE  TerminateChildren /\ h \in ShutdownChildren
<1>0. inc \in [Handle -> Child] /\ inc[h] \in Child
  BY BornHandles
<1>1. PICK told : told = Signalled(inc[h], "Terminate")
  OBVIOUS
<1>2. told \in Child /\ "Cascade" \notin told.signals
  <2>1. told.signals \in {inc[h].signals, inc[h].signals \cup {"Terminate"}}
    BY <1>0, <1>1, Told
  <2> QED BY <1>0, <1>1, <2>1, Told
<1>3. ASSUME NEW c \in Child, NEW holder, "Cascade" \notin c.signals, inc'[h] = Held(c, holder)
      PROVE  FALSE
  BY <1>3 DEF Held, Child
<1>4. /\ inc'[h] # inc[h] /\ inc'[h] # told
      /\ \A holder : inc'[h] # Held(inc[h], holder) /\ inc'[h] # Held(told, holder)
  BY <1>0, <1>2, <1>3
<1>5. ASSUME NEW g \in Handle, Fault(g) \/ Obey(g) \/ Build(g) PROVE FALSE
  <2>1. \/ inc' = [inc EXCEPT ![g].life = "dead"] \/ inc' = [inc EXCEPT ![g].life = "live"]
        \/ inc' = [inc EXCEPT ![g].life = "dead", ![g].holder = "failed"]
        \/ inc' = [inc EXCEPT ![g].life = "dead", ![g].holder = "nobody"]
    BY <1>5 DEF Fault, Obey, Build, Die
  <2>2. inc'[h].signals = inc[h].signals
    BY <1>0, <2>1 DEF Child
  <2> QED BY <2>2
<1>6. ASSUME NEW g \in Handle, Report(g) \/ StrayStopped(g) \/ CallerAnswered(g) \/ AskToRegister(g)
      PROVE  FALSE
  <2>1. \E c, holder : /\ inc' = [inc EXCEPT ![g] = Held(c, holder)]
                       /\ c \in {inc[g], Signalled(inc[g], "Terminate")}
    BY <1>6 DEF Report, StrayStopped, CallerAnswered, AskToRegister
  <2> QED BY <1>0, <1>1, <1>4, <2>1
<1>7. ASSUME NEW t, AskSibling(t) PROVE FALSE
  <2>1. PICK g : inc' = [inc EXCEPT ![g] = Signalled(inc[g], "Terminate")]
    BY <1>7 DEF AskSibling
  <2> QED BY <1>0, <1>1, <1>4, <2>1
<1>8. ASSUME NEW c, Create(c), c.signals = {} PROVE FALSE
  <2>1. inc'[h] = inc[h] \/ inc'[h] = c
    BY <1>0, <1>8 DEF Create
  <2> QED BY <1>4, <1>8, <2>1
<1>9. CASE ReleaserReturns
  <2>1. inc'[h] = inc[h] \/ inc'[h] = told \/ inc'[h] = Held(inc[h], "owner")
    BY <1>0, <1>1, <1>9 DEF ReleaserReturns
  <2> QED BY <1>4, <2>1
<1>10. CASE ReceiveRegister
  <2>1. \/ inc' = inc
        \/ \E g, holder : inc' = [inc EXCEPT ![g] = Held(inc[g], holder)]
    BY <1>10 DEF ReceiveRegister
  <2> QED BY <1>0, <1>4, <2>1
<1>11. CASE ReceiveStarted
  <2>1. \/ inc' = inc
        \/ \E g : inc' = [inc EXCEPT ![g] = Held(Signalled(inc[g], "Terminate"), "stray")]
    BY <1>11 DEF ReceiveStarted
  <2> QED BY <1>0, <1>1, <1>4, <2>1
<1>12. CASE TerminateChildren
  <2>1. h \notin ShutdownChildren => inc'[h] = inc[h]
    BY <1>0, <1>12 DEF TerminateChildren
  <2> QED BY <1>4, <1>12, <2>1
<1>13. CASE Loop
  <2>1. CASE LaunchStart
    <3>1. PICK i, n : i = Head(pending) /\ n = slots[i].ern
      OBVIOUS
    <3>2. PICK c : c = [Unborn EXCEPT !.name = n, !.idx = i, !.life = "building",
                                      !.holder = "starter"]
      OBVIOUS
    <3>3. inc' = inc \/ Create(c)
      BY <2>1, <3>1, <3>2 DEF LaunchStart
    <3>4. c.signals = {}
      BY <3>2, UnbornFields DEF Child
    <3> QED BY <1>4, <1>8, <3>3, <3>4
  <2>2. CASE ~LaunchStart /\ ~ReceiveRegister /\ ~ReceiveStarted /\ ~TerminateChildren
    BY <1>4, <1>13, <2>2 DEF Loop, ReceiveUnregister, ReceiveDue, NoticeSettled,
       NoticeEscalates, NoticeRestarts, ReceiveStop, LeaveLoop, Stopped, childVars
  <2> QED BY <1>10, <1>11, <1>12, <2>1, <2>2
<1>14. ASSUME NEW t, SiblingDown(t) \/ SendDue(t) \/ AbandonBackoff(t) PROVE FALSE
  BY <1>4, <1>14 DEF SiblingDown, SendDue, AbandonBackoff, childVars
<1>15. ASSUME NEW n, SuperviseDeferred(n) \/ AskToRelease(n) PROVE FALSE
  BY <1>4, <1>15 DEF SuperviseDeferred, AskToRelease, childVars
<1>16. ASSUME NEW n \in Name, Hire(n) PROVE FALSE
  BY <1>8, <1>16, HiredChild
<1>17. CASE AskSupervisorToStop \/ UNCHANGED vars
  BY <1>4, <1>17 DEF AskSupervisorToStop, vars, childVars
<1> QED BY <1>5, <1>6, <1>7, <1>9, <1>13, <1>14, <1>15, <1>16, <1>17
        DEF Next, Tasks, Environment

\* Nobody is told before stock is taken, and the child that was let go never is.
LeftAlone ==
    /\ \A h \in Handle : OnePlace(h)
    /\ ~TakenStock => \A h \in Handle : "Cascade" \notin inc[h].signals
    /\ releaser.got # NoHandle => "Cascade" \notin inc[releaser.got].signals

\* Where the caller has the handle, the shutdown does not find it.
LEMMA ReleasedAreNotFound ==
    ASSUME SupInv, OnePlace(releaser.got), releaser.got # NoHandle, Adopted \cap Released = {}
    PROVE  releaser.got \notin ShutdownChildren
<1>0. PICK h : h = releaser.got
  OBVIOUS
<1>1. h \notin LiveHandles
  <2>1. \A i \in Index : slots[i].handle # h
    BY <1>0 DEF OnePlace
  <2> QED BY <1>0, <2>1, TakenSlots DEF LiveHandles, SupInv
<1>2. \A n \in Name : kids[n] # h
  BY <1>0 DEF SupInv, ReferencesHold, Born
<1>3. \A k \in 1..Len(inbox) : ~(StartedIn(k) /\ inbox[k].inc = h)
  BY <1>0 DEF OnePlace, Brings, StartedIn
<1>4. ASSUME h \in ShutdownChildren PROVE FALSE
  <2>1. CASE h \in {kids[n] : n \in Name \ NamesOf(LiveHandles)} \ {NoHandle}
    BY <1>2, <2>1
  <2>2. CASE \E k \in LateArrivals : h = inbox[k].inc
    BY <1>3, <2>2 DEF LateArrivals
  <2> QED BY <1>1, <1>4, <2>1, <2>2 DEF ShutdownChildren
<1> QED BY <1>0, <1>4

LEMMA LeftAloneStep ==
    ASSUME SupInv, LeftAlone, [Next]_vars, Adopted \cap Released = {}
    PROVE  LeftAlone'
<1>1. \A h \in Handle : OnePlace(h)'
  BY OnePlaceStep DEF LeftAlone
<1>2. ASSUME ~TakenStock', NEW h \in Handle PROVE "Cascade" \notin inc'[h].signals
  <2>1. ~TakenStock
    BY <1>2, PhasesInOrder DEF TakenStock
  <2>2. ~TerminateChildren
    BY <1>2 DEF TakenStock, TerminateChildren
  <2> QED BY <2>1, <2>2, OnlyTheShutdownCascades DEF LeftAlone
<1>3. ASSUME releaser'.got # NoHandle PROVE "Cascade" \notin inc'[releaser'.got].signals
  <2>1. PICK h : h = releaser'.got
    OBVIOUS
  <2>2. h \in Handle /\ h # NoHandle
    <3>1. SupInv'
      BY NextKeeps DEF SupStep
    <3> QED BY <1>3, <2>1, <3>1 DEF SupInv, SupTypeOK
  <2>3. CASE h = releaser.got
    <3>1. "Cascade" \notin inc[h].signals
      BY <2>2, <2>3 DEF LeftAlone
    <3>2. h \notin ShutdownChildren
      BY <2>2, <2>3, ReleasedAreNotFound DEF LeftAlone
    <3> QED BY <2>1, <2>2, <3>1, <3>2, OnlyTheShutdownCascades
  <2>4. CASE h # releaser.got
    <3>1. ReceiveUnregister
      BY <2>1, <2>2, <2>4, AnswerMoves
    <3>2. phase = "loop" /\ inc' = inc
      BY <3>1 DEF ReceiveUnregister, Receive, Waiting, childVars
    <3> QED BY <2>1, <2>2, <3>2 DEF LeftAlone, TakenStock
  <2> QED BY <2>3, <2>4
<1> QED BY <1>1, <1>2, <1>3 DEF LeftAlone

\* A child the caller released is the caller's: the shutdown of its former
\* supervisor does not stop it, however the request, the shutdown and the reports in
\* the inbox interleave, and under every strategy.  The children map never forgets,
\* so it takes that a caller lets go of no child it handed over with supervise().
THEOREM ReleasedStaysUp ==
    ASSUME Adopted \cap Released = {}
    PROVE  Spec => []ReleasedIsLeftRunning
<1>1. SupInv /\ LeftAlone /\ [Next]_vars => LeftAlone'
  BY LeftAloneStep
<1>2. Init => LeftAlone
  <2> SUFFICES ASSUME Init PROVE LeftAlone
    OBVIOUS
  <2>1. (\A h \in Handle : OnePlace(h)) /\ releaser.got = NoHandle
    BY OnePlaceAtFirst DEF Init
  <2>2. \A h \in Handle : inc[h].signals = {}
    BY DEF Init, Unborn
  <2> QED BY <2>1, <2>2 DEF LeftAlone
<1>3. Spec => []LeftAlone
  BY <1>1, <1>2, SupInvHolds, PTL DEF Spec
<1>4. LeftAlone => ReleasedIsLeftRunning
  BY DEF LeftAlone, ReleasedIsLeftRunning
<1> QED BY <1>3, <1>4, PTL

-------------------------------------------------------------------------------
(* Groups, whatever the strategy.  A sibling that was told to stop is down or *)
(* a group task has still to see to it; and as long as one group restart is   *)
(* over before the next failure is acted on, the restarts come in start order *)
(* and not before everybody is down.                                          *)

\* A slot is queued for a restart by a timer of its own.
LEMMA OnlyTimersQueue ==
    ASSUME RegInv, [RegNext]_regVars, NEW i \in Index,
           slots'[i].state = "AwaitingRestart", slots[i].state # "AwaitingRestart"
    PROVE  \E n \in Name : QueueRestart(i, n, slots[i].gen)
<1>1. CASE UNCHANGED regVars
  BY <1>1 DEF regVars
<1>2. ASSUME NEW j \in Index, NEW state \in SlotStates \ {"AwaitingRestart"}, NEW h,
             Rewrites(j, state, h)
      PROVE  FALSE
  BY <1>2 DEF Rewrites
<1>3. ASSUME NEW n \in Name, NEW restartable \in BOOLEAN, NEW h \in AnyHandle,
             NEW state \in {"Running", "Pending"},
             AddSlot(n, NewSlot(n, restartable, h, state))
      PROVE  FALSE
  <2>1. PICK u : u = used + 1
    OBVIOUS
  <2> QED BY <1>3, <2>1, NewSlotFields
<1>4. ASSUME NEW n \in Name, NEW h \in Handle, NEW restartable \in BOOLEAN,
             Register(n, h, restartable)
      PROVE  FALSE
  BY <1>3, <1>4 DEF Register, AnyHandle
<1>5. ASSUME NEW n \in Name, RegisterPending(n) PROVE FALSE
  <2>1. PICK restartable \in BOOLEAN, h \in AnyHandle :
          AddSlot(n, NewSlot(n, restartable, h, "Pending"))
    BY <1>5 DEF RegisterPending, AnyHandle
  <2> QED BY <1>3, <2>1
<1>6. ASSUME NEW n \in Name, NEW j \in Index, NEW h \in Handle, CompleteStart(j, n, h) PROVE FALSE
  BY <1>2, <1>6, CompleteStartRewrites DEF SlotStates
<1>7. ASSUME NEW n \in Name, NEW j \in Index, QueueRestart(j, n, slots[j].gen)
      PROVE  \E x \in Name : QueueRestart(i, x, slots[i].gen)
  <2>1. PICK g : g = slots[j].gen
    OBVIOUS
  <2>2. Rewrites(j, "AwaitingRestart", NoHandle)
    BY <1>7, <2>1, QueueRestartRewrites
  <2>3. j = i
    BY <2>2 DEF Rewrites
  <2> QED BY <1>7, <2>3
<1>8. ASSUME NEW n \in Name, NEW reason \in TerminationReasons, Notice(n, reason) PROVE FALSE
  <2>1. CASE IgnoreNotice(n)
    BY <1>1, <2>1 DEF IgnoreNotice, regVars
  <2>2. CASE GroupStopLanded(n)
    <3>1. PICK j : j = byErn[n]
      OBVIOUS
    <3> QED BY <2>2, <3>1, LandedStop
  <2>3. CASE ForgetChild(n, reason)
    BY <1>2, <2>3, ForgetChildRewrites, TakenSlots DEF SlotStates
  <2>4. CASE Escalates(n, reason)
    <3>1. slots[byErn[n]].charged \in Nat
      BY <2>4, TakenSlots DEF Escalates, FreshFailure, Slot
    <3>2. PICK kept \in Nat : EscalateChild(n, reason, kept)
      BY <2>4, <3>1 DEF Escalates
    <3> QED BY <1>2, <3>2, EscalateChildRewrites, TakenSlots DEF SlotStates
  <2>5. CASE Restarts(n, reason)
    <3>1. slots[byErn[n]].charged \in Nat
      BY <2>5, TakenSlots DEF Restarts, FreshFailure, Slot
    <3>2. PICK kept \in Nat : ScheduleRestart(n, reason, kept)
      BY <2>5, <3>1 DEF Restarts
    <3>3. PICK plan : plan = RestartPlanFor(n)
      OBVIOUS
    <3> QED BY <3>2, <3>3, ScheduleRearranges DEF Rearranges
  <2> QED BY <1>8, <2>1, <2>2, <2>3, <2>4, <2>5 DEF Notice
<1>9. ASSUME NEW n \in Name, Retire(n) \/ RetireUnknown(n) \/ RegisterDuplicate(n) PROVE FALSE
  <2>1. Retire(n) => FALSE
    BY <1>2, RetireRewrites, TakenSlots DEF SlotStates
  <2> QED BY <1>1, <1>9, <2>1 DEF RetireUnknown, RegisterDuplicate, regVars
<1>10. ASSUME NEW j \in Index, FailStart(j) PROVE FALSE
  BY <1>2, <1>10, FailStartRewrites DEF SlotStates
<1>11. CASE SettleForShutdown
  BY <1>11, SettledSlots
<1>12. CASE BeginStart
  <2>1. PICK j : j = Head(pending)
    OBVIOUS
  <2>2. CASE ~Launchable(j)
    BY <1>12, <2>1, <2>2, BeginStartRewrites
  <2>3. CASE Launchable(j)
    <3>1. PICK state \in {"Starting", "Restarting"} : Rewrites(j, state, NoHandle)
      BY <1>12, <2>1, <2>3, BeginStartRewrites
    <3> QED BY <1>2, <1>12, <2>1, <3>1, BeginStartRewrites DEF SlotStates
  <2> QED BY <2>2, <2>3
<1> QED BY <1>1, <1>4, <1>5, <1>6, <1>7, <1>8, <1>9, <1>10, <1>11, <1>12 DEF RegNext

LEMMA TimersAreRead ==
    ASSUME SupInv, [Next]_vars, NEW i \in Index, NEW n, NEW g, QueueRestart(i, n, g)
    PROVE  /\ ReceiveDue /\ inbox # <<>> /\ Head(inbox).type = "RestartDue"
           /\ IsDueOf(Head(inbox), i)
<1>1. /\ pending' = Append(pending, i) /\ used' = used /\ pending \in Seq(Index)
      /\ used \in Nat
  BY TakenSlots DEF QueueRestart, SupInv, RegInv, RegTypeOK
<1>2. pending' # pending /\ pending' # <<>> /\ pending'[Len(pending) + 1] = i
  BY <1>1
<1>3. pending # <<>> => pending' # Tail(pending)
  BY <1>1
<1>4. ~LaunchStart
  BY <1>3 DEF LaunchStart, BeginStart
<1>5. ASSUME NEW x, SuperviseDeferred(x) PROVE FALSE
  <2>1. used' = used + 1
    BY <1>5 DEF SuperviseDeferred, RegisterPending, AddSlot
  <2> QED BY <1>1, <2>1
<1>6. ~ReceiveRegister /\ ~ReceiveStarted /\ ~ReceiveUnregister
  BY <1>2 DEF ReceiveRegister, ReceiveStarted, ReceiveUnregister, Register, RegisterDuplicate,
     CompleteStart, FailStart, Retire, RetireUnknown, regVars
<1>7. ~NoticeSettled /\ ~NoticeEscalates /\ ~NoticeRestarts
  BY <1>2 DEF NoticeSettled, NoticeEscalates, NoticeRestarts, IgnoreNotice, GroupStopLanded,
     ForgetChild, Escalates, EscalateChild, Restarts, ScheduleRestart, regVars
<1>8. ~ReceiveStop /\ ~LeaveLoop /\ ~TerminateChildren /\ ~Stopped
  BY <1>2 DEF ReceiveStop, LeaveLoop, TerminateChildren, Stopped, SettleForShutdown, regVars
<1>9. ReceiveDue
  BY <1>2, <1>4, <1>5, <1>6, <1>7, <1>8, OnlyTheLoopDecides DEF Loop, regVars
<1>10. PICK m, j, x, y : m = Head(inbox) /\ j = m.idx /\ x = m.name /\ y = m.gen
  OBVIOUS
<1>11. inbox # <<>> /\ m.type = "RestartDue" /\ QueueRestart(j, x, y)
  BY <1>2, <1>9, <1>10 DEF ReceiveDue, Receive, regVars
<1>12. j \in Index /\ pending' = Append(pending, j)
  BY <1>10, <1>11, HeadRefers DEF QueueRestart, Message
<1>13. j = i
  BY <1>1, <1>2, <1>12
<1> QED BY <1>9, <1>10, <1>11, <1>13 DEF QueueRestart, TimerMatches, IsDueOf

LEMMA QueuedByItsDue ==
    ASSUME SupInv, [Next]_vars, NEW i \in Index,
           slots'[i].state = "AwaitingRestart", slots[i].state # "AwaitingRestart"
    PROVE  /\ ReceiveDue /\ inbox # <<>> /\ Head(inbox).type = "RestartDue"
           /\ IsDueOf(Head(inbox), i)
<1>1. PICK n \in Name : QueueRestart(i, n, slots[i].gen)
  BY NextKeeps, OnlyTimersQueue DEF SupStep, SupInv
<1>2. PICK g : g = slots[i].gen
  OBVIOUS
<1> QED BY <1>1, <1>2, TimersAreRead

\* Only a group task asks for a restart.
LEMMA DuesAreSent ==
    ASSUME SupInv, [Next]_vars, NEW m, inbox' = Append(inbox, m), m.type = "RestartDue"
    PROVE  \E t \in groups : SendDue(t) /\ m = DueMsg(NextDue(t))
<1> DEFINE len == Len(inbox)
<1>1. /\ inbox \in Seq(Message) /\ len \in Nat
      /\ Len(inbox') = len + 1 /\ inbox'[len + 1] = m /\ inbox' # inbox
  <2>1. inbox \in Seq(Message)
    BY DEF SupInv, SupTypeOK
  <2> QED BY <2>1
<1>2. inbox \in Seq(Message) /\ Len(inbox') = Len(inbox) + 1 /\ inbox'[Len(inbox) + 1] = m
      /\ inbox' # inbox /\ m.type = "RestartDue"
  BY <1>1
<1>3. ASSUME NEW x, Deliver(x) PROVE x = m
  <2>1. inbox' = Append(inbox, x)
    BY <1>2, <1>3 DEF Deliver
  <2> QED BY ONLY <1>2, <2>1
<1>4. ~Receives
  BY ONLY <1>2, ReceivesTakes
<1>5. inbox' # <<>>
  BY ONLY <1>2
<1>6. CASE Loop
  BY ONLY <1>2, <1>4, <1>5, <1>6 DEF Loop, Receives, LaunchStart, LeaveLoop, TerminateChildren,
     Stopped, loopVars
<1>7. ASSUME NEW h, Fault(h) \/ Obey(h) PROVE FALSE
  <2>1. PICK reason : Deliver(TerminatedMsg(h, reason))
    BY <1>7 DEF Fault, Obey, Die
  <2> QED BY <1>2, <1>3, <2>1 DEF TerminatedMsg
<1>8. ASSUME NEW h, Report(h) PROVE FALSE
  BY <1>2, <1>3, <1>8 DEF Report, StartedMsg
<1>9. ASSUME NEW h, AskToRegister(h) PROVE FALSE
  <2>1. PICK r : Deliver(RegisterMsg(h, r))
    BY <1>9 DEF AskToRegister
  <2> QED BY <1>2, <1>3, <2>1 DEF RegisterMsg
<1>10. ASSUME NEW n, AskToRelease(n) PROVE FALSE
  BY <1>2, <1>3, <1>10 DEF AskToRelease, UnregisterMsg
<1>11. ASSUME NEW t \in groups, SendDue(t) PROVE m = DueMsg(NextDue(t))
  BY <1>3, <1>11 DEF SendDue
<1>12. CASE AskSupervisorToStop
  BY <1>2, <1>3, <1>12 DEF AskSupervisorToStop, StopMsg
<1>13. ASSUME NEW h, Build(h) \/ StrayStopped(h) \/ CallerAnswered(h) PROVE FALSE
  BY ONLY <1>2, <1>13 DEF Build, StrayStopped, CallerAnswered, loopVars
<1>14. ASSUME NEW t, AskSibling(t) \/ SiblingDown(t) \/ AbandonBackoff(t) PROVE FALSE
  BY ONLY <1>2, <1>14 DEF AskSibling, SiblingDown, AbandonBackoff, loopVars
<1>15. ASSUME NEW n, SuperviseDeferred(n) \/ Hire(n) PROVE FALSE
  BY ONLY <1>2, <1>15 DEF SuperviseDeferred, Hire, loopVars
<1>16. CASE ReleaserReturns \/ UNCHANGED vars
  BY ONLY <1>2, <1>16 DEF ReleaserReturns, vars, loopVars
<1> QED BY <1>6, <1>7, <1>8, <1>9, <1>10, <1>11, <1>12, <1>13, <1>14, <1>15, <1>16
        DEF Next, Tasks, Environment

\* Where the messages are, before and after.
Shifts(s) ==
    /\ s = 1 => Receives /\ inbox # <<>>
    /\ Len(inbox) \in Nat /\ Len(inbox') \in Nat
    /\ \A l \in 1..Len(inbox) :
         l > s => l - s \in 1..Len(inbox') /\ inbox'[l - s] = inbox[l]
    /\ \A k \in 1..Len(inbox') :
         \/ k + s \in 1..Len(inbox) /\ inbox'[k] = inbox[k + s]
         \/ s = 0 /\ k = Len(inbox) + 1 /\ inboxOpen /\ inbox' = Append(inbox, inbox'[k])

LEMMA InboxShifts ==
    ASSUME SupInv, [Next]_vars, ~TerminateChildren
    PROVE  \E s \in {0, 1} : Shifts(s)
<1>1. inbox \in Seq(Message) /\ Len(inbox) \in Nat
  BY DEF SupInv, SupTypeOK
<1>2. CASE inbox' = inbox
  BY <1>1, <1>2 DEF Shifts
<1>3. ASSUME NEW m, inboxOpen, inbox' = Append(inbox, m) PROVE Shifts(0)
  <2>1. /\ Len(inbox') = Len(inbox) + 1 /\ inbox'[Len(inbox) + 1] = m
        /\ \A l \in 1..Len(inbox) : inbox'[l] = inbox[l]
    BY <1>1, <1>3
  <2> QED BY <1>1, <1>3, <2>1 DEF Shifts
<1>4. CASE Receives
  <2>1. inbox # <<>> /\ inbox' = Tail(inbox)
    BY <1>4, ReceivesTakes
  <2>2. /\ Len(inbox) >= 1 /\ Len(inbox') = Len(inbox) - 1
        /\ \A k \in 1..Len(inbox') : inbox'[k] = inbox[k + 1]
    BY <1>1, <2>1
  <2>3. ASSUME NEW l \in 1..Len(inbox), l > 1
        PROVE  l - 1 \in 1..Len(inbox') /\ inbox'[l - 1] = inbox[l]
    <3>1. l - 1 \in 1..Len(inbox') /\ (l - 1) + 1 = l
      BY <1>1, <2>2, <2>3
    <3> QED BY <2>2, <3>1
  <2>4. \A k \in 1..Len(inbox') : k + 1 \in 1..Len(inbox)
    BY <1>1, <2>2
  <2>5. Shifts(1)
    BY <1>1, <1>4, <2>1, <2>2, <2>3, <2>4 DEF Shifts
  <2> QED BY <2>5
<1> QED BY <1>2, <1>3, <1>4, InboxMoves

\* A restart that is asked for of a slot that waits for it is granted, and the end
\* of a child that was told to stop is taken for what it is.
LEMMA ItsDueIsTaken ==
    ASSUME SupInv, Receives, NEW m, m = Head(inbox), m.type = "RestartDue",
           NEW j \in Index, IsDueOf(m, j), slots[j].state = "AwaitingBackoff"
    PROVE  slots'[j].state = "AwaitingRestart"
<1>1. ReceiveDue
  BY DEF Receives, ReceiveRegister, ReceiveUnregister, ReceiveStarted,
     NoticeSettled, NoticeEscalates, NoticeRestarts, ReceiveStop, Receive
<1>2. PICK n, g : n = m.name /\ g = m.gen
  OBVIOUS
<1>3. m \in Message
  BY ReceivesTakes, HeadRefers
<1>4. TimerMatches(j, n, g) /\ m.idx = j /\ n \in Name
  BY <1>2, <1>3 DEF IsDueOf, TimerMatches, Message
<1>5. QueueRestart(j, n, g)
  BY <1>1, <1>2, <1>4 DEF ReceiveDue
<1> QED BY <1>4, <1>5, QueueRestartRewrites DEF Rewrites, SupInv

NotYetShuttingDown == phase = "loop" => ~shuttingDown

LEMMA NotYetShuttingDownStep ==
    ASSUME SupInv, NotYetShuttingDown, [Next]_vars
    PROVE  NotYetShuttingDown'
<1> SUFFICES ASSUME phase' = "loop" PROVE ~shuttingDown'
  BY DEF NotYetShuttingDown
<1>1. phase = "loop"
  BY TheRegistryRests
<1>2. shuttingDown' = shuttingDown
  <2>1. CASE Loop
    <3>1. ~LeaveLoop
      BY DEF LeaveLoop
    <3>2. LaunchStart => shuttingDown' = shuttingDown
      BY DEF LaunchStart, BeginStart
    <3>3. ReceiveRegister \/ ReceiveStarted \/ ReceiveUnregister \/ ReceiveDue
            => shuttingDown' = shuttingDown
      BY DEF ReceiveRegister, ReceiveStarted, ReceiveUnregister, ReceiveDue, Register,
         RegisterDuplicate, CompleteStart, FailStart, Retire, RetireUnknown, QueueRestart, regVars
    <3>4. NoticeSettled => shuttingDown' = shuttingDown
      BY DEF NoticeSettled, IgnoreNotice, GroupStopLanded, ForgetChild, regVars
    <3>5. NoticeEscalates => shuttingDown' = shuttingDown
      BY DEF NoticeEscalates, Escalates, EscalateChild
    <3>6. NoticeRestarts => shuttingDown' = shuttingDown
      BY DEF NoticeRestarts, Restarts, ScheduleRestart
    <3>7. ReceiveStop \/ TerminateChildren \/ Stopped => shuttingDown' = shuttingDown
      BY DEF ReceiveStop, TerminateChildren, Stopped, regVars
    <3> QED BY <2>1, <3>1, <3>2, <3>3, <3>4, <3>5, <3>6, <3>7 DEF Loop
  <2>2. CASE \E n \in Name : SuperviseDeferred(n)
    BY <2>2 DEF SuperviseDeferred, RegisterPending
  <2>3. CASE UNCHANGED <<regVars, inboxOpen, cancelled, phase, toStop>>
    BY <2>3 DEF regVars
  <2> QED BY <2>1, <2>2, <2>3, OnlyTheLoopDecides
<1> QED BY <1>1, <1>2 DEF NotYetShuttingDown

LEMMA ItsEndIsTaken ==
    ASSUME SupInv, NotYetShuttingDown, Receives, NEW m, m = Head(inbox),
           m.type = "ChildTerminated", NEW j \in Index, slots[j].state \in ExpectedStop,
           m.inc = slots[j].handle
    PROVE  slots'[j].state \notin ExpectedStop
<1>1. NoticeSettled \/ NoticeEscalates \/ NoticeRestarts
  BY DEF Receives, ReceiveRegister, ReceiveUnregister, ReceiveStarted, ReceiveDue,
     ReceiveStop, Receive
<1>2. PICK n, reason, h : n = m.name /\ reason = m.reason /\ h = m.inc
  OBVIOUS
<1>3. m \in Message /\ MessageRefers(m) /\ phase = "loop"
  BY ReceivesTakes, HeadRefers DEF Waiting
<1>4. inc[h].name = n /\ n \in Name /\ h # NoHandle
  BY <1>2, <1>3, BornHandles DEF MessageRefers, Born, Message
<1>5. slots[j].ern = n /\ j \in Taken
  BY <1>2, <1>4, TakenSlots DEF SupInv, ReferencesHold, SlotRefers, Born, ExpectedStop
<1>6. byErn[n] = j /\ Supervised(n)
  BY <1>5, TakenSlots DEF SupInv, RegInv, NamesLeadToTheirSlots, ExpectedStop, Supervised,
     NoSlot, Index
<1>7. ~shuttingDown
  BY <1>3 DEF NotYetShuttingDown
<1>8. ~FreshFailure(n) /\ ~IgnoreNotice(n)
  BY <1>6, <1>7 DEF FreshFailure, IgnoreNotice, Accepting, ExpectedStop
<1>9. GroupStopLanded(n)
  BY <1>1, <1>2, <1>8 DEF NoticeSettled, NoticeEscalates, NoticeRestarts, ForgetChild,
     Escalates, Restarts
<1> QED BY <1>4, <1>6, <1>9, LandedStop DEF SupInv, ExpectedStop

-------------------------------------------------------------------------------
(* The invariant.                                                            *)

DueAt(k, j) == inbox[k].type = "RestartDue" /\ IsDueOf(inbox[k], j)
EndAt(k, j) == inbox[k].type = "ChildTerminated" /\ inbox[k].inc = slots[j].handle
AsksFor(k, i) == inbox[k].type = "RestartDue" /\ inbox[k].idx = i

\* A stop that was begun is over or a group task has still to see to it.
SeesTo(t, i) == \E s \in t.stops : s.idx = i /\ s.inc = slots[i].handle
StopSeenTo(i) ==
    slots[i].state \in ExpectedStop =>
        Over(slots[i].handle) \/ \E t \in groups : SeesTo(t, i)
StopsAreSeenTo == \A i \in Index : StopSeenTo(i)

Running == phase = "loop" /\ ~cancelled

\* While a restart is asked for nobody is being stopped, and there is one group.
OneAtATime ==
    /\ \A t, u \in groups : t = u
    /\ Len(pending) <= 1
    /\ \/ \E i \in Index : slots[i].state = "AwaitingRestart"
       \/ \E k \in 1..Len(inbox) : inbox[k].type = "RestartDue"
       => \A t \in groups : t.stops = {}

\* A child that comes back is asked for before the later ones: the request is in
\* the group task's hands, or ahead of theirs in the inbox.
ComesBack(j) == slots[j].state \in ToComeBack /\ slots[j].ern \notin Overruns
Ahead(j, i) ==
    /\ slots[i].state # "AwaitingRestart"
    /\ \A k \in 1..Len(inbox) : AsksFor(k, i) => \E l \in 1..Len(inbox) : l < k /\ DueAt(l, j)
    /\ \A t \in groups : \A d \in t.dues : d.idx = i =>
         (\E e \in t.dues : IsDueOf(e, j)) \/ \E l \in 1..Len(inbox) : DueAt(l, j)

\* It is not asked for before the notice of its end, which is on its way as soon as
\* it is down.
EndFirst(j) ==
    slots[j].state = "StopThenRestart" /\ slots[j].ern \notin Overruns =>
        \A k \in 1..Len(inbox) : AsksFor(k, j) =>
            \E l \in 1..Len(inbox) : l < k /\ EndAt(l, j)
EndIsTold(j) ==
    slots[j].state = "StopThenRestart" /\ inc[slots[j].handle].life = "dead" =>
        NoticePending(slots[j].handle)

GroupInv ==
    /\ NotYetShuttingDown
    /\ StopsAreSeenTo
    /\ Running =>
         /\ OneAtATime
         /\ \A i, j \in Index : j < i /\ ComesBack(j) => Ahead(j, i)
         /\ \A j \in Index : EndFirst(j)
    /\ Serving => \A j \in Index : EndIsTold(j)


-------------------------------------------------------------------------------
(* What the invariant needs of each step.                                    *)

\* A failure is acted on when the group restart before it is over and done with,
\* and no child that has ended unnoticed is on record as running.
NoRestartUnderway ==
    /\ groups = {}
    /\ \A k \in 1..Len(inbox) : inbox[k].type # "RestartDue"
    /\ \A i \in Taken : slots[i].state \notin ToComeBack
OneGroupAtATime == [][NoticeRestarts => NoRestartUnderway /\ RunningMeansServed]_vars

LEMMA OverStays ==
    ASSUME SupInv, [Next]_vars, NEW h \in 1..born, Over(h)
    PROVE  Over(h)'
<1>1. ChildStep(inc[h], inc'[h])
  BY NextKeeps DEF SupStep, ChildrenStep
<1> QED BY <1>1 DEF ChildStep, Over

\* The child of a slot whose stop was begun.
LEMMA StoppedChild ==
    ASSUME SupInv, NEW i \in Index, slots[i].state \in ExpectedStop,
           NEW h, h = slots[i].handle
    PROVE  /\ h \in Handle /\ h \in 1..born /\ Kept(h) /\ i \in Taken
           /\ inc[h].name = slots[i].ern /\ inc[h].life # "building"
<1>1. h # NoHandle /\ i \in Taken
  BY TakenSlots DEF Sound, SupInv, ExpectedStop
<1>2. Born(h, slots[i].ern) /\ Kept(h)
  BY <1>1 DEF SupInv, ReferencesHold, SlotRefers
<1>3. h \in Handle /\ Sane(inc[h])
  BY <1>2, BornHandles DEF Born
<1> QED BY <1>1, <1>2, <1>3 DEF Born, Kept, Sane

LEMMA StopSeenToStep ==
    ASSUME SupInv, StopsAreSeenTo, [Next]_vars, NEW i \in Index
    PROVE  StopSeenTo(i)'
<1> SUFFICES ASSUME slots'[i].state \in ExpectedStop
             PROVE  Over(slots[i].handle)' \/ \E t \in groups' : SeesTo(t, i)'
  BY DEF StopSeenTo
<1>1. CASE ~NoticeRestarts
  <2>1. slots[i].state \in ExpectedStop /\ slots'[i].handle = slots[i].handle
    BY <1>1, RecordsMoveOn
  <2>2. PICK h : h = slots[i].handle
    OBVIOUS
  <2>3. h \in 1..born
    BY <2>1, <2>2, StoppedChild
  <2>4. Over(h) => Over(h)'
    BY <2>3, OverStays
  <2>5. ASSUME NEW t \in groups, SeesTo(t, i), ~Over(h)
        PROVE  \E u \in groups' : \E s \in u.stops : s.idx = i /\ s.inc = h
    <3>1. PICK s \in t.stops : s.idx = i /\ s.inc = h
      BY <2>2, <2>5 DEF SeesTo
    <3>2. CASE t \in groups'
      BY <3>1, <3>2
    <3>3. ASSUME NEW r \in groups, NEW u, Proceeds(r, u), t \notin groups'
          PROVE  u \in groups' /\ s \in u.stops
      <4>1. r = t /\ u \in groups'
        BY <3>3 DEF Proceeds
      <4>2. Over(NextStop(t).inc) => s # NextStop(t)
        BY <2>5, <3>1
      <4> QED BY <3>1, <3>3, <4>1, <4>2 DEF Proceeds
    <3>4. ASSUME NEW r \in groups, r.stops = {}, groups \ {r} \subseteq groups'
          PROVE  t \in groups'
      BY <3>1, <3>4
    <3>5. ASSUME NEW r \in groups, SendDue(r) PROVE t \in groups'
      <4>1. r.stops = {} /\ groups \ {r} \subseteq groups'
        BY <3>5, AskingForOne
      <4> QED BY <3>4, <4>1
    <3> QED BY <1>1, <3>1, <3>2, <3>3, <3>4, <3>5, GroupsMove
  <2>6. Over(h) \/ \E t \in groups : SeesTo(t, i)
    BY <2>1, <2>2 DEF StopsAreSeenTo, StopSeenTo
  <2>7. CASE Over(h)
    <3>1. slots'[i].handle = h /\ Over(h)'
      BY <2>1, <2>2, <2>4, <2>7
    <3> QED BY <3>1 DEF Over
  <2> QED BY <2>1, <2>2, <2>5, <2>6, <2>7 DEF SeesTo
<1>2. CASE NoticeRestarts
  <2>1. PICK plan, x : /\ Rearranges(plan) /\ groups' = groups \cup {GroupTask(x, plan)}
                       /\ UNCHANGED childVars
    BY <1>2, GroupBegins
  <2>2. CASE i \in plan.stop
    <3>1. slots'[i].handle = slots[i].handle
      BY <2>1, <2>2 DEF Rearranges
    <3>2. PICK s : s = [idx |-> i, inc |-> slots[i].handle]
      OBVIOUS
    <3>3. s \in GroupTask(x, plan).stops
      BY <2>2, <3>2 DEF GroupTask
    <3>4. s.idx = i /\ s.inc = slots'[i].handle
      BY <3>1, <3>2
    <3> QED BY <2>1, <3>3, <3>4 DEF SeesTo
  <2>3. CASE i \notin plan.stop
    <3>1. slots'[i].state = slots[i].state /\ slots'[i].handle = slots[i].handle
      BY <2>1, <2>3 DEF Rearranges, ExpectedStop
    <3>2. Over(slots[i].handle) \/ \E t \in groups : SeesTo(t, i)
      BY <3>1 DEF StopsAreSeenTo, StopSeenTo
    <3> QED BY <2>1, <3>1, <3>2 DEF Over, SeesTo, childVars
  <2> QED BY <2>2, <2>3
<1> QED BY <1>1, <1>2

\* While the loop waits for its inbox nothing is queued.
LEMMA NothingIsQueued ==
    ASSUME SupInv, QueuedSlotsAreInTheQueue, Running, Waiting
    PROVE  pending = <<>> /\ \A i \in Index : ~Launchable(i)
<1>1. pending = <<>>
  BY DEF Running, Waiting, LaunchDue
<1>2. \A i \in Index : Launchable(i) => i \in Taken
  BY TakenSlots DEF SupInv, Launchable
<1> QED BY <1>1, <1>2 DEF QueuedSlotsAreInTheQueue

LEMMA RunningSince ==
    ASSUME SupInv, [Next]_vars, Running'
    PROVE  Running /\ ~TerminateChildren /\ ~LeaveLoop
<1>1. phase = "loop" /\ phase' = "loop"
  BY TheRegistryRests DEF Running
<1>2. cancelled' = cancelled \/ cancelled' = (cancelled \/ Escalation = "StopSupervisor")
  <2>1. CASE Loop
    BY <2>1 DEF Loop, LaunchStart, ReceiveRegister, ReceiveUnregister, ReceiveStarted,
       ReceiveDue, NoticeSettled, NoticeEscalates, NoticeRestarts, ReceiveStop, LeaveLoop,
       TerminateChildren, Stopped, loopVars
  <2>2. CASE \E n \in Name : SuperviseDeferred(n)
    BY <2>2 DEF SuperviseDeferred, loopVars
  <2> QED BY <2>1, <2>2, OnlyTheLoopDecides
<1>3. cancelled \in BOOLEAN /\ ~cancelled'
  BY DEF SupInv, SupTypeOK, Running
<1>4. ~cancelled
  BY <1>2, <1>3
<1> QED BY <1>1, <1>4 DEF Running, TerminateChildren, LeaveLoop

LEMMA QueueMoves ==
    ASSUME [Next]_vars
    PROVE  \/ pending' = pending
           \/ LaunchStart /\ pending # <<>> /\ pending' = Tail(pending)
           \/ pending' = <<>>
           \/ Waiting /\ \E i : pending' = Append(pending, i)
<1>1. CASE Loop
  <2>1. LaunchStart => pending # <<>> /\ pending' = Tail(pending)
    BY DEF LaunchStart, BeginStart
  <2>2. ReceiveRegister \/ ReceiveStarted \/ ReceiveUnregister => pending' = pending
    BY DEF ReceiveRegister, ReceiveStarted, ReceiveUnregister, Register, RegisterDuplicate,
       CompleteStart, FailStart, Retire, RetireUnknown, regVars
  <2>3. ReceiveDue => pending' = pending \/ (Waiting /\ \E i : pending' = Append(pending, i))
    BY DEF ReceiveDue, Receive, QueueRestart, regVars
  <2>4. NoticeSettled => pending' = pending
    BY DEF NoticeSettled, IgnoreNotice, GroupStopLanded, ForgetChild, regVars
  <2>5. NoticeEscalates => pending' = pending
    BY DEF NoticeEscalates, Escalates, EscalateChild
  <2>6. NoticeRestarts => pending' = pending
    BY DEF NoticeRestarts, Restarts, ScheduleRestart
  <2>7. ReceiveStop \/ TerminateChildren \/ Stopped => pending' = pending
    BY DEF ReceiveStop, TerminateChildren, Stopped, regVars
  <2>8. LeaveLoop => pending' = <<>>
    BY DEF LeaveLoop, SettleForShutdown
  <2> QED BY <1>1, <2>1, <2>2, <2>3, <2>4, <2>5, <2>6, <2>7, <2>8 DEF Loop
<1>2. CASE \E n \in Name : SuperviseDeferred(n)
  BY <1>2 DEF SuperviseDeferred, RegisterPending
<1>3. CASE UNCHANGED <<regVars, inboxOpen, cancelled, phase, toStop>>
  BY <1>3 DEF regVars
<1> QED BY <1>1, <1>2, <1>3, OnlyTheLoopDecides

\* While nobody is being stopped no group task begins to stop anybody.
LEMMA GroupsStayDown ==
    ASSUME SupInv, [Next]_vars, ~NoticeRestarts, \A t \in groups : t.stops = {}
    PROVE  \A t \in groups' : t.stops = {}
<1>1. ASSUME NEW t \in groups, SendDue(t) PROVE \A u \in groups' : u.stops = {}
  BY <1>1, AskingForOne
<1>2. ASSUME NEW t \in groups, NEW u, Proceeds(t, u), t.stops # {} PROVE FALSE
  BY <1>2
<1> QED BY <1>1, <1>2, GroupsMove

LEMMA OneGroupStays ==
    ASSUME SupInv, [Next]_vars, ~NoticeRestarts, \A t, u \in groups : t = u
    PROVE  \A t, u \in groups' : t = u
<1>1. ASSUME NEW t \in groups, NEW u, Proceeds(t, u) PROVE groups' = {u}
  BY <1>1 DEF Proceeds
<1>2. ASSUME NEW t \in groups, SendDue(t) PROVE groups' = {} \/ \E u : groups' = {u}
  <2>1. groups' = groups \ {t} \/ \E u : groups' = (groups \ {t}) \cup {u}
    BY <1>2, AskingForOne
  <2>2. groups \ {t} = {}
    OBVIOUS
  <2> QED BY <2>1, <2>2
<1> QED BY <1>1, <1>2, GroupsMove

LEMMA OneAtATimeStep ==
    ASSUME SupInv, QueuedSlotsAreInTheQueue, OneAtATime, [Next]_vars, Running',
           NoticeRestarts => NoRestartUnderway
    PROVE  OneAtATime'
<1>0. Running /\ ~TerminateChildren
  BY RunningSince
<1>1. \A t, u \in groups' : t = u
  <2>1. CASE NoticeRestarts
    <3>1. PICK plan, h : groups' = groups \cup {GroupTask(h, plan)}
      BY <2>1, GroupBegins
    <3>2. PICK u : u = GroupTask(h, plan)
      OBVIOUS
    <3>3. groups' = {u}
      BY <2>1, <3>1, <3>2 DEF NoRestartUnderway
    <3> QED BY <3>3
  <2> QED BY <2>1, OneGroupStays DEF OneAtATime
<1>2. Len(pending') <= 1
  <2>1. pending \in Seq(Index) /\ Len(pending) <= 1
    BY DEF SupInv, RegInv, RegTypeOK, OneAtATime
  <2>2. CASE pending' = pending \/ pending' = <<>>
    BY <2>1, <2>2
  <2>3. CASE LaunchStart /\ pending # <<>> /\ pending' = Tail(pending)
    BY <2>1, <2>3
  <2>4. ASSUME Waiting, NEW i, pending' = Append(pending, i) PROVE Len(pending') <= 1
    <3>1. pending = <<>>
      BY <1>0, <2>4, NothingIsQueued
    <3> QED BY <2>4, <3>1
  <2> QED BY <2>2, <2>3, <2>4, QueueMoves
<1>3. ASSUME \/ \E i \in Index : slots'[i].state = "AwaitingRestart"
             \/ \E k \in 1..Len(inbox') : inbox'[k].type = "RestartDue"
      PROVE  \A t \in groups' : t.stops = {}
  <2>1. CASE NoticeRestarts
    <3>1. PICK plan : /\ Rearranges(plan) /\ Waiting
                      /\ inbox # <<>> /\ inbox' = Tail(inbox)
      BY <2>1, GroupBegins
    <3>2. \A i \in Index : slots[i].state # "AwaitingRestart"
      BY <1>0, <3>1, NothingIsQueued DEF Launchable
    <3>3. \A i \in Index : slots'[i].state # "AwaitingRestart"
      BY <3>1, <3>2 DEF Rearranges
    <3>4. /\ inbox \in Seq(Message)
          /\ \A k \in 1..Len(inbox') : k + 1 \in 1..Len(inbox) /\ inbox'[k] = inbox[k + 1]
      <4>1. inbox \in Seq(Message)
        BY DEF SupInv, SupTypeOK
      <4> QED BY <3>1, <4>1
    <3> QED BY <1>3, <2>1, <3>3, <3>4 DEF NoRestartUnderway
  <2>2. CASE ~NoticeRestarts
    <3>1. CASE \E i \in Index : slots[i].state = "AwaitingRestart"
      BY <2>2, <3>1, GroupsStayDown DEF OneAtATime
    <3>2. CASE \E k \in 1..Len(inbox) : inbox[k].type = "RestartDue"
      BY <2>2, <3>2, GroupsStayDown DEF OneAtATime
    <3>3. ASSUME NEW i \in Index, slots'[i].state = "AwaitingRestart",
                 slots[i].state # "AwaitingRestart"
          PROVE  \E k \in 1..Len(inbox) : inbox[k].type = "RestartDue"
      <4>1. inbox # <<>> /\ Head(inbox).type = "RestartDue"
        BY <3>3, QueuedByItsDue
      <4>2. 1 \in 1..Len(inbox) /\ inbox[1] = Head(inbox)
        BY <4>1 DEF SupInv, SupTypeOK
      <4> QED BY <4>1, <4>2
    <3>4. ASSUME NEW k \in 1..Len(inbox'), inbox'[k].type = "RestartDue",
                 \A l \in 1..Len(inbox) : inbox[l].type # "RestartDue"
          PROVE  \A t \in groups : t.stops = {}
      <4>1. PICK s \in {0, 1} : Shifts(s)
        BY <1>0, InboxShifts
      <4>2. PICK m : m = inbox'[k]
        OBVIOUS
      <4>3. inbox' = Append(inbox, m)
        BY <3>4, <4>1, <4>2 DEF Shifts
      <4>4. PICK t \in groups : SendDue(t)
        BY <3>4, <4>2, <4>3, DuesAreSent
      <4>5. t.stops = {}
        BY <4>4, AskingForOne
      <4> QED BY <4>5 DEF OneAtATime
    <3>5. CASE \A t \in groups : t.stops = {}
      BY <2>2, <3>5, GroupsStayDown
    <3> QED BY <1>3, <3>1, <3>2, <3>3, <3>4, <3>5
  <2> QED BY <2>1, <2>2
<1> QED BY <1>1, <1>2, <1>3 DEF OneAtATime

\* A child that comes back does so under the name and in the generation it had.
LEMMA StillComesBack ==
    ASSUME SupInv, [Next]_vars, ~NoticeRestarts, NEW j \in Index, ComesBack(j)'
    PROVE  /\ ComesBack(j)
           /\ \A d : IsDueOf(d, j) => IsDueOf(d, j)'
           /\ \A l, k : inbox'[k] = inbox[l] /\ DueAt(l, j) => DueAt(k, j)'
<1>1. slots[j].state \in ToComeBack /\ slots'[j].ern = slots[j].ern /\ slots'[j].gen = slots[j].gen
  BY RecordsMoveOn DEF ComesBack
<1>2. \A d : IsDueOf(d, j) => IsDueOf(d, j)'
  BY <1>1 DEF IsDueOf
<1> QED BY <1>1, <1>2 DEF ComesBack, DueAt

\* Its restart stays asked for until it is granted.
LEMMA DueOfOneStays ==
    ASSUME SupInv, [Next]_vars, ~NoticeRestarts, NEW j \in Index,
           ComesBack(j)', EndFirst(j), NEW s \in {0, 1}, Shifts(s),
           NEW l \in 1..Len(inbox), DueAt(l, j)
    PROVE  l > s /\ l - s \in 1..Len(inbox') /\ DueAt(l - s, j)'
<1>0. ComesBack(j)
  BY StillComesBack
<1>1. ASSUME l <= s PROVE FALSE
  <2>1. s = 1 /\ l = 1 /\ Receives /\ inbox # <<>>
    BY <1>1 DEF Shifts
  <2>2. PICK m : m = Head(inbox)
    OBVIOUS
  <2>3. m.type = "RestartDue" /\ IsDueOf(m, j)
    BY <2>1, <2>2, HeadRefers DEF DueAt
  <2>4. slots[j].state # "AwaitingBackoff"
    BY <2>1, <2>2, <2>3, ItsDueIsTaken DEF ComesBack, ToComeBack
  <2>5. slots[j].state = "StopThenRestart" /\ slots[j].ern \notin Overruns /\ AsksFor(1, j)
    BY <1>0, <2>1, <2>4 DEF ComesBack, ToComeBack, DueAt, AsksFor, IsDueOf
  <2>6. \A k \in 1..Len(inbox) : ~(k < 1)
    OBVIOUS
  <2> QED BY <2>1, <2>5, <2>6 DEF EndFirst
<1>2. l > s
  BY <1>1
<1>3. PICK k : k = l - s
  OBVIOUS
<1>4. k \in 1..Len(inbox') /\ inbox'[k] = inbox[l]
  BY <1>2, <1>3 DEF Shifts
<1>5. DueAt(k, j)'
  BY <1>4, StillComesBack
<1> QED BY <1>2, <1>3, <1>4, <1>5

LEMMA AheadStep ==
    ASSUME SupInv, QueuedSlotsAreInTheQueue, OneAtATime, [Next]_vars, Running', Running,
           ~NoticeRestarts, NEW i \in Index, NEW j \in Index, j < i,
           ComesBack(j)', Ahead(j, i), EndFirst(j)
    PROVE  Ahead(j, i)'
<1>0. PICK s \in {0, 1} : Shifts(s)
  BY RunningSince, InboxShifts
<1>1. slots'[i].state # "AwaitingRestart"
  <2> SUFFICES ASSUME slots'[i].state = "AwaitingRestart" PROVE FALSE
    OBVIOUS
  <2>1. inbox # <<>> /\ Head(inbox).type = "RestartDue" /\ IsDueOf(Head(inbox), i)
    BY QueuedByItsDue DEF Ahead
  <2>2. 1 \in 1..Len(inbox) /\ inbox[1] = Head(inbox)
    BY <2>1 DEF SupInv, SupTypeOK
  <2>3. AsksFor(1, i)
    BY <2>1, <2>2 DEF AsksFor, IsDueOf
  <2>4. \A k \in 1..Len(inbox) : ~(k < 1)
    OBVIOUS
  <2> QED BY <2>2, <2>3, <2>4 DEF Ahead
<1>2. ASSUME NEW k \in 1..Len(inbox'), AsksFor(k, i)'
      PROVE  \E l \in 1..Len(inbox') : l < k /\ DueAt(l, j)'
  <2>1. CASE k + s \in 1..Len(inbox) /\ inbox'[k] = inbox[k + s]
    <3>1. PICK r : r = k + s
      OBVIOUS
    <3>2. r \in 1..Len(inbox) /\ AsksFor(r, i)
      BY <1>2, <2>1, <3>1 DEF AsksFor
    <3>3. PICK l \in 1..Len(inbox) : l < r /\ DueAt(l, j)
      BY <3>2 DEF Ahead
    <3>4. PICK x : x = l - s
      OBVIOUS
    <3>5. x \in 1..Len(inbox') /\ DueAt(x, j)'
      BY <1>0, <3>3, <3>4, DueOfOneStays
    <3>6. x < k
      BY <3>1, <3>3, <3>4
    <3> QED BY <3>5, <3>6
  <2>2. CASE s = 0 /\ k = Len(inbox) + 1 /\ inboxOpen /\ inbox' = Append(inbox, inbox'[k])
    <3>1. PICK m : m = inbox'[k]
      OBVIOUS
    <3>2. m.type = "RestartDue" /\ m.idx = i /\ inbox' = Append(inbox, m)
      BY <1>2, <2>2, <3>1 DEF AsksFor
    <3>3. PICK t \in groups : SendDue(t) /\ m = DueMsg(NextDue(t))
      BY <3>2, DuesAreSent
    <3>4. PICK d \in t.dues : /\ \A e \in t.dues : d.idx <= e.idx
                              /\ d.idx \in Index /\ d.idx = i
      BY <3>2, <3>3, AskingForOne
    <3>5. \A e \in t.dues : ~IsDueOf(e, j)
      BY <3>4 DEF IsDueOf, Index
    <3>6. PICK l \in 1..Len(inbox) : DueAt(l, j)
      BY <3>4, <3>5 DEF Ahead
    <3>7. PICK x : x = l - s
      OBVIOUS
    <3>8. x \in 1..Len(inbox') /\ DueAt(x, j)'
      BY <1>0, <3>6, <3>7, DueOfOneStays
    <3>9. x < k
      BY <2>2, <3>6, <3>7
    <3> QED BY <3>8, <3>9
  <2> QED BY <1>0, <2>1, <2>2 DEF Shifts
<1>3. ASSUME NEW l \in 1..Len(inbox), DueAt(l, j)
      PROVE  \E x \in 1..Len(inbox') : DueAt(x, j)'
  BY <1>0, <1>3, DueOfOneStays
<1>4. ASSUME NEW u \in groups', NEW d \in u.dues, d.idx = i
      PROVE  (\E e \in u.dues : IsDueOf(e, j)') \/ \E x \in 1..Len(inbox') : DueAt(x, j)'
  <2>1. ASSUME NEW t \in groups, u.dues = t.dues
        PROVE  (\E e \in u.dues : IsDueOf(e, j)') \/ \E x \in 1..Len(inbox') : DueAt(x, j)'
    <3>1. (\E e \in t.dues : IsDueOf(e, j)) \/ \E l \in 1..Len(inbox) : DueAt(l, j)
      BY <1>4, <2>1 DEF Ahead
    <3> QED BY <1>3, <2>1, <3>1, StillComesBack
  <2>2. ASSUME NEW t \in groups, SendDue(t)
        PROVE  (\E e \in u.dues : IsDueOf(e, j)') \/ \E x \in 1..Len(inbox') : DueAt(x, j)'
    <3>1. PICK r \in t.dues : \E m :
             /\ m.type = "RestartDue" /\ m.idx = r.idx /\ m.name = r.name /\ m.gen = r.gen
             /\ inboxOpen => inbox' = Append(inbox, m)
             /\ \/ groups' = groups \ {t}
                \/ /\ inboxOpen
                   /\ \E v : /\ groups' = (groups \ {t}) \cup {v}
                             /\ v.dues = t.dues \ {r}
      BY <2>2, AskingForOne
    <3>2. CASE u \in groups
      BY <2>1, <3>2
    <3>3. CASE u \notin groups
      <4>1. PICK m : /\ m.type = "RestartDue" /\ m.idx = r.idx /\ m.name = r.name /\ m.gen = r.gen
                     /\ inbox' = Append(inbox, m) /\ u.dues = t.dues \ {r}
        BY <3>1, <3>3
      <4>2. (\E e \in t.dues : IsDueOf(e, j)) \/ \E l \in 1..Len(inbox) : DueAt(l, j)
        BY <1>4, <4>1 DEF Ahead
      <4>3. CASE IsDueOf(r, j)
        <5>1. IsDueOf(m, j)
          BY <4>1, <4>3 DEF IsDueOf
        <5>2. PICK x \in 1..Len(inbox') : inbox'[x] = m
          BY <4>1, MessageSent DEF InInbox
        <5>3. DueAt(x, j)'
          BY <4>1, <5>1, <5>2, StillComesBack DEF DueAt
        <5> QED BY <5>3
      <4>4. ASSUME NEW e \in t.dues, e # r, IsDueOf(e, j) PROVE e \in u.dues /\ IsDueOf(e, j)'
        BY <4>1, <4>4, StillComesBack
      <4> QED BY <1>3, <4>2, <4>3, <4>4
    <3> QED BY <3>2, <3>3
  <2>3. ASSUME NEW t \in groups, NEW v, Proceeds(t, v) PROVE \E r \in groups : u.dues = r.dues
    BY <2>3 DEF Proceeds
  <2> QED BY <2>1, <2>2, <2>3, GroupsMove
<1> QED BY <1>1, <1>2, <1>3, <1>4 DEF Ahead

\* The notice of an end stays in the inbox while the slot waits for it.
LEMMA EndStays ==
    ASSUME SupInv, NotYetShuttingDown, [Next]_vars, ~NoticeRestarts, NEW j \in Index,
           slots'[j].state \in ExpectedStop, NEW s \in {0, 1}, Shifts(s),
           NEW l \in 1..Len(inbox), EndAt(l, j)
    PROVE  l > s /\ l - s \in 1..Len(inbox') /\ EndAt(l - s, j)'
<1>0. slots[j].state \in ExpectedStop /\ slots'[j].handle = slots[j].handle
  BY RecordsMoveOn
<1>1. ASSUME l <= s PROVE FALSE
  <2>1. l = 1 /\ Receives /\ inbox # <<>>
    BY <1>1 DEF Shifts
  <2>2. PICK m : m = Head(inbox)
    OBVIOUS
  <2>3. m.type = "ChildTerminated" /\ m.inc = slots[j].handle
    BY <2>1, <2>2, HeadRefers DEF EndAt
  <2> QED BY <1>0, <2>1, <2>2, <2>3, ItsEndIsTaken
<1>2. l > s
  BY <1>1
<1>3. PICK k : k = l - s
  OBVIOUS
<1>4. k \in 1..Len(inbox') /\ inbox'[k] = inbox[l]
  BY <1>2, <1>3 DEF Shifts
<1>5. EndAt(k, j)'
  BY <1>0, <1>4 DEF EndAt
<1> QED BY <1>2, <1>3, <1>4, <1>5

LEMMA EndFirstStep ==
    ASSUME SupInv, GroupInv, [Next]_vars, Running', ~NoticeRestarts, NEW j \in Index
    PROVE  EndFirst(j)'
<1> SUFFICES ASSUME slots'[j].state = "StopThenRestart", slots'[j].ern \notin Overruns,
                    NEW k \in 1..Len(inbox'), AsksFor(k, j)'
             PROVE  \E l \in 1..Len(inbox') : l < k /\ EndAt(l, j)'
  BY DEF EndFirst
<1>0. Running /\ NotYetShuttingDown /\ OneAtATime /\ EndFirst(j) /\ StopSeenTo(j)
  BY RunningSince DEF GroupInv, StopsAreSeenTo
<1>1. PICK s \in {0, 1} : Shifts(s)
  BY RunningSince, InboxShifts
<1>2. slots[j].state = "StopThenRestart" /\ slots'[j].state \in ExpectedStop
      /\ slots[j].ern \notin Overruns
  <2>1. slots[j].state = "StopThenRestart" /\ slots'[j].ern = slots[j].ern
    BY RecordsMoveOn DEF ExpectedStop, ToComeBack
  <2> QED BY <2>1 DEF ExpectedStop
<1>3. ASSUME NEW l \in 1..Len(inbox), EndAt(l, j), l - s < k
      PROVE  \E x \in 1..Len(inbox') : x < k /\ EndAt(x, j)'
  <2>1. PICK x : x = l - s
    OBVIOUS
  <2>2. x \in 1..Len(inbox') /\ EndAt(x, j)'
    BY <1>0, <1>1, <1>2, <1>3, <2>1, EndStays
  <2> QED BY <1>3, <2>1, <2>2
<1>4. CASE k + s \in 1..Len(inbox) /\ inbox'[k] = inbox[k + s]
  <2>1. PICK r : r = k + s
    OBVIOUS
  <2>2. r \in 1..Len(inbox) /\ AsksFor(r, j)
    BY <1>4, <2>1 DEF AsksFor
  <2>3. PICK l \in 1..Len(inbox) : l < r /\ EndAt(l, j)
    BY <1>0, <1>2, <2>2 DEF EndFirst
  <2>4. l - s < k
    BY <2>1, <2>3
  <2> QED BY <1>3, <2>3, <2>4
<1>5. CASE s = 0 /\ k = Len(inbox) + 1 /\ inboxOpen /\ inbox' = Append(inbox, inbox'[k])
  <2>1. PICK m : m = inbox'[k]
    OBVIOUS
  <2>2. m.type = "RestartDue" /\ inbox' = Append(inbox, m)
    BY <1>5, <2>1 DEF AsksFor
  <2>3. PICK t \in groups : SendDue(t)
    BY <2>2, DuesAreSent
  <2>4. t.stops = {}
    BY <2>3, AskingForOne
  <2>5. \A u \in groups : ~SeesTo(u, j)
    BY <1>0, <2>4 DEF OneAtATime, SeesTo
  <2>6. PICK h : h = slots[j].handle
    OBVIOUS
  <2>7. Over(h) /\ inc[h].name \notin Overruns
    BY <1>0, <1>2, <2>5, <2>6, StoppedChild DEF StopSeenTo, ExpectedStop
  <2>8. inc[h].life = "dead"
    BY <2>7 DEF Over
  <2>9. NoticePending(h)
    BY <1>0, <1>2, <1>5, <2>6, <2>8 DEF GroupInv, Running, Serving, EndIsTold
  <2>10. PICK l \in 1..Len(inbox) : EndAt(l, j)
    BY <2>6, <2>9 DEF NoticePending, EndAt
  <2>11. l - s < k
    BY <1>5, <2>10
  <2> QED BY <1>3, <2>10, <2>11
<1> QED BY <1>1, <1>4, <1>5 DEF Shifts

\* A child that is up dies by ending its task, which tells the supervisor.
LEMMA DeathIsTold ==
    ASSUME SupInv, [Next]_vars, inboxOpen, NEW h \in Handle,
           inc[h].life = "live", inc'[h].life = "dead"
    PROVE  NoticePending(h)'
<1>0. inc \in [Handle -> Child] /\ inc[h] \in Child
  BY BornHandles
<1>1. PICK told : told = Signalled(inc[h], "Terminate")
  OBVIOUS
<1>2. told \in Child /\ told.life = "live"
  BY <1>0, <1>1, Told
<1>3. ASSUME NEW c \in Child, NEW holder, c.life = "live", inc'[h] = Held(c, holder)
      PROVE  FALSE
  BY <1>3 DEF Held, Child
<1>4. /\ inc'[h] # inc[h] /\ inc'[h] # told
      /\ \A holder : inc'[h] # Held(inc[h], holder) /\ inc'[h] # Held(told, holder)
  BY <1>0, <1>2, <1>3
<1>5. ASSUME NEW g \in Handle, Fault(g) \/ Obey(g) PROVE NoticePending(h)'
  <2>1. PICK reason : Die(g, reason)
    BY <1>5 DEF Fault, Obey
  <2>2. inc' = [inc EXCEPT ![g].life = "dead"]
    BY <2>1 DEF Die
  <2>3. g = h
    BY <1>0, <1>4, <2>2
  <2>4. PICK m : m = TerminatedMsg(g, reason)
    OBVIOUS
  <2>5. m.type = "ChildTerminated" /\ m.inc = h /\ inbox' = Append(inbox, m)
    BY <2>1, <2>3, <2>4 DEF TerminatedMsg, Die, Deliver
  <2>6. InInbox(m)'
    BY <2>5, MessageSent
  <2> QED BY <2>5, <2>6 DEF InInbox, NoticePending
<1>6. ASSUME NEW g \in Handle, Build(g) PROVE FALSE
  <2>1. \/ inc' = [inc EXCEPT ![g].life = "live"]
        \/ inc' = [inc EXCEPT ![g].life = "dead", ![g].holder = "failed"]
        \/ inc' = [inc EXCEPT ![g].life = "dead", ![g].holder = "nobody"]
    BY <1>6 DEF Build
  <2>2. g # h
    BY <1>6 DEF Build
  <2> QED BY <1>0, <1>4, <2>1, <2>2
<1>7. ASSUME NEW g \in Handle, Report(g) \/ StrayStopped(g) \/ CallerAnswered(g) \/ AskToRegister(g)
      PROVE  FALSE
  <2>1. \E c, holder : /\ inc' = [inc EXCEPT ![g] = Held(c, holder)]
                       /\ c \in {inc[g], Signalled(inc[g], "Terminate")}
    BY <1>7 DEF Report, StrayStopped, CallerAnswered, AskToRegister
  <2> QED BY <1>0, <1>1, <1>4, <2>1
<1>8. ASSUME NEW t, AskSibling(t) PROVE FALSE
  <2>1. PICK g : inc' = [inc EXCEPT ![g] = Signalled(inc[g], "Terminate")]
    BY <1>8 DEF AskSibling
  <2> QED BY <1>0, <1>1, <1>4, <2>1
<1>9. ASSUME NEW c, Create(c) PROVE FALSE
  <2>1. Fresh # h
    <3>1. born \in Nat /\ Fresh \notin 1..born
      BY BornHandles DEF Fresh
    <3> QED BY <3>1, BusyMeansBorn
  <2> QED BY <1>0, <1>4, <1>9, <2>1 DEF Create
<1>10. CASE ReleaserReturns
  <2>1. inc'[h] = inc[h] \/ inc'[h] = told \/ inc'[h] = Held(inc[h], "owner")
    BY <1>0, <1>1, <1>10 DEF ReleaserReturns
  <2> QED BY <1>4, <2>1
<1>11. CASE ReceiveRegister
  <2>1. \/ inc' = inc
        \/ \E g, holder : inc' = [inc EXCEPT ![g] = Held(inc[g], holder)]
    BY <1>11 DEF ReceiveRegister
  <2> QED BY <1>0, <1>4, <2>1
<1>12. CASE ReceiveStarted
  <2>1. \/ inc' = inc
        \/ \E g : inc' = [inc EXCEPT ![g] = Held(Signalled(inc[g], "Terminate"), "stray")]
    BY <1>12 DEF ReceiveStarted
  <2> QED BY <1>0, <1>1, <1>4, <2>1
<1>13. CASE TerminateChildren
  <2>1. PICK d : d = Signalled(inc[h], "Cascade")
    OBVIOUS
  <2>2. d.life = "live"
    BY <1>0, <2>1, Told
  <2>3. inc'[h] = inc[h] \/ inc'[h] = d
    BY <1>0, <1>13, <2>1 DEF TerminateChildren
  <2> QED BY <1>4, <2>2, <2>3
<1>14. CASE Loop
  <2>1. CASE LaunchStart
    <3>1. PICK i, n : i = Head(pending) /\ n = slots[i].ern
      OBVIOUS
    <3>2. PICK c : c = [Unborn EXCEPT !.name = n, !.idx = i, !.life = "building",
                                      !.holder = "starter"]
      OBVIOUS
    <3>3. inc' = inc \/ Create(c)
      BY <2>1, <3>1, <3>2 DEF LaunchStart
    <3> QED BY <1>4, <1>9, <3>3
  <2>2. CASE ~LaunchStart /\ ~ReceiveRegister /\ ~ReceiveStarted /\ ~TerminateChildren
    BY <1>4, <1>14, <2>2 DEF Loop, ReceiveUnregister, ReceiveDue, NoticeSettled,
       NoticeEscalates, NoticeRestarts, ReceiveStop, LeaveLoop, Stopped, childVars
  <2> QED BY <1>11, <1>12, <1>13, <2>1, <2>2
<1>15. ASSUME NEW t, SiblingDown(t) \/ SendDue(t) \/ AbandonBackoff(t) PROVE FALSE
  BY <1>4, <1>15 DEF SiblingDown, SendDue, AbandonBackoff, childVars
<1>16. ASSUME NEW n, SuperviseDeferred(n) \/ AskToRelease(n) PROVE FALSE
  BY <1>4, <1>16 DEF SuperviseDeferred, AskToRelease, childVars
<1>17. ASSUME NEW n \in Name, Hire(n) PROVE FALSE
  BY <1>9, <1>17, HiredChild
<1>18. CASE AskSupervisorToStop \/ UNCHANGED vars
  BY <1>4, <1>18 DEF AskSupervisorToStop, vars, childVars
<1> QED BY <1>5, <1>6, <1>7, <1>8, <1>10, <1>14, <1>15, <1>16, <1>17, <1>18
        DEF Next, Tasks, Environment

LEMMA EndIsToldStep ==
    ASSUME SupInv, NotYetShuttingDown, [Next]_vars, Serving', ~NoticeRestarts,
           NEW j \in Index, EndIsTold(j)
    PROVE  EndIsTold(j)'
<1> SUFFICES ASSUME slots'[j].state = "StopThenRestart", inc'[slots'[j].handle].life = "dead"
             PROVE  NoticePending(slots[j].handle)'
  BY DEF EndIsTold
<1>1. Serving /\ inboxOpen /\ ~TerminateChildren
  BY ServingSince
<1>2. /\ slots[j].state = "StopThenRestart" /\ slots'[j].handle = slots[j].handle
      /\ slots[j].state \in ExpectedStop /\ slots'[j].state \in ExpectedStop
  BY RecordsMoveOn DEF ExpectedStop
<1>3. PICK h : h = slots[j].handle
  OBVIOUS
<1>4. /\ h \in Handle /\ h \in 1..born /\ inc[h].life # "building" /\ inc[h] \in Child
      /\ inc'[h].life = "dead"
  BY <1>2, <1>3, StoppedChild, BornHandles
<1>5. CASE inc[h].life = "dead"
  <2>1. PICK l \in 1..Len(inbox) : EndAt(l, j)
    BY <1>2, <1>3, <1>5 DEF EndIsTold, NoticePending, EndAt
  <2>2. PICK s \in {0, 1} : Shifts(s)
    BY <1>1, InboxShifts
  <2>3. PICK x : x = l - s
    OBVIOUS
  <2>4. x \in 1..Len(inbox') /\ EndAt(x, j)'
    BY <1>2, <2>1, <2>2, <2>3, EndStays
  <2> QED BY <2>4 DEF EndAt, NoticePending
<1>6. CASE inc[h].life # "dead"
  <2>1. ChildStep(inc[h], inc'[h])
    BY <1>4, NextKeeps DEF SupStep, ChildrenStep
  <2>2. inc[h].life = "live"
    BY <1>4, <1>6, <2>1 DEF ChildStep, Child, Lives
  <2>3. NoticePending(h)'
    BY <1>1, <1>4, <2>2, DeathIsTold
  <2>4. slots'[j].handle = h
    BY <1>2, <1>3
  <2> QED BY <2>3, <2>4 DEF NoticePending
<1> QED BY <1>5, <1>6

\* A group restart that begins when none is under way.
LEMMA AheadAtFirst ==
    ASSUME SupInv, QueuedSlotsAreInTheQueue, Running, [Next]_vars, NoticeRestarts,
           NoRestartUnderway, NEW i \in Index, NEW j \in Index, ComesBack(j)'
    PROVE  Ahead(j, i)'
<1>1. PICK plan, h : /\ Rearranges(plan) /\ groups' = groups \cup {GroupTask(h, plan)}
                     /\ inbox # <<>> /\ inbox' = Tail(inbox) /\ Waiting
  BY GroupBegins
<1>2. slots'[i].state # "AwaitingRestart"
  <2>1. slots[i].state # "AwaitingRestart"
    BY <1>1, NothingIsQueued DEF Launchable
  <2> QED BY <1>1, <2>1 DEF Rearranges
<1>3. \A k \in 1..Len(inbox') : ~AsksFor(k, i)'
  <2>1. inbox \in Seq(Message)
    BY DEF SupInv, SupTypeOK
  <2>2. \A k \in 1..Len(inbox') : k + 1 \in 1..Len(inbox) /\ inbox'[k] = inbox[k + 1]
    BY <1>1, <2>1
  <2> QED BY <2>2 DEF NoRestartUnderway, AsksFor
<1>4. PICK u : u = GroupTask(h, plan)
  OBVIOUS
<1>5. groups' = {u}
  BY <1>1, <1>4 DEF NoRestartUnderway
<1>6. slots'[j].state \in ToComeBack
  BY DEF ComesBack
<1>7. slots[j].state \notin ToComeBack
  <2>1. slots[j].state \in ToComeBack => j \in Taken
    BY TakenSlots DEF SupInv, ToComeBack
  <2> QED BY <2>1 DEF NoRestartUnderway
<1>8. j \in plan.restart /\ j \in Taken /\ slots'[j].ern = slots[j].ern
  BY <1>1, <1>6, <1>7 DEF Rearranges, ToComeBack
<1>9. slots'[j].gen = slots[j].gen
  BY <1>6, <1>8, NextKeeps DEF SupStep, RegStep, Counts, ToComeBack
<1>10. PICK e : e = [idx |-> j, name |-> slots[j].ern, gen |-> slots[j].gen]
  OBVIOUS
<1>11. e \in u.dues
  BY <1>4, <1>8, <1>10 DEF GroupTask
<1>12. IsDueOf(e, j)'
  BY <1>8, <1>9, <1>10 DEF IsDueOf
<1> QED BY <1>2, <1>3, <1>5, <1>11, <1>12 DEF Ahead

LEMMA EndToldAtFirst ==
    ASSUME SupInv, [Next]_vars, NoticeRestarts, NoRestartUnderway, RunningMeansServed,
           Serving', NEW j \in Index
    PROVE  EndIsTold(j)'
<1> SUFFICES ASSUME slots'[j].state = "StopThenRestart", inc'[slots'[j].handle].life = "dead"
             PROVE  NoticePending(slots[j].handle)'
  BY DEF EndIsTold
<1>1. PICK plan, n : /\ Rearranges(plan) /\ byErn[n] \notin plan.stop
                     /\ inbox # <<>> /\ n = Head(inbox).name /\ inbox' = Tail(inbox)
                     /\ UNCHANGED childVars
  BY GroupBegins
<1>2. slots[j].state \notin ToComeBack
  <2>1. slots[j].state \in ToComeBack => j \in Taken
    BY TakenSlots DEF SupInv, ToComeBack
  <2> QED BY <2>1 DEF NoRestartUnderway
<1>3. j \in plan.stop
  BY <1>1, <1>2 DEF Rearranges, ToComeBack
<1>4. PICK h : h = slots[j].handle
  OBVIOUS
<1>5. /\ slots[j].state = "Running" /\ h \in Handle /\ slots'[j].handle = h /\ j \in Taken
  BY <1>1, <1>3, <1>4 DEF Rearranges
<1>6. inc[h].life = "dead"
  BY <1>1, <1>5 DEF childVars
<1>7. Serving
  BY ServingSince
<1>8. NoticePending(h)
  BY <1>4, <1>5, <1>6, <1>7 DEF RunningMeansServed
<1>9. PICK l \in 1..Len(inbox) : inbox[l].type = "ChildTerminated" /\ inbox[l].inc = h
  BY <1>8 DEF NoticePending
<1>10. l # 1
  <2> SUFFICES ASSUME l = 1 PROVE FALSE
    OBVIOUS
  <2>1. PICK m : m = Head(inbox)
    OBVIOUS
  <2>2. MessageRefers(m) /\ m.type = "ChildTerminated" /\ m.inc = h /\ m.name = n
    BY <1>1, <1>9, <2>1, HeadRefers
  <2>3. inc[h].name = n
    BY <2>2 DEF MessageRefers, Born
  <2>4. inc[h].name = slots[j].ern
    <3>1. h # NoHandle
      BY <1>5, BornHandles
    <3> QED BY <1>4, <3>1 DEF SupInv, ReferencesHold, SlotRefers, Born
  <2>5. byErn[n] = j
    BY <1>5, <2>3, <2>4 DEF SupInv, RegInv, NamesLeadToTheirSlots
  <2> QED BY <1>1, <1>3, <2>5
<1>11. PICK k : k = l - 1
  OBVIOUS
<1>12. k \in 1..Len(inbox') /\ inbox'[k] = inbox[l]
  <2>1. inbox \in Seq(Message)
    BY DEF SupInv, SupTypeOK
  <2> QED BY <1>1, <1>9, <1>10, <1>11, <2>1
<1> QED BY <1>5, <1>9, <1>12 DEF NoticePending

LEMMA GroupInvStep ==
    ASSUME SupInv, QueuedSlotsAreInTheQueue, GroupInv, [Next]_vars,
           [NoticeRestarts => NoRestartUnderway /\ RunningMeansServed]_vars
    PROVE  GroupInv'
<1>0. NoticeRestarts => NoRestartUnderway /\ RunningMeansServed
  <2>1. NoticeRestarts => inbox # <<>> /\ inbox' = Tail(inbox) /\ inbox \in Seq(Message)
    BY GroupBegins DEF SupInv, SupTypeOK
  <2>2. ASSUME inbox # <<>>, inbox' = Tail(inbox), inbox \in Seq(Message) PROVE inbox' # inbox
    <3>1. Len(inbox') = Len(inbox) - 1 /\ Len(inbox) \in Nat
      BY <2>2
    <3> QED BY <3>1
  <2> QED BY <2>1, <2>2 DEF vars, loopVars
<1>1. NotYetShuttingDown'
  BY NotYetShuttingDownStep DEF GroupInv
<1>2. StopsAreSeenTo'
  BY StopSeenToStep DEF GroupInv, StopsAreSeenTo
<1>3. ASSUME Running'
      PROVE  /\ OneAtATime'
             /\ \A i, j \in Index : j < i /\ ComesBack(j)' => Ahead(j, i)'
             /\ \A j \in Index : EndFirst(j)'
  <2>1. Running /\ OneAtATime /\ \A j \in Index : EndFirst(j)
    BY <1>3, RunningSince DEF GroupInv
  <2>2. OneAtATime'
    BY <1>0, <1>3, <2>1, OneAtATimeStep
  <2>3. CASE NoticeRestarts
    <3>1. \A i, j \in Index : ComesBack(j)' => Ahead(j, i)'
      BY <1>0, <2>1, <2>3, AheadAtFirst
    <3>2. \A k \in 1..Len(inbox') : inbox'[k].type # "RestartDue"
      <4>1. inbox \in Seq(Message) /\ inbox # <<>> /\ inbox' = Tail(inbox)
        BY <2>3, GroupBegins DEF SupInv, SupTypeOK
      <4>2. \A k \in 1..Len(inbox') : k + 1 \in 1..Len(inbox) /\ inbox'[k] = inbox[k + 1]
        BY <4>1
      <4> QED BY <1>0, <2>3, <4>2 DEF NoRestartUnderway
    <3>3. \A j \in Index : EndFirst(j)'
      BY <3>2 DEF EndFirst, AsksFor
    <3> QED BY <2>2, <3>1, <3>3
  <2>4. CASE ~NoticeRestarts
    <3>1. ASSUME NEW i \in Index, NEW j \in Index, j < i, ComesBack(j)'
          PROVE  Ahead(j, i)'
      <4>1. Ahead(j, i)
        BY <2>1, <2>4, <3>1, StillComesBack DEF GroupInv
      <4> QED BY <1>3, <2>1, <2>4, <3>1, <4>1, AheadStep
    <3>2. \A j \in Index : EndFirst(j)'
      BY <1>3, <2>4, EndFirstStep
    <3> QED BY <2>2, <3>1, <3>2
  <2> QED BY <2>3, <2>4
<1>4. ASSUME Serving' PROVE \A j \in Index : EndIsTold(j)'
  <2>1. Serving /\ NotYetShuttingDown /\ \A j \in Index : EndIsTold(j)
    BY <1>4, ServingSince DEF GroupInv
  <2>2. CASE NoticeRestarts
    BY <1>0, <1>4, <2>2, EndToldAtFirst
  <2>3. CASE ~NoticeRestarts
    BY <1>4, <2>1, <2>3, EndIsToldStep
  <2> QED BY <2>2, <2>3
<1> QED BY <1>1, <1>2, <1>3, <1>4 DEF GroupInv

LEMMA GroupInvInit == Init => GroupInv
<1> SUFFICES ASSUME Init PROVE GroupInv
  OBVIOUS
<1>1. \A i \in Index : slots[i].state = "Unused"
  BY DEF Init, RegInit, Unregistered, NewSlot
<1>2. /\ shuttingDown = FALSE /\ groups = {} /\ pending = <<>> /\ inbox = <<>>
      /\ Len(pending) = 0 /\ Len(inbox) = 0
  BY DEF Init, RegInit
<1>3. NotYetShuttingDown /\ StopsAreSeenTo /\ OneAtATime
  BY <1>1, <1>2 DEF NotYetShuttingDown, StopsAreSeenTo, StopSeenTo, ExpectedStop, OneAtATime
<1>4. \A j \in Index : ~ComesBack(j) /\ EndFirst(j) /\ EndIsTold(j)
  BY <1>1 DEF ComesBack, ToComeBack, EndFirst, EndIsTold
<1> QED BY <1>3, <1>4 DEF GroupInv

LEMMA LaunchedInOrder ==
    ASSUME SupInv, QueuedSlotsAreInTheQueue, GroupInv, [Next]_vars,
           NEW i \in Index, Relaunched(i)
    PROVE  /\ \A j \in Taken : slots[j].state \in ExpectedStop => Over(slots[j].handle)
           /\ \A j \in Index : j < i /\ slots[j].ern \notin Overruns =>
                slots[j].state \notin {"StopThenRestart", "AwaitingBackoff", "AwaitingRestart"}
<1>1. ~NoticeRestarts
  <2>1. ASSUME NEW plan, Rearranges(plan) PROVE FALSE
    BY <2>1 DEF Rearranges, Relaunched
  <2> QED BY <2>1, GroupBegins
<1>2. LaunchStart /\ i = Head(pending)
  BY <1>1, RecordsMoveOn DEF Relaunched
<1>3. Running /\ pending # <<>>
  BY <1>2 DEF LaunchStart, LaunchDue, Running
<1>4. OneAtATime /\ \A t \in groups : t.stops = {}
  BY <1>3 DEF GroupInv, OneAtATime, Relaunched
<1>5. ASSUME NEW j \in Taken, slots[j].state \in ExpectedStop PROVE Over(slots[j].handle)
  <2>1. StopSeenTo(j)
    BY TakenSlots DEF GroupInv, StopsAreSeenTo, SupInv
  <2> QED BY <1>4, <1>5, <2>1 DEF StopSeenTo, SeesTo
<1>6. ASSUME NEW j \in Index, j < i, slots[j].ern \notin Overruns
      PROVE  slots[j].state \notin {"StopThenRestart", "AwaitingBackoff", "AwaitingRestart"}
  <2>1. ASSUME slots[j].state = "AwaitingRestart" PROVE FALSE
    <3>1. j \in Taken
      BY <2>1, TakenSlots DEF SupInv
    <3>2. PICK k \in 1..Len(pending) : pending[k] = j
      BY <2>1, <3>1 DEF QueuedSlotsAreInTheQueue, Launchable
    <3>3. pending \in Seq(Index) /\ Len(pending) <= 1
      BY <1>4 DEF SupInv, RegInv, RegTypeOK, OneAtATime
    <3>4. k = 1 /\ pending[1] = i
      BY <1>2, <1>3, <3>2, <3>3
    <3> QED BY <1>6, <3>2, <3>4 DEF Index
  <2>2. ASSUME slots[j].state \in ToComeBack PROVE FALSE
    <3>1. Ahead(j, i)
      BY <1>3, <1>6, <2>2 DEF GroupInv, ComesBack
    <3> QED BY <3>1 DEF Ahead, Relaunched
  <2> QED BY <2>1, <2>2 DEF ToComeBack
<1> QED BY <1>5, <1>6

\* A sibling a group restart stops is down, or outlasts its deadline, or is still
\* on the list of a group task that is at work: whatever the strategy, no record of
\* a begun stop (begin_group_stops) is left without the task that carries it out.
THEOREM EveryStopIsCarriedOut == Spec => []StopsAreSeenTo
<1>1. SupInv /\ StopsAreSeenTo /\ [Next]_vars => StopsAreSeenTo'
  BY StopSeenToStep DEF StopsAreSeenTo
<1>2. Init => StopsAreSeenTo
  BY GroupInvInit DEF GroupInv
<1> QED BY <1>1, <1>2, SupInvHolds, PTL DEF Spec

\* A group goes down as a whole and comes back in start order, whatever the
\* strategy, the sizes and the timing of the stops (plan_restart, run_group_restart,
\* begin_start), as long as the supervisor acts on a failure only when the group
\* restart before it is over and no child that ended without its start having been
\* read is on record as running: a second group task's requests overtake the
\* first's, and a child that ended before it was recorded gives no notice to wait
\* for.
THEOREM GroupsReturnInOrder == Spec /\ OneGroupAtATime => GroupsComeBackInOrder
<1>1. SupInv /\ QueuedSlotsAreInTheQueue /\ GroupInv /\ [Next]_vars
        /\ [NoticeRestarts => NoRestartUnderway /\ RunningMeansServed]_vars
      => GroupInv'
  BY GroupInvStep
<1>2. SupInv /\ QueuedSlotsAreInTheQueue /\ GroupInv /\ [Next]_vars
        => /\ [\A i \in Index : Relaunched(i) =>
                 \A j \in Taken : slots[j].state \in ExpectedStop => Over(slots[j].handle)]_vars
           /\ [\A i, j \in Index : Relaunched(i) /\ j < i /\ slots[j].ern \notin Overruns =>
                 slots[j].state \notin {"StopThenRestart", "AwaitingBackoff",
                                        "AwaitingRestart"}]_vars
  BY LaunchedInOrder
<1>3. Spec => []QueuedSlotsAreInTheQueue
  BY TheRegistryIsARegistry, QueueForgetsNobody
<1> QED BY <1>1, <1>2, <1>3, GroupInvInit, SupInvHolds, PTL
        DEF Spec, OneGroupAtATime, GroupsComeBackInOrder, WholeGroupDownBeforeRestart,
            RestartsFollowStartOrder

===============================================================================
