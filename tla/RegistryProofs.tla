---------------------------- MODULE RegistryProofs ----------------------------
(***************************************************************************)
(* Proofs about the registry alone (RegSpec), whatever calls it: for every *)
(* number of names, positions and incarnations, every strategy, policy and *)
(* restart allowance.                                                      *)
(*                                                                         *)
(* RegInv is inductive: the type invariant, names, handles and watchers    *)
(* lean on one another.  A failed start frees the name of its slot, and    *)
(* that this frees nobody else's rests on names leading to their slots; a  *)
(* watcher reads the handle of a running child only because no slot goes   *)
(* from Running to Running, and so on.  The module ends with the registry  *)
(* of a OneForOne supervisor implementing ChildStatus.                     *)
(***************************************************************************)
EXTENDS RegistryRefinement, TLAPS

AnyHandle == Handle \cup {NoHandle}

\* What each record keeps to, whichever state it is in.
Sound(s) ==
    /\ s \in Slot
    /\ s.handle # NoHandle <=> s.state \in {"Running"} \cup ExpectedStop
    /\ s.pub.state = Published(s.state)
    /\ s.pub.gen = s.gen
    /\ s.pub.state = "Running" => s.pub.handle = s.handle

RegInv ==
    /\ RegTypeOK
    /\ NamesLeadToTheirSlots
    /\ \A i \in Index : Sound(slots[i])

-------------------------------------------------------------------------------
(* Publishing a record, and moving it to another state: what that changes,   *)
(* what it leaves alone, and when the result is sound again.                 *)

LEMMA PublishedIsSeen ==
    ASSUME NEW state \in SlotStates
    PROVE  /\ Published(state) \in PublishedStates
           /\ Published(state) = "Running" <=> state = "Running"
           /\ state = "Unused" => Published(state) = "Starting"
BY DEF SlotStates, Published, PublishedStates, Terminal, ExpectedStop

LEMMA PublishKeeps ==
    ASSUME NEW s \in Slot
    PROVE  /\ Publish(s) \in Slot
           /\ Publish(s) = [s EXCEPT !.pub = Publish(s).pub]
           /\ Publish(s).pub.state = Published(s.state)
           /\ Publish(s).pub.gen = s.gen
           /\ s.pub.state # Published(s.state) => Publish(s).pub.handle = s.handle
<1> DEFINE next == [state |-> Published(s.state), gen |-> s.gen,
                    handle |-> s.handle, charged |-> s.charged]
<1>1. next \in Status
  BY PublishedIsSeen DEF Slot, Status
<1>2. CASE s.pub.state = next.state /\ s.pub.gen = next.gen /\ s.pub.charged = next.charged
  <2>1. Publish(s) = s
    BY <1>2 DEF Publish
  <2> QED BY <2>1, <1>2 DEF Slot
<1>3. CASE ~(s.pub.state = next.state /\ s.pub.gen = next.gen /\ s.pub.charged = next.charged)
  <2>1. Publish(s) = [s EXCEPT !.pub = next]
    BY <1>3 DEF Publish
  <2> QED BY <2>1, <1>1 DEF Slot
<1> QED BY <1>2, <1>3

\* A record whose handle fits its state is sound once it is published, unless it
\* was already published as Running: publish() would not send a new handle then.
LEMMA PublishIsSound ==
    ASSUME NEW s \in Slot,
           s.handle # NoHandle <=> s.state \in {"Running"} \cup ExpectedStop,
           s.state = "Running" => s.pub.state # "Running"
    PROVE  /\ Sound(Publish(s))
           /\ Publish(s).ern = s.ern /\ Publish(s).state = s.state
           /\ Publish(s).gen = s.gen /\ Publish(s).handle = s.handle
<1>1. s.state \in SlotStates
  BY DEF Slot
<1>2. /\ Publish(s).ern = s.ern /\ Publish(s).state = s.state
      /\ Publish(s).gen = s.gen /\ Publish(s).handle = s.handle
  BY PublishKeeps DEF Slot
<1>3. Publish(s).pub.state = "Running" => Publish(s).pub.handle = Publish(s).handle
  BY <1>1, <1>2, PublishKeeps, PublishedIsSeen
<1> QED BY <1>2, <1>3, PublishKeeps DEF Sound

LEMMA MovedIsSound ==
    ASSUME NEW s \in Slot, NEW state \in SlotStates, NEW h \in AnyHandle,
           h # NoHandle <=> state \in {"Running"} \cup ExpectedStop,
           state = "Running" => s.pub.state # "Running"
    PROVE  /\ Sound(Moved(s, state, h))
           /\ Moved(s, state, h).ern = s.ern
           /\ Moved(s, state, h).state = state
           /\ Moved(s, state, h).gen = s.gen
<1> DEFINE t == [s EXCEPT !.state = state, !.handle = h]
<1>1. /\ t \in Slot
      /\ t.state = state /\ t.handle = h /\ t.pub = s.pub /\ t.ern = s.ern /\ t.gen = s.gen
  BY DEF Slot, AnyHandle
<1>2. Moved(s, state, h) = Publish(t)
  BY DEF Moved
<1> QED BY <1>1, <1>2, PublishIsSound

LEMMA NewSlotIsSound ==
    ASSUME NEW s \in Slot, s.state \in {"Running", "Pending"},
           s.pub.state = "Starting", s.handle # NoHandle <=> s.state = "Running"
    PROVE  Sound(Publish(s)) /\ Publish(s).ern = s.ern /\ Publish(s).state = s.state
<1>1. s.handle # NoHandle <=> s.state \in {"Running"} \cup ExpectedStop
  BY DEF ExpectedStop
<1> QED BY <1>1, PublishIsSound

-------------------------------------------------------------------------------
(* The three ways the records change: one more, one that moves on, one that  *)
(* is let go.                                                                *)

LEMMA TakenSlots ==
    ASSUME RegInv
    PROVE  /\ Taken \subseteq Index /\ used \in Nat
           /\ \A i \in Index : /\ slots[i] \in Slot /\ Sound(slots[i])
                               /\ slots[i].state \in SlotStates
                               /\ slots[i].handle \in AnyHandle
                               /\ slots[i].ern \in Name
                               /\ slots[i].gen \in Nat
                               /\ slots[i].state # "Unused" => i \in Taken
           /\ \A n \in Name : Supervised(n) => byErn[n] \in Taken
BY RegistryConstants DEF RegInv, RegTypeOK, NamesLeadToTheirSlots, Sound, Slot, Taken, Index, AnyHandle

\* What a step may do to a record: its position and its name stay, a retired one
\* stays as it is, and its generation only counts replacements.
Counts(s, t) ==
    t.gen # s.gen => /\ t.gen = s.gen + 1
                     /\ s.state = "Restarting" /\ t.state = "Running"

RegStep ==
    /\ used' >= used
    /\ \A i \in Taken : /\ slots[i].ern = slots'[i].ern
                        /\ slots[i].state = "Retired" => slots'[i] = slots[i]
                        /\ Counts(slots[i], slots'[i])

LEMMA OneMore ==
    ASSUME RegInv, NEW n \in Name, NEW new, Sound(Publish(new)),
           Publish(new).ern = n, Publish(new).state \in {"Running", "Pending"},
           AddSlot(n, new), pending' \in Seq(Index), shuttingDown' \in BOOLEAN
    PROVE  RegInv' /\ RegStep
<1>1. /\ used \in Nat /\ MaxSlots \in Nat /\ used + 1 \in Index /\ used + 1 # NoSlot
      /\ used' = used + 1 /\ used' \in 0..MaxSlots
      /\ used + 1 \notin Taken /\ Taken' = Taken \cup {used + 1}
  BY RegistryConstants DEF RegInv, RegTypeOK, AddSlot, Index, NoSlot, Taken
<1>2. /\ \A i \in Index : slots'[i] = IF i = used + 1 THEN Publish(new) ELSE slots[i]
      /\ slots' \in [Index -> Slot]
  BY <1>1 DEF RegInv, RegTypeOK, AddSlot, Sound
<1>3. /\ \A m \in Name : byErn'[m] = IF m = n THEN used + 1 ELSE byErn[m]
      /\ byErn' \in [Name -> Index \cup {NoSlot}]
      /\ ~Supervised(n)
  BY <1>1 DEF RegInv, RegTypeOK, AddSlot
<1>4. RegTypeOK'
  BY <1>1, <1>2, <1>3 DEF RegTypeOK
<1>5. \A m \in Name : Supervised(m)' =>
         /\ byErn'[m] \in Taken'
         /\ slots'[byErn'[m]].ern = m
         /\ slots'[byErn'[m]].state # "Retired"
  BY <1>1, <1>2, <1>3 DEF RegInv, RegTypeOK, NamesLeadToTheirSlots, Supervised
<1>6. \A i \in Taken' : slots'[i].state # "Retired" => byErn'[slots'[i].ern] = i
  <2> TAKE i \in Taken'
  <2>1. CASE i = used + 1
    BY <2>1, <1>1, <1>2, <1>3
  <2>2. CASE i # used + 1
    <3>1. i \in Taken /\ i \in Index /\ i # NoSlot /\ slots'[i] = slots[i] /\ slots[i].ern \in Name
      BY <2>2, <1>1, <1>2 DEF RegInv, RegTypeOK, Taken, Index, NoSlot, Slot
    <3> QED BY <3>1, <1>3 DEF RegInv, NamesLeadToTheirSlots, Supervised
  <2> QED BY <2>1, <2>2
<1>7. /\ \A i \in Index \ Taken' : slots'[i].state = "Unused"
      /\ \A i \in Taken' : slots'[i].state # "Unused"
  BY <1>1, <1>2 DEF RegInv, NamesLeadToTheirSlots, Taken, Index
<1>8. \A i \in Index : Sound(slots'[i])
  BY <1>2 DEF RegInv
<1>9. RegStep
  <2>1. \A i \in Taken : slots'[i] = slots[i]
    BY <1>1, <1>2 DEF Taken, Index
  <2>2. used' >= used
    BY <1>1
  <2>3. \A i \in Taken : Counts(slots[i], slots'[i])
    BY <2>1 DEF Counts
  <2> QED BY <2>1, <2>2, <2>3 DEF RegStep
<1> QED BY <1>4, <1>5, <1>6, <1>7, <1>8, <1>9 DEF RegInv, NamesLeadToTheirSlots, Sound

\* A record under supervision moves to another state of a supervised child.
LEMMA OneMovesOn ==
    ASSUME RegInv, NEW i \in Taken, NEW t, Sound(t), t.ern = slots[i].ern,
           t.state \notin {"Unused", "Retired"}, slots[i].state # "Retired",
           Counts(slots[i], t),
           slots' = [slots EXCEPT ![i] = t], UNCHANGED <<used, byErn>>,
           pending' \in Seq(Index), shuttingDown' \in BOOLEAN
    PROVE  RegInv' /\ RegStep
<1>1. /\ i \in Index /\ Taken' = Taken /\ Taken \subseteq Index
      /\ \A n : Supervised(n)' <=> Supervised(n)
  BY RegistryConstants DEF RegInv, RegTypeOK, Taken, Index, Supervised
<1>2. /\ \A j \in Index : slots'[j] = IF j = i THEN t ELSE slots[j]
      /\ slots' \in [Index -> Slot]
  BY <1>1 DEF RegInv, RegTypeOK, Sound
<1>3. RegTypeOK'
  BY <1>2 DEF RegInv, RegTypeOK
<1>4. NamesLeadToTheirSlots'
  <2>1. \A n \in Name : Supervised(n)' =>
           /\ byErn'[n] \in Taken'
           /\ slots'[byErn'[n]].ern = n
           /\ slots'[byErn'[n]].state # "Retired"
    BY <1>1, <1>2 DEF RegInv, NamesLeadToTheirSlots
  <2>2. \A j \in Taken' : slots'[j].state # "Retired" => byErn'[slots'[j].ern] = j
    BY <1>1, <1>2 DEF RegInv, NamesLeadToTheirSlots
  <2>3. /\ \A j \in Index \ Taken' : slots'[j].state = "Unused"
        /\ \A j \in Taken' : slots'[j].state # "Unused"
    BY <1>1, <1>2 DEF RegInv, NamesLeadToTheirSlots
  <2> QED BY <2>1, <2>2, <2>3 DEF NamesLeadToTheirSlots
<1>5. \A j \in Index : Sound(slots'[j])
  BY <1>2 DEF RegInv
<1>6. RegStep
  BY <1>1, <1>2, TakenSlots DEF RegStep, Counts
<1> QED BY <1>3, <1>4, <1>5, <1>6 DEF RegInv, Sound

\* A record under supervision is retired and its name freed.
LEMMA OneIsLetGo ==
    ASSUME RegInv, NEW i \in Taken, slots[i].state # "Retired",
           slots' = [slots EXCEPT ![i] = Moved(@, "Retired", NoHandle)],
           byErn' = [byErn EXCEPT ![slots[i].ern] = NoSlot],
           UNCHANGED <<used, pending, shuttingDown>>
    PROVE  RegInv' /\ RegStep
<1> DEFINE t == Moved(slots[i], "Retired", NoHandle)
<1>1. /\ i \in Index /\ i # NoSlot /\ Taken' = Taken /\ Taken \subseteq Index
      /\ slots[i] \in Slot /\ slots[i].ern \in Name
  BY RegistryConstants DEF RegInv, RegTypeOK, Taken, Index, NoSlot, Slot
<1>2. Sound(t) /\ t.ern = slots[i].ern /\ t.state = "Retired" /\ t.gen = slots[i].gen
  BY <1>1, MovedIsSound DEF SlotStates, AnyHandle, ExpectedStop
<1>3. /\ \A j \in Index : slots'[j] = IF j = i THEN t ELSE slots[j]
      /\ slots' \in [Index -> Slot]
  BY <1>1, <1>2 DEF RegInv, RegTypeOK, Sound
<1>4. /\ \A n \in Name : byErn'[n] = IF n = slots[i].ern THEN NoSlot ELSE byErn[n]
      /\ byErn' \in [Name -> Index \cup {NoSlot}]
  BY <1>1 DEF RegInv, RegTypeOK
<1> HIDE DEF t
<1>5. RegTypeOK'
  BY <1>3, <1>4 DEF RegInv, RegTypeOK
<1>6. NamesLeadToTheirSlots'
  <2>1. \A n \in Name : Supervised(n)' =>
           /\ byErn'[n] \in Taken'
           /\ slots'[byErn'[n]].ern = n
           /\ slots'[byErn'[n]].state # "Retired"
    BY <1>1, <1>2, <1>3, <1>4 DEF RegInv, NamesLeadToTheirSlots, Supervised
  <2>2. \A j \in Taken' : slots'[j].state # "Retired" => byErn'[slots'[j].ern] = j
    <3> SUFFICES ASSUME NEW j \in Taken, slots'[j].state # "Retired"
                 PROVE  byErn'[slots'[j].ern] = j
      BY <1>1
    <3>1. j # i /\ slots'[j] = slots[j] /\ slots[j].ern \in Name
      BY <1>1, <1>2, <1>3 DEF RegInv, RegTypeOK, Slot
    <3>2. byErn[slots[j].ern] = j /\ byErn[slots[i].ern] = i
      BY <3>1 DEF RegInv, NamesLeadToTheirSlots
    <3> QED BY <3>1, <3>2, <1>4
  <2>3. /\ \A j \in Index \ Taken' : slots'[j].state = "Unused"
        /\ \A j \in Taken' : slots'[j].state # "Unused"
    BY <1>1, <1>2, <1>3 DEF RegInv, NamesLeadToTheirSlots
  <2> QED BY <2>1, <2>2, <2>3 DEF NamesLeadToTheirSlots
<1>7. \A j \in Index : Sound(slots'[j])
  BY <1>2, <1>3 DEF RegInv
<1>8. RegStep
  BY <1>1, <1>2, <1>3, TakenSlots DEF RegStep, Counts
<1> QED BY <1>5, <1>6, <1>7, <1>8 DEF RegInv, Sound

-------------------------------------------------------------------------------
(* Every operation keeps the invariant.                                      *)

LEMMA RegisterKeeps ==
    ASSUME RegInv, NEW n \in Name, NEW h \in Handle, NEW restartable \in BOOLEAN,
           Register(n, h, restartable)
    PROVE  RegInv' /\ RegStep
<1> DEFINE s == NewSlot(n, restartable, h, "Running")
<1>1. /\ s \in Slot /\ s.state = "Running" /\ s.pub.state = "Starting"
      /\ s.handle # NoHandle /\ s.ern = n
  BY DEF NewSlot, FirstStatus, Slot, Status, SlotStates, PublishedStates, Handle, NoHandle
<1>2. AddSlot(n, s) /\ pending' \in Seq(Index) /\ shuttingDown' \in BOOLEAN
  BY DEF Register, RegInv, RegTypeOK
<1> HIDE DEF s
<1>3. Sound(Publish(s)) /\ Publish(s).ern = n /\ Publish(s).state = "Running"
  BY <1>1, NewSlotIsSound
<1> QED BY <1>2, <1>3, OneMore

LEMMA RegisterPendingKeeps ==
    ASSUME RegInv, NEW n \in Name, RegisterPending(n)
    PROVE  RegInv' /\ RegStep
<1> DEFINE s == NewSlot(n, TRUE, NoHandle, "Pending")
<1>1. /\ s \in Slot /\ s.state = "Pending" /\ s.pub.state = "Starting"
      /\ s.handle = NoHandle /\ s.ern = n
  BY DEF NewSlot, FirstStatus, Slot, Status, SlotStates, PublishedStates
<1>2. AddSlot(n, s) /\ used + 1 \in Index /\ shuttingDown' \in BOOLEAN
  BY RegistryConstants DEF RegisterPending, AddSlot, RegInv, RegTypeOK, Index
<1>3. pending' \in Seq(Index)
  BY <1>2 DEF RegisterPending, RegInv, RegTypeOK
<1> HIDE DEF s
<1>4. Sound(Publish(s)) /\ Publish(s).ern = n /\ Publish(s).state = "Pending"
  BY <1>1, NewSlotIsSound
<1> QED BY <1>2, <1>3, <1>4, OneMore

LEMMA BeginStartKeeps ==
    ASSUME RegInv, BeginStart
    PROVE  RegInv' /\ RegStep
<1> DEFINE i == Head(pending)
           state == IF slots[i].state = "Pending" THEN "Starting" ELSE "Restarting"
           t == Moved(slots[i], state, slots[i].handle)
<1>1. /\ i \in Index /\ pending' \in Seq(Index) /\ shuttingDown' \in BOOLEAN
      /\ UNCHANGED <<used, byErn>>
  BY DEF BeginStart, RegInv, RegTypeOK
<1>2. slots' = IF Launchable(i) THEN [slots EXCEPT ![i] = t] ELSE slots
  BY DEF BeginStart
<1>3. CASE Launchable(i)
  <2>1. /\ slots[i] \in Slot /\ slots[i].state \in {"Pending", "AwaitingRestart"}
        /\ i \in Taken /\ slots[i].handle \in AnyHandle /\ slots[i].handle = NoHandle
    BY <1>1, <1>3, TakenSlots DEF Launchable, Sound, ExpectedStop
  <2>2. state \in SlotStates /\ state \notin {"Unused", "Retired", "Running"} \cup ExpectedStop
    BY DEF SlotStates, ExpectedStop
  <2> HIDE DEF i, state
  <2>3. Sound(t) /\ t.ern = slots[i].ern /\ t.state = state /\ Counts(slots[i], t)
    BY <2>1, <2>2, MovedIsSound DEF Counts
  <2>4. slots' = [slots EXCEPT ![i] = t]
    BY <1>2, <1>3
  <2>5. slots[i].state # "Retired" /\ t.state \notin {"Unused", "Retired"}
    BY <2>1, <2>2, <2>3
  <2> HIDE DEF t
  <2> QED BY <1>1, <2>1, <2>3, <2>4, <2>5, OneMovesOn
<1>4. CASE ~Launchable(i)
  <2>1. UNCHANGED <<slots, used, byErn>>
    BY <1>1, <1>2, <1>4
  <2>2. RegInv'
    BY <1>1, <2>1 DEF RegInv, RegTypeOK, NamesLeadToTheirSlots, Supervised, Taken
  <2> QED BY <2>1, <2>2, TakenSlots DEF RegStep, Counts
<1> QED BY <1>3, <1>4

LEMMA CompleteStartKeeps ==
    ASSUME RegInv, NEW i \in Index, NEW n \in Name, NEW h \in Handle,
           CompleteStart(i, n, h)
    PROVE  RegInv' /\ RegStep
<1> DEFINE up == Advanced(slots[i])
           t == Moved(up, "Running", h)
<1>1. /\ slots[i] \in Slot /\ slots[i].state \in {"Starting", "Restarting"}
      /\ i \in Taken /\ slots[i].pub.state = Published(slots[i].state)
  BY TakenSlots DEF CompleteStart, StartAccepted, Sound
<1>2. up \in Slot /\ up.pub.state # "Running" /\ up.ern = slots[i].ern
  BY <1>1, PublishedIsSeen DEF Slot, SlotStates, Advanced
<1>3. h \in AnyHandle /\ h # NoHandle
  BY DEF Handle, AnyHandle, NoHandle
<1>4. /\ slots' = [slots EXCEPT ![i] = t]
      /\ UNCHANGED <<used, byErn>> /\ pending' \in Seq(Index) /\ shuttingDown' \in BOOLEAN
  BY DEF CompleteStart, RegInv, RegTypeOK
<1> HIDE DEF up
<1>5. Sound(t) /\ t.ern = slots[i].ern /\ t.state = "Running"
  BY <1>2, <1>3, MovedIsSound DEF SlotStates
<1>6. Counts(slots[i], t)
  <2>1. up.gen = IF slots[i].state = "Restarting" THEN slots[i].gen + 1 ELSE slots[i].gen
    BY <1>1 DEF up, Advanced, Slot
  <2> QED BY <1>1, <1>2, <1>3, <1>5, <2>1, MovedIsSound DEF Counts, SlotStates
<1> HIDE DEF t
<1> QED BY <1>1, <1>4, <1>5, <1>6, OneMovesOn

LEMMA QueueRestartKeeps ==
    ASSUME RegInv, NEW i \in Index, NEW n \in Name, NEW g \in Nat, QueueRestart(i, n, g)
    PROVE  RegInv' /\ RegStep
<1> DEFINE t == Moved(slots[i], "AwaitingRestart", slots[i].handle)
<1>1. /\ slots[i] \in Slot /\ slots[i].state = "AwaitingBackoff" /\ i \in Taken
      /\ slots[i].handle \in AnyHandle /\ slots[i].handle = NoHandle
  BY TakenSlots DEF QueueRestart, TimerMatches, Sound, ExpectedStop
<1>2. /\ slots' = [slots EXCEPT ![i] = t]
      /\ UNCHANGED <<used, byErn>> /\ pending' \in Seq(Index) /\ shuttingDown' \in BOOLEAN
  BY DEF QueueRestart, RegInv, RegTypeOK
<1>3. Sound(t) /\ t.ern = slots[i].ern /\ t.state = "AwaitingRestart" /\ Counts(slots[i], t)
  BY <1>1, MovedIsSound DEF SlotStates, ExpectedStop, Counts
<1> HIDE DEF t
<1> QED BY <1>1, <1>2, <1>3, OneMovesOn

LEMMA LettingGoKeeps ==
    ASSUME RegInv,
           (\E i \in Index : FailStart(i)) \/ (\E n \in Name : Retire(n))
    PROVE  RegInv' /\ RegStep
<1>1. ASSUME NEW i \in Index, FailStart(i)
      PROVE  RegInv' /\ RegStep
  <2>1. i \in Taken /\ slots[i].state # "Retired"
    BY <1>1, TakenSlots DEF FailStart, Owed, ExpectedStop
  <2> QED BY <1>1, <2>1, OneIsLetGo DEF FailStart
<1>2. ASSUME NEW n \in Name, Retire(n)
      PROVE  RegInv' /\ RegStep
  <2>1. byErn[n] \in Taken /\ slots[byErn[n]].state # "Retired" /\ slots[byErn[n]].ern = n
    BY <1>2 DEF Retire, RegInv, NamesLeadToTheirSlots
  <2> QED BY <1>2, <2>1, OneIsLetGo DEF Retire
<1> QED BY <1>1, <1>2

LEMMA GroupStopLandedKeeps ==
    ASSUME RegInv, NEW n \in Name, GroupStopLanded(n)
    PROVE  RegInv' /\ RegStep
<1> DEFINE i == byErn[n]
           state == IF slots[i].state = "StopThenRestart" THEN "AwaitingBackoff" ELSE "Down"
           t == Moved(slots[i], state, NoHandle)
<1>1. i \in Taken /\ slots[i] \in Slot /\ slots[i].state \in ExpectedStop
  BY TakenSlots DEF GroupStopLanded
<1>2. /\ slots' = [slots EXCEPT ![i] = t]
      /\ UNCHANGED <<used, byErn>> /\ pending' \in Seq(Index) /\ shuttingDown' \in BOOLEAN
  BY DEF GroupStopLanded, RegInv, RegTypeOK
<1>3. state \in SlotStates /\ state \notin {"Unused", "Retired", "Running"} \cup ExpectedStop
  BY DEF SlotStates, ExpectedStop
<1> HIDE DEF i, state
<1>4. Sound(t) /\ t.ern = slots[i].ern /\ t.state = state /\ Counts(slots[i], t)
  BY <1>1, <1>3, MovedIsSound DEF AnyHandle, Counts
<1>5. slots[i].state # "Retired" /\ t.state \notin {"Unused", "Retired"}
  BY <1>1, <1>3, <1>4 DEF ExpectedStop
<1> HIDE DEF t
<1> QED BY <1>1, <1>2, <1>4, <1>5, OneMovesOn

LEMMA ForgetChildKeeps ==
    ASSUME RegInv, NEW n \in Name, NEW reason \in TerminationReasons, ForgetChild(n, reason)
    PROVE  RegInv' /\ RegStep
<1> DEFINE i == byErn[n]
           t == Moved(slots[i], "Down", NoHandle)
<1>1. i \in Taken /\ slots[i] \in Slot /\ slots[i].state \in Accepting
  BY TakenSlots DEF ForgetChild, FreshFailure
<1>2. /\ slots' = [slots EXCEPT ![i] = t]
      /\ UNCHANGED <<used, byErn>> /\ pending' \in Seq(Index) /\ shuttingDown' \in BOOLEAN
  BY DEF ForgetChild, RegInv, RegTypeOK
<1>3. Sound(t) /\ t.ern = slots[i].ern /\ t.state = "Down" /\ Counts(slots[i], t)
  BY <1>1, MovedIsSound DEF SlotStates, AnyHandle, ExpectedStop, Counts
<1> HIDE DEF i, t
<1> QED BY <1>1, <1>2, <1>3, OneMovesOn DEF Accepting

LEMMA EscalateChildKeeps ==
    ASSUME RegInv, NEW n \in Name, NEW reason \in TerminationReasons, NEW kept \in Nat,
           EscalateChild(n, reason, kept)
    PROVE  RegInv' /\ RegStep
<1> DEFINE i == byErn[n]
           s == [slots[i] EXCEPT !.charged = kept]
           t == Moved(s, "Escalated", NoHandle)
<1>1. i \in Taken /\ slots[i] \in Slot /\ slots[i].state \in Accepting
  BY TakenSlots DEF EscalateChild, FreshFailure
<1>2. s \in Slot /\ s.ern = slots[i].ern /\ s.gen = slots[i].gen
  BY <1>1 DEF Slot
<1>3. /\ slots' = [slots EXCEPT ![i] = t]
      /\ UNCHANGED <<used, byErn>> /\ pending' \in Seq(Index) /\ shuttingDown' \in BOOLEAN
  BY DEF EscalateChild, RegInv, RegTypeOK
<1> HIDE DEF i, s
<1>4. Sound(t) /\ t.ern = slots[i].ern /\ t.state = "Escalated" /\ Counts(slots[i], t)
  BY <1>2, MovedIsSound DEF SlotStates, AnyHandle, ExpectedStop, Counts
<1> HIDE DEF t
<1> QED BY <1>1, <1>3, <1>4, OneMovesOn DEF Accepting

\* What the plan makes of any one record leaves it sound and under supervision.
LEMMA RearrangedIsSound ==
    ASSUME NEW s \in Slot, NEW stopped \in BOOLEAN, NEW rebuilt \in BOOLEAN,
           s.state = "Running" \/ ~stopped,
           ~stopped /\ ~rebuilt => Sound(s),
           stopped => s.handle # NoHandle,
           s.state \notin {"Unused", "Retired"} \/ (~stopped /\ ~rebuilt)
    PROVE  /\ Sound(Rearranged(s, stopped, rebuilt))
           /\ Rearranged(s, stopped, rebuilt).ern = s.ern
           /\ Rearranged(s, stopped, rebuilt).gen = s.gen
           /\ ~stopped /\ ~rebuilt => Rearranged(s, stopped, rebuilt) = s
           /\ Rearranged(s, stopped, rebuilt).state = "Unused" <=> s.state = "Unused"
           /\ Rearranged(s, stopped, rebuilt).state = "Retired" <=> s.state = "Retired"
<1>1. CASE stopped
  <2> DEFINE state == IF rebuilt THEN "StopThenRestart" ELSE "StopThenDown"
  <2>1. /\ state \in SlotStates /\ state \in ExpectedStop
        /\ state \notin {"Unused", "Retired", "Running"}
    BY DEF SlotStates, ExpectedStop
  <2>2. Rearranged(s, stopped, rebuilt) = Moved(s, state, s.handle)
    BY <1>1 DEF Rearranged
  <2>3. s.handle \in AnyHandle /\ s.handle # NoHandle /\ s.state = "Running"
    BY <1>1 DEF Slot, AnyHandle
  <2> HIDE DEF state
  <2>4. /\ Sound(Moved(s, state, s.handle)) /\ Moved(s, state, s.handle).ern = s.ern
        /\ Moved(s, state, s.handle).gen = s.gen
        /\ Moved(s, state, s.handle).state = state
    BY <2>1, <2>3, MovedIsSound
  <2> QED BY <1>1, <2>1, <2>2, <2>3, <2>4
<1>2. CASE ~stopped /\ rebuilt
  <2>1. Rearranged(s, stopped, rebuilt) = Moved(s, "AwaitingBackoff", NoHandle)
    BY <1>2 DEF Rearranged
  <2>2. /\ "AwaitingBackoff" \in SlotStates /\ NoHandle \in AnyHandle
        /\ "AwaitingBackoff" \notin {"Running"} \cup ExpectedStop
    BY DEF SlotStates, AnyHandle, ExpectedStop
  <2>3. /\ Sound(Moved(s, "AwaitingBackoff", NoHandle))
        /\ Moved(s, "AwaitingBackoff", NoHandle).ern = s.ern
        /\ Moved(s, "AwaitingBackoff", NoHandle).gen = s.gen
        /\ Moved(s, "AwaitingBackoff", NoHandle).state = "AwaitingBackoff"
    BY <2>2, MovedIsSound
  <2> QED BY <1>2, <2>1, <2>3
<1>3. CASE ~stopped /\ ~rebuilt
  BY <1>3 DEF Rearranged
<1> QED BY <1>1, <1>2, <1>3

LEMMA ScheduleRestartKeeps ==
    ASSUME RegInv, NEW n \in Name, NEW reason \in TerminationReasons, NEW kept \in Nat,
           ScheduleRestart(n, reason, kept)
    PROVE  RegInv' /\ RegStep
<1> DEFINE plan == RestartPlanFor(n)
           s(i) == IF i = byErn[n] THEN [slots[i] EXCEPT !.charged = kept + 1] ELSE slots[i]
           t(i) == Rearranged(s(i), i \in plan.stop, i \in plan.restart)
<1>1. /\ byErn[n] \in Taken /\ Taken \subseteq Index
      /\ slots[byErn[n]].state \in Accepting /\ slots[byErn[n]].restartable
  BY TakenSlots DEF ScheduleRestart, FreshFailure, Restartable
<1>2. /\ slots' = [i \in Index |-> t(i)]
      /\ UNCHANGED <<used, byErn, pending, shuttingDown>>
  BY DEF ScheduleRestart
<1>3. /\ \A i \in plan.stop : /\ i # byErn[n] /\ i \in Taken /\ slots[i].state = "Running"
                              /\ slots[i].handle # NoHandle
      /\ \A i \in plan.restart : i \in Taken /\ slots[i].state # "Retired"
      /\ byErn[n] \in plan.restart
  <2> DEFINE known == {j \in Taken : slots[j].state # "Retired"}
  <2>1. /\ DOMAIN Views = known
        /\ \A i \in known : /\ Views[i].restartable = slots[i].restartable
                            /\ Views[i].alive = (/\ slots[i].handle # NoHandle
                                                 /\ slots[i].state \in Accepting)
    BY DEF Views
  <2>2. /\ plan.stop = {i \in Affected(Strategy, byErn[n], Views) \ {byErn[n]} : Views[i].alive}
        /\ plan.restart = {i \in Affected(Strategy, byErn[n], Views) : Views[i].restartable}
        /\ Affected(Strategy, byErn[n], Views) \subseteq known
        /\ byErn[n] \in known => byErn[n] \in Affected(Strategy, byErn[n], Views)
    BY <2>1 DEF RestartPlanFor, PlanRestart, Affected
  <2>3. byErn[n] \in known
    BY <1>1 DEF Accepting
  <2>4. \A i \in plan.stop : i \in known /\ i # byErn[n] /\ slots[i].handle # NoHandle
                             /\ slots[i].state \in Accepting
    BY <2>1, <2>2
  <2>5. \A i \in plan.stop : slots[i].state = "Running"
    BY <2>4, <1>1, TakenSlots DEF Sound, Accepting, ExpectedStop
  <2> QED BY <1>1, <2>1, <2>2, <2>3, <2>4, <2>5
<1> HIDE DEF plan
<1>4. ASSUME NEW i \in Index
      PROVE  /\ Sound(t(i)) /\ t(i).ern = slots[i].ern /\ t(i).gen = slots[i].gen
             /\ slots[i].state = "Retired" => t(i) = slots[i]
             /\ t(i).state = "Unused" <=> slots[i].state = "Unused"
             /\ t(i).state = "Retired" <=> slots[i].state = "Retired"
  <2>1. s(i) \in Slot /\ s(i).state = slots[i].state /\ s(i).handle = slots[i].handle
        /\ s(i).ern = slots[i].ern /\ s(i).gen = slots[i].gen
    BY TakenSlots DEF Slot
  <2>2. /\ i \notin plan.stop /\ i \notin plan.restart => s(i) = slots[i]
        /\ i \in plan.stop => slots[i].state = "Running" /\ slots[i].handle # NoHandle
        /\ i \in plan.stop \cup plan.restart => slots[i].state \notin {"Unused", "Retired"}
    BY <1>3 DEF RegInv, NamesLeadToTheirSlots
  <2>3. Sound(slots[i])
    BY DEF RegInv
  <2> DEFINE stopped == i \in plan.stop
             rebuilt == i \in plan.restart
  <2>4. /\ stopped \in BOOLEAN /\ rebuilt \in BOOLEAN
        /\ s(i).state = "Running" \/ ~stopped
        /\ ~stopped /\ ~rebuilt => Sound(s(i))
        /\ stopped => s(i).handle # NoHandle
        /\ s(i).state \notin {"Unused", "Retired"} \/ (~stopped /\ ~rebuilt)
    BY <2>1, <2>2, <2>3
  <2>6. slots[i].state = "Retired" => ~stopped /\ ~rebuilt /\ s(i) = slots[i]
    BY <2>2
  <2>5. t(i) = Rearranged(s(i), stopped, rebuilt)
    OBVIOUS
  <2> HIDE DEF s, t, stopped, rebuilt
  <2> QED BY <2>1, <2>4, <2>5, <2>6, RearrangedIsSound
<1> HIDE DEF t
<1>5. \A i \in Index : slots'[i] = t(i)
  BY <1>2
<1>6. RegTypeOK'
  BY <1>2, <1>4 DEF RegInv, RegTypeOK, Sound
<1>7. NamesLeadToTheirSlots'
  <2>1. Taken' = Taken /\ \A m : Supervised(m)' <=> Supervised(m)
    BY <1>2 DEF Taken, Supervised
  <2> QED BY <1>1, <1>2, <1>4, <1>5, <2>1 DEF RegInv, NamesLeadToTheirSlots
<1>8. \A i \in Index : Sound(slots'[i])
  BY <1>4, <1>5
<1>9. RegStep
  BY <1>1, <1>2, <1>4, <1>5, TakenSlots DEF RegStep, Counts
<1> QED BY <1>6, <1>7, <1>8, <1>9 DEF RegInv, Sound

LEMMA SettleForShutdownKeeps ==
    ASSUME RegInv, SettleForShutdown
    PROVE  RegInv' /\ RegStep
<1> DEFINE owed == {i \in Index : slots[i].state \in Owed}
           t(i) == IF i \in owed THEN Moved(slots[i], "Retired", NoHandle) ELSE slots[i]
<1>1. /\ slots' = [i \in Index |-> t(i)]
      /\ byErn' = [n \in Name |-> IF \E i \in owed : slots[i].ern = n THEN NoSlot ELSE byErn[n]]
      /\ used' = used /\ pending' = <<>> /\ shuttingDown' = TRUE
  BY DEF SettleForShutdown
<1>2. ASSUME NEW i \in Index
      PROVE  /\ Sound(t(i)) /\ t(i).ern = slots[i].ern /\ t(i).gen = slots[i].gen
             /\ i \notin owed => t(i) = slots[i]
             /\ t(i).state = IF i \in owed THEN "Retired" ELSE slots[i].state
             /\ i \in owed => i \in Taken /\ slots[i].state # "Retired"
  <2>1. CASE i \in owed
    <3>1. slots[i] \in Slot /\ slots[i].state \in Owed /\ i \in Taken
      BY <2>1, TakenSlots DEF Owed, ExpectedStop
    <3>2. /\ "Retired" \in SlotStates /\ NoHandle \in AnyHandle
          /\ "Retired" \notin {"Running"} \cup ExpectedStop
      BY DEF SlotStates, AnyHandle, ExpectedStop
    <3> QED BY <2>1, <3>1, <3>2, MovedIsSound DEF Owed, ExpectedStop
  <2>2. CASE i \notin owed
    BY <2>2, TakenSlots
  <2> QED BY <2>1, <2>2
<1>3. \A i \in Index : slots'[i] = t(i)
  BY <1>1
<1> HIDE DEF t
<1>4. Taken' = Taken /\ Taken \subseteq Index
  BY <1>1, TakenSlots DEF Taken
<1>5. RegTypeOK'
  <2>1. slots' \in [Index -> Slot]
    BY <1>1, <1>2 DEF Sound
  <2>2. byErn' \in [Name -> Index \cup {NoSlot}]
    BY <1>1 DEF RegInv, RegTypeOK
  <2> QED BY <1>1, <2>1, <2>2 DEF RegInv, RegTypeOK
<1>6. NamesLeadToTheirSlots'
  <2>1. ASSUME NEW n \in Name, Supervised(n)'
        PROVE  /\ byErn'[n] \in Taken'
               /\ slots'[byErn'[n]].ern = n
               /\ slots'[byErn'[n]].state # "Retired"
    <3>1. byErn'[n] = byErn[n] /\ Supervised(n) /\ ~\E i \in owed : slots[i].ern = n
      BY <1>1, <2>1 DEF Supervised
    <3>2. byErn[n] \in Taken /\ slots[byErn[n]].ern = n /\ slots[byErn[n]].state # "Retired"
      BY <3>1 DEF RegInv, NamesLeadToTheirSlots
    <3> QED BY <1>2, <1>3, <1>4, <3>1, <3>2
  <2>2. ASSUME NEW j \in Taken', slots'[j].state # "Retired"
        PROVE  byErn'[slots'[j].ern] = j
    <3>1. j \in Index /\ j \in Taken /\ j \notin owed /\ slots[j].state # "Retired"
          /\ slots'[j].ern = slots[j].ern /\ slots[j].ern \in Name
      BY <1>2, <1>3, <1>4, <2>2, TakenSlots
    <3>2. byErn[slots[j].ern] = j
      BY <3>1 DEF RegInv, NamesLeadToTheirSlots
    <3>3. ~\E i \in owed : slots[i].ern = slots[j].ern
      BY <1>2, <3>1, <3>2 DEF RegInv, NamesLeadToTheirSlots
    <3> QED BY <1>1, <3>1, <3>2, <3>3
  <2>3. /\ \A j \in Index \ Taken' : slots'[j].state = "Unused"
        /\ \A j \in Taken' : slots'[j].state # "Unused"
    BY <1>2, <1>3, <1>4 DEF RegInv, NamesLeadToTheirSlots
  <2> QED BY <2>1, <2>2, <2>3 DEF NamesLeadToTheirSlots
<1>7. \A i \in Index : Sound(slots'[i])
  BY <1>2, <1>3
<1>8. RegStep
  BY <1>1, <1>2, <1>3, <1>4, TakenSlots DEF RegStep, Counts
<1> QED BY <1>5, <1>6, <1>7, <1>8 DEF RegInv, Sound

-------------------------------------------------------------------------------
LEMMA RegInitHolds == RegInit => RegInv
<1> SUFFICES ASSUME RegInit PROVE RegInv
  OBVIOUS
<1> DEFINE s == Unregistered
<1>1. (CHOOSE n \in Name : TRUE) \in Name
  BY RegistryConstants
<1>2. "Unused" \in SlotStates /\ Published("Unused") = "Starting"
  BY PublishedIsSeen DEF SlotStates
<1>3. Sound(s) /\ s.state = "Unused"
  BY <1>1, <1>2 DEF Sound, Unregistered, NewSlot, FirstStatus, Slot, Status, SlotStates,
                    PublishedStates, ExpectedStop
<1> HIDE DEF s
<1>4. slots = [i \in Index |-> s]
  BY DEF RegInit, s
<1>5. RegTypeOK
  <2>1. slots \in [Index -> Slot]
    BY <1>3, <1>4 DEF Sound
  <2>2. used \in 0..MaxSlots
    BY RegistryConstants DEF RegInit
  <2>5. shuttingDown \in BOOLEAN
    BY DEF RegInit
  <2>4. pending \in Seq(Index)
    BY DEF RegInit
  <2>3. byErn \in [Name -> Index \cup {NoSlot}]
    BY DEF RegInit
  <2> QED BY <2>1, <2>2, <2>3, <2>4, <2>5 DEF RegTypeOK
<1>6. NamesLeadToTheirSlots
  BY <1>3, <1>4 DEF RegInit, NamesLeadToTheirSlots, Supervised, Taken
<1> QED BY <1>3, <1>4, <1>5, <1>6 DEF RegInv

LEMMA NothingHappens ==
    ASSUME RegInv, UNCHANGED regVars
    PROVE  RegInv' /\ RegStep
<1>1. RegInv'
  BY DEF regVars, RegInv, RegTypeOK, NamesLeadToTheirSlots, Supervised, Taken
<1>2. RegStep
  BY TakenSlots DEF regVars, RegStep, Counts
<1> QED BY <1>1, <1>2

LEMMA NoticeKeeps ==
    ASSUME RegInv, NEW n \in Name, NEW reason \in TerminationReasons, Notice(n, reason)
    PROVE  RegInv' /\ RegStep
<1>1. CASE IgnoreNotice(n)
  BY <1>1, NothingHappens DEF IgnoreNotice
<1>2. CASE GroupStopLanded(n)
  BY <1>2, GroupStopLandedKeeps
<1>3. CASE ForgetChild(n, reason)
  BY <1>3, ForgetChildKeeps
<1>4. CASE FreshFailure(n)
            /\ \E kept \in 0..slots[byErn[n]].charged :
                 EscalateChild(n, reason, kept) \/ ScheduleRestart(n, reason, kept)
  <2>1. byErn[n] \in Index /\ slots[byErn[n]] \in Slot
    BY <1>4, TakenSlots DEF FreshFailure
  <2>2. \A kept \in 0..slots[byErn[n]].charged : kept \in Nat
    BY <2>1 DEF Slot
  <2> QED BY <1>4, <2>2, EscalateChildKeeps, ScheduleRestartKeeps
<1> QED BY <1>1, <1>2, <1>3, <1>4 DEF Notice, Escalates, Restarts

LEMMA RegNextKeeps == RegInv /\ [RegNext]_regVars => RegInv' /\ RegStep
<1> SUFFICES ASSUME RegInv, [RegNext]_regVars PROVE RegInv' /\ RegStep
  OBVIOUS
<1>1. ASSUME NEW n \in Name, NEW h \in Handle, NEW restartable \in BOOLEAN,
             Register(n, h, restartable)
      PROVE  RegInv' /\ RegStep
  BY <1>1, RegisterKeeps
<1>2. ASSUME NEW n \in Name, RegisterPending(n)
      PROVE  RegInv' /\ RegStep
  BY <1>2, RegisterPendingKeeps
<1>3. ASSUME NEW n \in Name, NEW i \in Index, NEW h \in Handle, CompleteStart(i, n, h)
      PROVE  RegInv' /\ RegStep
  BY <1>3, CompleteStartKeeps
<1>4. ASSUME NEW n \in Name, NEW i \in Index, QueueRestart(i, n, slots[i].gen)
      PROVE  RegInv' /\ RegStep
  BY <1>4, QueueRestartKeeps, TakenSlots
<1>5. ASSUME NEW n \in Name, NEW reason \in TerminationReasons, Notice(n, reason)
      PROVE  RegInv' /\ RegStep
  BY <1>5, NoticeKeeps
<1>6. CASE (\E i \in Index : FailStart(i)) \/ (\E n \in Name : Retire(n))
  BY <1>6, LettingGoKeeps
<1>7. CASE BeginStart
  BY <1>7, BeginStartKeeps
<1>8. CASE SettleForShutdown
  BY <1>8, SettleForShutdownKeeps
<1>9. CASE UNCHANGED regVars
  BY <1>9, NothingHappens
<1> QED BY <1>1, <1>2, <1>3, <1>4, <1>5, <1>6, <1>7, <1>8, <1>9
        DEF RegNext, RegisterDuplicate, RetireUnknown

LEMMA RegInvHolds == RegSpec => []RegInv
BY RegInitHolds, RegNextKeeps, PTL DEF RegSpec

-------------------------------------------------------------------------------
(* The queue.  A slot becomes launchable only when it is appended, and stops *)
(* being launchable when its entry is taken.                                 *)

LEMMA MovedState ==
    ASSUME NEW s \in Slot, NEW state \in SlotStates, NEW h \in AnyHandle
    PROVE  Moved(s, state, h).state = state
<1> DEFINE t == [s EXCEPT !.state = state, !.handle = h]
<1>1. t \in Slot /\ t.state = state
  BY DEF Slot, AnyHandle
<1>2. Publish(t).state = t.state
  BY <1>1, PublishKeeps DEF Slot
<1> QED BY <1>1, <1>2 DEF Moved

\* No slot becomes launchable and the queue keeps its entries.
NoneBecomesLaunchable == \A i \in Taken' : Launchable(i)' => i \in Taken /\ Launchable(i)

LEMMA QueueUntouched ==
    ASSUME RegInv, QueuedSlotsAreInTheQueue, NoneBecomesLaunchable, pending' = pending
    PROVE  QueuedSlotsAreInTheQueue'
BY DEF QueuedSlotsAreInTheQueue, NoneBecomesLaunchable

LEMMA QueueExtended ==
    ASSUME RegInv, QueuedSlotsAreInTheQueue, NEW new \in Index,
           pending' = Append(pending, new),
           \A i \in Taken' : Launchable(i)' => i = new \/ (i \in Taken /\ Launchable(i))
    PROVE  QueuedSlotsAreInTheQueue'
<1>1. pending \in Seq(Index) /\ Len(pending) \in Nat
  BY DEF RegInv, RegTypeOK
<1>2. /\ Len(pending') = Len(pending) + 1
      /\ pending'[Len(pending) + 1] = new
      /\ \A k \in 1..Len(pending) : pending'[k] = pending[k]
  BY <1>1
<1>3. ASSUME NEW i \in Taken', Launchable(i)'
      PROVE  \E k \in 1..Len(pending') : pending'[k] = i
  <2>1. CASE i = new
    BY <1>1, <1>2, <2>1
  <2>2. CASE i \in Taken /\ Launchable(i)
    <3>1. PICK k \in 1..Len(pending) : pending[k] = i
      BY <2>2 DEF QueuedSlotsAreInTheQueue
    <3> QED BY <1>1, <1>2, <3>1
  <2> QED BY <1>3, <2>1, <2>2
<1> QED BY <1>3 DEF QueuedSlotsAreInTheQueue

LEMMA BeginStartKeepsTheQueue ==
    ASSUME RegInv, QueuedSlotsAreInTheQueue, BeginStart
    PROVE  QueuedSlotsAreInTheQueue'
<1> DEFINE i == Head(pending)
           state == IF slots[i].state = "Pending" THEN "Starting" ELSE "Restarting"
           t == Moved(slots[i], state, slots[i].handle)
<1>1. /\ pending \in Seq(Index) /\ pending # <<>> /\ i \in Index
      /\ pending' = Tail(pending) /\ Taken' = Taken /\ Taken \subseteq Index
  BY TakenSlots DEF BeginStart, RegInv, RegTypeOK, Taken
<1>2. slots[i] \in Slot /\ slots[i].handle \in AnyHandle
  BY <1>1, TakenSlots
<1>3. state \in SlotStates /\ state \notin {"Pending", "AwaitingRestart"}
  BY DEF SlotStates
<1>4. slots' = IF Launchable(i) THEN [slots EXCEPT ![i] = t] ELSE slots
  BY DEF BeginStart
<1> HIDE DEF i, state
<1>5. t.state = state
  BY <1>2, <1>3, MovedState
<1> HIDE DEF t
<1>6. /\ \A j \in Index : j # i => slots'[j] = slots[j]
      /\ slots'[i].state \notin {"Pending", "AwaitingRestart"}
  BY <1>1, <1>3, <1>4, <1>5 DEF Launchable, RegInv, RegTypeOK
<1>7. ASSUME NEW j \in Taken, Launchable(j)'
      PROVE  \E k \in 1..Len(pending') : pending'[k] = j
  <2>1. j # i /\ Launchable(j)
    BY <1>1, <1>6, <1>7 DEF Launchable
  <2>2. PICK k \in 1..Len(pending) : pending[k] = j
    BY <2>1 DEF QueuedSlotsAreInTheQueue
  <2>3. k # 1
    BY <1>1, <2>1, <2>2 DEF i
  <2>4. k - 1 \in 1..Len(pending') /\ pending'[k - 1] = pending[k]
    BY <1>1, <2>2, <2>3
  <2> QED BY <2>2, <2>4
<1> QED BY <1>1, <1>7 DEF QueuedSlotsAreInTheQueue

\* Every other operation appends what it makes launchable, or makes nothing so.
LEMMA RegistrationKeepsTheQueue ==
    ASSUME RegInv, QueuedSlotsAreInTheQueue, NEW n \in Name,
           \/ \E h \in Handle, restartable \in BOOLEAN : Register(n, h, restartable)
           \/ RegisterPending(n)
    PROVE  QueuedSlotsAreInTheQueue'
<1>1. ASSUME NEW slot, AddSlot(n, slot)
      PROVE  /\ used + 1 \in Index /\ Taken' = Taken \cup {used + 1}
             /\ slots'[used + 1] = Publish(slot)
             /\ \A i \in Taken : slots'[i] = slots[i]
  <2>1. /\ used \in Nat /\ used + 1 \in Index /\ used + 1 \notin Taken
        /\ Taken' = Taken \cup {used + 1}
    BY <1>1, RegistryConstants DEF AddSlot, RegInv, RegTypeOK, Index, Taken
  <2> QED BY <1>1, <2>1, TakenSlots DEF AddSlot, RegInv, RegTypeOK
<1>2. ASSUME NEW h \in Handle, NEW restartable \in BOOLEAN, Register(n, h, restartable)
      PROVE  QueuedSlotsAreInTheQueue'
  <2> DEFINE s == NewSlot(n, restartable, h, "Running")
  <2>1. s \in Slot /\ s.state = "Running"
    BY DEF NewSlot, FirstStatus, Slot, Status, SlotStates, PublishedStates
  <2>2. AddSlot(n, s) /\ pending' = pending
    BY <1>2 DEF Register
  <2> HIDE DEF s
  <2>3. Publish(s).state = "Running"
    BY <2>1, PublishKeeps DEF Slot
  <2>4. NoneBecomesLaunchable
    BY <1>1, <2>2, <2>3 DEF NoneBecomesLaunchable, Launchable
  <2> QED BY <2>2, <2>4, QueueUntouched
<1>3. CASE RegisterPending(n)
  <2> DEFINE s == NewSlot(n, TRUE, NoHandle, "Pending")
  <2>1. AddSlot(n, s) /\ pending' = Append(pending, used + 1)
    BY <1>3 DEF RegisterPending
  <2> HIDE DEF s
  <2>2. /\ used + 1 \in Index
        /\ \A i \in Taken' : Launchable(i)' => i = used + 1 \/ (i \in Taken /\ Launchable(i))
    BY <1>1, <2>1 DEF Launchable
  <2> QED BY <2>1, <2>2, QueueExtended
<1> QED BY <1>2, <1>3

\* One record moves to a state that is not launchable, the queue untouched.
LEMMA OneRecordLeavesTheQueue ==
    ASSUME RegInv, QueuedSlotsAreInTheQueue, NEW i \in Index, NEW s \in Slot,
           NEW state \in SlotStates, NEW h \in AnyHandle,
           state \notin {"Pending", "AwaitingRestart"},
           slots' = [slots EXCEPT ![i] = Moved(s, state, h)],
           UNCHANGED <<used, pending>>
    PROVE  QueuedSlotsAreInTheQueue'
<1>1. /\ Taken' = Taken /\ Taken \subseteq Index
      /\ \A j \in Index : slots'[j] = IF j = i THEN Moved(s, state, h) ELSE slots[j]
  BY TakenSlots DEF Taken, RegInv, RegTypeOK
<1>2. NoneBecomesLaunchable
  BY <1>1, MovedState DEF NoneBecomesLaunchable, Launchable
<1> QED BY <1>2, QueueUntouched

LEMMA OneRecordOperationsKeepTheQueue ==
    ASSUME RegInv, QueuedSlotsAreInTheQueue, NEW n \in Name,
           NEW reason \in TerminationReasons, NEW i \in Index,
           \/ \E h \in Handle : CompleteStart(i, n, h)
           \/ FailStart(i)
           \/ GroupStopLanded(n)
           \/ ForgetChild(n, reason)
           \/ \E kept \in Nat : EscalateChild(n, reason, kept)
           \/ Retire(n)
    PROVE  QueuedSlotsAreInTheQueue'
<1> USE DEF SlotStates, AnyHandle
<1>1. ASSUME NEW h \in Handle, CompleteStart(i, n, h)
      PROVE  QueuedSlotsAreInTheQueue'
  <2>1. Advanced(slots[i]) \in Slot
    BY TakenSlots DEF Slot, Advanced
  <2> QED BY <1>1, <2>1, OneRecordLeavesTheQueue DEF CompleteStart
<1>2. CASE FailStart(i)
  BY <1>2, TakenSlots, OneRecordLeavesTheQueue DEF FailStart
<1>3. Supervised(n) => byErn[n] \in Index /\ slots[byErn[n]] \in Slot
  BY TakenSlots
<1>4. CASE GroupStopLanded(n)
  <2> DEFINE state == IF slots[byErn[n]].state = "StopThenRestart" THEN "AwaitingBackoff"
                                                                   ELSE "Down"
  <2>1. /\ slots' = [slots EXCEPT ![byErn[n]] = Moved(slots[byErn[n]], state, NoHandle)]
        /\ UNCHANGED <<used, pending>> /\ Supervised(n)
    BY <1>4 DEF GroupStopLanded
  <2>2. state \in SlotStates /\ state \notin {"Pending", "AwaitingRestart"}
    OBVIOUS
  <2> HIDE DEF state
  <2> QED BY <1>3, <2>1, <2>2, OneRecordLeavesTheQueue
<1>5. CASE ForgetChild(n, reason)
  BY <1>3, <1>5, OneRecordLeavesTheQueue DEF ForgetChild, FreshFailure
<1>6. ASSUME NEW kept \in Nat, EscalateChild(n, reason, kept)
      PROVE  QueuedSlotsAreInTheQueue'
  <2>1. [slots[byErn[n]] EXCEPT !.charged = kept] \in Slot
    BY <1>3, <1>6 DEF Slot, EscalateChild, FreshFailure
  <2> QED BY <1>3, <1>6, <2>1, OneRecordLeavesTheQueue DEF EscalateChild, FreshFailure
<1>7. CASE Retire(n)
  BY <1>3, <1>7, OneRecordLeavesTheQueue DEF Retire
<1> QED BY <1>1, <1>2, <1>4, <1>5, <1>6, <1>7

LEMMA QueueRestartKeepsTheQueue ==
    ASSUME RegInv, QueuedSlotsAreInTheQueue, NEW i \in Index, NEW n \in Name, NEW g \in Nat,
           QueueRestart(i, n, g)
    PROVE  QueuedSlotsAreInTheQueue'
<1>1. /\ pending' = Append(pending, i) /\ Taken' = Taken /\ Taken \subseteq Index
      /\ \A j \in Index : j # i => slots'[j] = slots[j]
  BY TakenSlots DEF QueueRestart, Taken, RegInv, RegTypeOK
<1>2. \A j \in Taken' : Launchable(j)' => j = i \/ (j \in Taken /\ Launchable(j))
  BY <1>1 DEF Launchable
<1> QED BY <1>1, <1>2, QueueExtended

LEMMA ScheduleRestartKeepsTheQueue ==
    ASSUME RegInv, QueuedSlotsAreInTheQueue, NEW n \in Name,
           NEW reason \in TerminationReasons, NEW kept \in Nat,
           ScheduleRestart(n, reason, kept)
    PROVE  QueuedSlotsAreInTheQueue'
<1> DEFINE plan == RestartPlanFor(n)
           s(i) == IF i = byErn[n] THEN [slots[i] EXCEPT !.charged = kept + 1] ELSE slots[i]
<1>1. /\ slots' = [i \in Index |-> Rearranged(s(i), i \in plan.stop, i \in plan.restart)]
      /\ UNCHANGED <<used, pending>>
  BY DEF ScheduleRestart
<1>2. Taken' = Taken /\ Taken \subseteq Index
  BY <1>1, TakenSlots DEF Taken
<1>3. ASSUME NEW i \in Index
      PROVE  slots'[i].state \in {"Pending", "AwaitingRestart"} => Launchable(i)
  <2>1. s(i) \in Slot /\ s(i).state = slots[i].state /\ s(i).handle \in AnyHandle
    BY TakenSlots DEF Slot, AnyHandle
  <2>2. slots'[i] = Rearranged(s(i), i \in plan.stop, i \in plan.restart)
    BY <1>1
  <2> HIDE DEF s, plan
  <2>3. \/ slots'[i] = s(i)
        \/ \E state \in {"StopThenRestart", "StopThenDown", "AwaitingBackoff"}, h \in AnyHandle :
             slots'[i] = Moved(s(i), state, h)
    <3>1. NoHandle \in AnyHandle
      BY DEF AnyHandle
    <3>2. CASE i \in plan.stop
      BY <2>1, <2>2, <3>2 DEF Rearranged
    <3>3. CASE i \notin plan.stop
      BY <2>2, <3>1, <3>3 DEF Rearranged
    <3> QED BY <3>2, <3>3
  <2> QED BY <2>1, <2>3, MovedState DEF Launchable, SlotStates
<1>4. NoneBecomesLaunchable
  BY <1>2, <1>3 DEF NoneBecomesLaunchable, Launchable
<1> QED BY <1>1, <1>4, QueueUntouched

LEMMA SettleForShutdownKeepsTheQueue ==
    ASSUME RegInv, SettleForShutdown
    PROVE  QueuedSlotsAreInTheQueue'
<1>1. ASSUME NEW i \in Index
      PROVE  slots'[i].state \notin {"Pending", "AwaitingRestart"}
  <2>1. CASE slots[i].state \in Owed
    <3>1. slots'[i] = Moved(slots[i], "Retired", NoHandle)
      BY <2>1 DEF SettleForShutdown
    <3> QED BY <3>1, TakenSlots, MovedState DEF SlotStates, AnyHandle
  <2>2. CASE slots[i].state \notin Owed
    BY <2>2 DEF SettleForShutdown, Owed
  <2> QED BY <2>1, <2>2
<1>2. Taken' \subseteq Index
  BY TakenSlots DEF SettleForShutdown, Taken
<1> QED BY <1>1, <1>2 DEF QueuedSlotsAreInTheQueue, Launchable

LEMMA QueueStep ==
    RegInv /\ QueuedSlotsAreInTheQueue /\ [RegNext]_regVars => QueuedSlotsAreInTheQueue'
<1> SUFFICES ASSUME RegInv, QueuedSlotsAreInTheQueue, [RegNext]_regVars
             PROVE  QueuedSlotsAreInTheQueue'
  OBVIOUS
<1>1. CASE UNCHANGED regVars
  BY <1>1, QueueUntouched DEF regVars, NoneBecomesLaunchable, Launchable, Taken
<1>2. ASSUME NEW n \in Name, NEW reason \in TerminationReasons, Notice(n, reason)
      PROVE  QueuedSlotsAreInTheQueue'
  <2>1. CASE IgnoreNotice(n)
    BY <1>1, <2>1 DEF IgnoreNotice
  <2>2. CASE GroupStopLanded(n) \/ ForgetChild(n, reason)
    <3>1. byErn[n] \in Index
      BY <2>2, TakenSlots DEF GroupStopLanded, ForgetChild, FreshFailure
    <3> QED BY <2>2, <3>1, OneRecordOperationsKeepTheQueue
  <2>3. CASE FreshFailure(n)
             /\ \E kept \in 0..slots[byErn[n]].charged :
                  EscalateChild(n, reason, kept) \/ ScheduleRestart(n, reason, kept)
    <3>1. byErn[n] \in Index /\ slots[byErn[n]] \in Slot
      BY <2>3, TakenSlots DEF FreshFailure
    <3>2. \A kept \in 0..slots[byErn[n]].charged : kept \in Nat
      BY <3>1 DEF Slot
    <3> QED BY <2>3, <3>1, <3>2, OneRecordOperationsKeepTheQueue, ScheduleRestartKeepsTheQueue
  <2> QED BY <1>2, <2>1, <2>2, <2>3 DEF Notice, Escalates, Restarts
<1>3. ASSUME NEW n \in Name, NEW i \in Index,
             \/ \E h \in Handle : CompleteStart(i, n, h)
             \/ FailStart(i)
             \/ Retire(n)
      PROVE  QueuedSlotsAreInTheQueue'
  <2>1. "Normal" \in TerminationReasons
    BY DEF TerminationReasons
  <2> QED BY <1>3, <2>1, OneRecordOperationsKeepTheQueue
<1>4. \A n \in Name : Retire(n) => \E i \in Index : TRUE
  BY TakenSlots DEF Retire
<1>5. ASSUME NEW n \in Name, NEW i \in Index, QueueRestart(i, n, slots[i].gen)
      PROVE  QueuedSlotsAreInTheQueue'
  BY <1>5, TakenSlots, QueueRestartKeepsTheQueue
<1>6. ASSUME NEW n \in Name,
             \/ \E h \in Handle, restartable \in BOOLEAN : Register(n, h, restartable)
             \/ RegisterPending(n)
      PROVE  QueuedSlotsAreInTheQueue'
  BY <1>6, RegistrationKeepsTheQueue
<1>7. CASE BeginStart
  BY <1>7, BeginStartKeepsTheQueue
<1>8. CASE SettleForShutdown
  BY <1>8, SettleForShutdownKeepsTheQueue
<1>9. ASSUME NEW i \in Index, FailStart(i)
      PROVE  QueuedSlotsAreInTheQueue'
  BY <1>3, <1>9, RegistryConstants
<1> QED BY <1>1, <1>2, <1>3, <1>4, <1>5, <1>6, <1>7, <1>8, <1>9
        DEF RegNext, RegisterDuplicate, RetireUnknown

-------------------------------------------------------------------------------
\* The registry's variables keep their types.
THEOREM TypeCorrect == RegSpec => []RegTypeOK
<1>1. RegInv => RegTypeOK
  BY DEF RegInv
<1> QED BY <1>1, RegInvHolds, PTL

\* register, register_pending, fail_start, retire and cancel_unfinished_starts
\* keep the map from names to records exact, whatever the order of calls.
THEOREM NamesAreExact == RegSpec => []NamesLeadToTheirSlots
<1>1. RegInv => NamesLeadToTheirSlots
  BY DEF RegInv
<1> QED BY <1>1, RegInvHolds, PTL

\* The six places that set or clear a handle agree with the states they set.
THEOREM HandlesFitTheirStates == RegSpec => []HandleWhileServing
<1>1. RegInv => HandleWhileServing
  BY DEF RegInv, Sound, HandleWhileServing
<1> QED BY <1>1, RegInvHolds, PTL

\* publish() may skip an update without ever showing a watcher an old status.
THEOREM WatchersAreNeverStale == RegSpec => []WatchersSeeTheSlot
<1>1. RegInv => WatchersSeeTheSlot
  BY TakenSlots DEF Sound, WatchersSeeTheSlot
<1> QED BY <1>1, RegInvHolds, PTL

\* A child waiting to be started is never lost from the queue.
THEOREM QueueForgetsNobody == RegSpec => []QueuedSlotsAreInTheQueue
<1>1. RegInit => QueuedSlotsAreInTheQueue
  BY DEF RegInit, QueuedSlotsAreInTheQueue, Taken
<1> QED BY <1>1, QueueStep, RegInvHolds, PTL DEF RegSpec

\* Records are never moved, renamed or revived: a position taken once means the
\* same child for ever.
THEOREM PositionsNeverMove == RegSpec => PositionsAreForever
<1> DEFINE A == /\ used' >= used
                /\ \A i \in Taken :
                     /\ slots[i].ern = slots'[i].ern
                     /\ slots[i].state = "Retired" => slots'[i] = slots[i]
<1>1. RegInv /\ [RegNext]_regVars => [A]_regVars
  BY RegNextKeeps DEF RegStep
<1> QED BY <1>1, RegInvHolds, PTL DEF RegSpec, PositionsAreForever

\* A generation is advanced by complete_start alone, by one, and only for a
\* replacement.
THEOREM GenerationsCount == RegSpec => GenerationCountsReplacements
<1> DEFINE A == \A i \in Taken : slots'[i].gen # slots[i].gen =>
                    /\ slots'[i].gen = slots[i].gen + 1
                    /\ slots[i].state = "Restarting" /\ slots'[i].state = "Running"
<1>1. RegInv /\ [RegNext]_regVars => [A]_regVars
  BY RegNextKeeps DEF RegStep, Counts
<1> QED BY <1>1, RegInvHolds, PTL DEF RegSpec, GenerationCountsReplacements

\* Types, names, handles, queue and watched statuses agree after every call the
\* supervisor makes on its registry.
THEOREM RegistryHolds == RegSpec => []RegistryIsConsistent
<1>1. RegTypeOK /\ NamesLeadToTheirSlots /\ HandleWhileServing
      /\ QueuedSlotsAreInTheQueue /\ WatchersSeeTheSlot => RegistryIsConsistent
  BY DEF RegistryIsConsistent
<1> QED
  BY <1>1, TypeCorrect, NamesAreExact, HandlesFitTheirStates, QueueForgetsNobody,
     WatchersAreNeverStale, PTL

\* An index and a generation handed to a timer, a task or a plan keep meaning
\* the same child and the same incarnation.
THEOREM RecordsHold == RegSpec => RecordsAreForever
BY PositionsNeverMove, GenerationsCount DEF RecordsAreForever

-------------------------------------------------------------------------------
(* What watchers see.  RegInv says that what a watcher sees is what the      *)
(* slot's state publishes as, so a step of a channel is a step of the slot.  *)
(* What is missing is that no sibling is ever being stopped under OneForOne: *)
(* a stop that lands takes a watcher from Restarting back to RestartPending. *)

NobodyIsStopped == \A i \in Index : slots[i].state \notin ExpectedStop

RefInv == RegInv /\ NobodyIsStopped

-------------------------------------------------------------------------------
(* What a channel shows, and what a step of one slot does to it.             *)

NotYet == [state |-> "Unregistered", gen |-> 0]
Seen(s) == [state |-> Published(s.state), gen |-> s.gen]

LEMMA ChannelsShowTheSlots ==
    ASSUME RegInv
    PROVE  PublishedStatus = [i \in Index |-> IF i \in Taken THEN Seen(slots[i]) ELSE NotYet]
BY DEF RegInv, Sound, PublishedStatus, Seen, NotYet

LEMMA ChannelsShowTheSlotsNext ==
    ASSUME RegInv'
    PROVE  PublishedStatus' = [i \in Index |-> IF i \in Taken' THEN Seen(slots'[i]) ELSE NotYet]
BY DEF RegInv, Sound, PublishedStatus, Seen, NotYet

LEMMA MovedShows ==
    ASSUME NEW s \in Slot, NEW state \in SlotStates, NEW h \in AnyHandle
    PROVE  Moved(s, state, h).state = state /\ Moved(s, state, h).gen = s.gen
<1> DEFINE t == [s EXCEPT !.state = state, !.handle = h]
<1>1. t \in Slot /\ t.state = state /\ t.gen = s.gen
  BY DEF Slot, AnyHandle
<1>2. Publish(t).state = t.state /\ Publish(t).gen = t.gen
  BY <1>1, PublishKeeps DEF Slot
<1> QED BY <1>1, <1>2 DEF Moved

\* Only one record changes.
LEMMA OneChannelMoves ==
    ASSUME RegInv, RegInv', NEW i \in Taken, UNCHANGED used,
           \A j \in Taken \ {i} : Seen(slots'[j]) = Seen(slots[j])
    PROVE  /\ PublishedStatus' = [PublishedStatus EXCEPT ![i] = Seen(slots'[i])]
           /\ i \in Index /\ PublishedStatus[i] = Seen(slots[i])
<1>1. Taken' = Taken /\ Taken \subseteq Index
  BY TakenSlots DEF Taken
<1> DEFINE new == PublishedStatus'
           old == PublishedStatus
<1>2. new = [j \in Index |-> IF j \in Taken THEN Seen(slots'[j]) ELSE NotYet]
  BY <1>1, ChannelsShowTheSlotsNext
<1>3. old = [j \in Index |-> IF j \in Taken THEN Seen(slots[j]) ELSE NotYet]
  BY ChannelsShowTheSlots
<1>4. i \in Index /\ old[i] = Seen(slots[i])
  BY <1>1, <1>3
<1> HIDE DEF new, old
<1>5. new = [old EXCEPT ![i] = Seen(slots'[i])]
  <2>1. /\ DOMAIN new = Index /\ DOMAIN [old EXCEPT ![i] = Seen(slots'[i])] = Index
        /\ new = [j \in Index |-> new[j]]
    BY <1>2, <1>3
  <2>2. ASSUME NEW j \in Index
        PROVE  new[j] = [old EXCEPT ![i] = Seen(slots'[i])][j]
    BY <1>1, <1>2, <1>3
  <2> QED BY <2>1, <2>2, <1>3
<1> QED BY <1>4, <1>5 DEF new, old

-------------------------------------------------------------------------------
(* The steps of the cycle.                                                   *)

\* What a channel may say next, of the same generation.
Follows(from, to) ==
    \/ to = from
    \/ from = "Starting" /\ to = "Running"
    \/ from \in {"Starting", "Running"} /\ to \in {"RestartPending", "Down", "Escalated"}
    \/ from = "RestartPending" /\ to = "Restarting"
    \/ from \in PublishedStates \ {"Retired"} /\ to = "Retired"

\* The record of one channel, and its fields one at a time.
Channel == [state : PublishedStates \cup {"Unregistered"}, gen : Nat]

LEMMA StateOfARecord ==
    ASSUME NEW r \in Channel, NEW to \in PublishedStates
    PROVE  [r EXCEPT !.state = to] = [state |-> to, gen |-> r.gen]
<1>1. \A x \in Channel : x = [state |-> x.state, gen |-> x.gen]
  BY DEF Channel
<1> DEFINE x == [r EXCEPT !.state = to]
<1>2. x \in Channel /\ x.state = to /\ x.gen = r.gen
  BY DEF Channel
<1> HIDE DEF x
<1>3. x = [state |-> to, gen |-> r.gen]
  BY <1>1, <1>2
<1> QED BY <1>3 DEF x

LEMMA StateOfAnEntry ==
    ASSUME NEW f \in [Index -> Channel], NEW i \in Index, NEW to \in PublishedStates
    PROVE  [f EXCEPT ![i].state = to] = [f EXCEPT ![i] = [state |-> to, gen |-> f[i].gen]]
<1>1. f[i] \in Channel
  OBVIOUS
<1>2. [f[i] EXCEPT !.state = to] = [state |-> to, gen |-> f[i].gen]
  BY <1>1, StateOfARecord
<1>3. [f EXCEPT ![i].state = to] = [f EXCEPT ![i] = [f[i] EXCEPT !.state = to]]
  OBVIOUS
<1> QED BY <1>2, <1>3

LEMMA StepOfTheCycle ==
    ASSUME RegInv, RegInv', NEW i \in Taken, UNCHANGED used,
           \A j \in Taken \ {i} : Seen(slots'[j]) = Seen(slots[j]),
           \/ /\ slots'[i].gen = slots[i].gen
              /\ Follows(Published(slots[i].state), Published(slots'[i].state))
           \/ /\ slots'[i].gen = slots[i].gen + 1
              /\ Published(slots[i].state) = "Restarting"
              /\ Published(slots'[i].state) = "Running"
    PROVE  [Watched!Next]_PublishedStatus
<1> DEFINE old == PublishedStatus
           from == Published(slots[i].state)
           to == Published(slots'[i].state)
           g == slots[i].gen
<1>1. /\ i \in Index /\ old[i] = [state |-> from, gen |-> g]
      /\ PublishedStatus' = [old EXCEPT ![i] = [state |-> to, gen |-> slots'[i].gen]]
  BY OneChannelMoves DEF Seen
<1>2. old \in [Index -> Channel]
  <2>1. \A j \in Index : IF j \in Taken THEN Seen(slots[j]) \in Channel ELSE NotYet \in Channel
    BY TakenSlots, PublishedIsSeen DEF Seen, NotYet, Channel
  <2>2. old = [j \in Index |-> IF j \in Taken THEN Seen(slots[j]) ELSE NotYet]
    BY ChannelsShowTheSlots
  <2> HIDE DEF old
  <2> QED BY <2>1, <2>2
<1>6. to \in PublishedStates /\ g \in Nat
  <2>1. slots'[i] \in Slot
    BY <1>1 DEF RegInv, RegTypeOK
  <2> QED BY <1>1, <2>1, TakenSlots, PublishedIsSeen DEF Slot
<1> HIDE DEF from, to, g
<1>3. CASE slots'[i].gen = g /\ to = from
  <2>1. PublishedStatus' = old
    <3> HIDE DEF old
    <3> QED BY <1>1, <1>2, <1>3
  <2> QED BY <2>1
<1>4. CASE slots'[i].gen = g /\ to # from /\ Follows(from, to)
  <2>1. PublishedStatus' = [old EXCEPT ![i].state = to]
    <3> HIDE DEF old
    <3>1. [old EXCEPT ![i].state = to] = [old EXCEPT ![i] = [state |-> to, gen |-> old[i].gen]]
      <4>1. i \in Index
        BY <1>1
      <4>2. to \in PublishedStates
        BY <1>6
      <4> QED BY ONLY <1>2, <4>1, <4>2, StateOfAnEntry
    <3> QED BY <1>1, <1>4, <3>1
  <2>2. \/ Watched!ComesUp(i) \/ Watched!Fails(i) \/ Watched!Restarts(i)
        \/ Watched!GoesDown(i) \/ Watched!IsLetGo(i)
    <3>1. old[i].state = from
      <4> HIDE DEF old
      <4> QED BY <1>1
    <3>2. CASE from = "Starting" /\ to = "Running"
      BY <2>1, <3>1, <3>2 DEF Watched!ComesUp, Watched!Becomes
    <3>3. CASE from \in {"Starting", "Running"} /\ to = "RestartPending"
      BY <2>1, <3>1, <3>3 DEF Watched!Fails, Watched!Becomes
    <3>4. CASE from \in {"Starting", "Running"} /\ to \in {"Down", "Escalated"}
      BY <2>1, <3>1, <3>4 DEF Watched!GoesDown, Watched!Becomes
    <3>5. CASE from = "RestartPending" /\ to = "Restarting"
      BY <2>1, <3>1, <3>5 DEF Watched!Restarts, Watched!Becomes
    <3>6. CASE from \in PublishedStates \ {"Retired"} /\ to = "Retired"
      BY <2>1, <3>1, <3>6 DEF Watched!IsLetGo, Watched!Becomes, Watched!Awaited, Watched!Lasting,
           PublishedStates, Terminal
    <3> QED BY <1>4, <3>2, <3>3, <3>4, <3>5, <3>6 DEF Follows
  <2> QED BY <1>1, <2>2 DEF Watched!Next
<1>5. CASE slots'[i].gen = g + 1 /\ from = "Restarting" /\ to = "Running"
  <2>1. /\ old[i].state = "Restarting"
        /\ PublishedStatus' = [old EXCEPT ![i] = [state |-> "Running", gen |-> @.gen + 1]]
    <3> HIDE DEF old
    <3>1. old[i].gen = g /\ old[i].state = from
      BY <1>1
    <3> QED BY <1>1, <1>5, <3>1
  <2>2. Watched!IsReplaced(i)
    BY <2>1 DEF Watched!IsReplaced
  <2> QED BY <1>1, <2>2 DEF Watched!Next
<1> QED BY <1>3, <1>4, <1>5 DEF from, to, g

Implements == [Watched!Next]_PublishedStatus /\ NobodyIsStopped'

LEMMA RecordStep ==
    ASSUME RefInv, RegInv', NEW i \in Taken, NEW t,
           slots' = [slots EXCEPT ![i] = t], UNCHANGED used, t.state \notin ExpectedStop,
           \/ t.gen = slots[i].gen /\ Follows(Published(slots[i].state), Published(t.state))
           \/ t.gen = slots[i].gen + 1 /\ slots[i].state = "Restarting" /\ t.state = "Running"
    PROVE  Implements
<1>1. /\ i \in Index /\ Taken \subseteq Index
      /\ \A j \in Index : slots'[j] = IF j = i THEN t ELSE slots[j]
  BY TakenSlots DEF RefInv, RegInv, RegTypeOK
<1>2. Published("Restarting") = "Restarting" /\ Published("Running") = "Running"
  BY DEF Published, ExpectedStop
<1>3. [Watched!Next]_PublishedStatus
  BY <1>1, <1>2, StepOfTheCycle DEF RefInv
<1> QED BY <1>1, <1>3 DEF Implements, RefInv, NobodyIsStopped

\* The states an operation moves a slot between, as a watcher sees them.
LEMMA CycleOfTheStates ==
    /\ \A from \in Accepting, to \in {"Down", "Escalated", "AwaitingBackoff"} :
          Follows(Published(from), Published(to))
    /\ \A from \in SlotStates \ {"Retired"} : Follows(Published(from), Published("Retired"))
    /\ Follows(Published("Pending"), Published("Starting"))
    /\ Follows(Published("Starting"), Published("Running"))
    /\ Follows(Published("AwaitingBackoff"), Published("AwaitingRestart"))
    /\ Follows(Published("AwaitingRestart"), Published("Restarting"))
<1>1. \A from \in SlotStates \ {"Retired"} : Published(from) \in PublishedStates \ {"Retired"}
  BY DEF SlotStates, Published, PublishedStates, Terminal, ExpectedStop
<1>2. Published("Retired") = "Retired"
  BY DEF Published, ExpectedStop
<1>3. /\ Published("Pending") = "Starting" /\ Published("Starting") = "Starting"
      /\ Published("Running") = "Running" /\ Published("AwaitingBackoff") = "RestartPending"
      /\ Published("AwaitingRestart") = "Restarting" /\ Published("Restarting") = "Restarting"
      /\ Published("Down") = "Down" /\ Published("Escalated") = "Escalated"
  BY DEF Published, ExpectedStop
<1> QED BY <1>1, <1>2, <1>3 DEF Follows, Accepting

\* An operation that moves one record on.
LEMMA OneMove ==
    ASSUME RefInv, RegInv', NEW i \in Taken, NEW s \in Slot, s.gen = slots[i].gen,
           NEW state \in SlotStates, state \notin ExpectedStop, NEW h \in AnyHandle,
           slots' = [slots EXCEPT ![i] = Moved(s, state, h)], UNCHANGED used,
           Follows(Published(slots[i].state), Published(state))
    PROVE  Implements
<1> DEFINE t == Moved(s, state, h)
<1>1. t.state = state /\ t.gen = slots[i].gen
  BY MovedShows
<1> HIDE DEF t
<1>2. slots' = [slots EXCEPT ![i] = t]
  BY DEF t
<1> QED BY <1>1, <1>2, RecordStep

-------------------------------------------------------------------------------
(* Every operation is a step of the cycle.                                   *)

LEMMA BeginStartImplements ==
    ASSUME RefInv, RegInv', BeginStart
    PROVE  Implements
<1> DEFINE i == Head(pending)
           state == IF slots[i].state = "Pending" THEN "Starting" ELSE "Restarting"
<1>1. i \in Index /\ UNCHANGED used
  BY DEF BeginStart, RefInv, RegInv, RegTypeOK
<1>2. slots' = IF Launchable(i) THEN [slots EXCEPT ![i] = Moved(slots[i], state, slots[i].handle)]
                                ELSE slots
  BY DEF BeginStart
<1>3. CASE Launchable(i)
  <2>1. /\ i \in Taken /\ slots[i] \in Slot /\ slots[i].handle \in AnyHandle
        /\ slots[i].state \in {"Pending", "AwaitingRestart"}
    BY <1>1, <1>3, TakenSlots DEF Launchable, RefInv
  <2>2. state \in SlotStates \ ExpectedStop
        /\ Follows(Published(slots[i].state), Published(state))
    BY <2>1, CycleOfTheStates DEF SlotStates, ExpectedStop
  <2>3. slots' = [slots EXCEPT ![i] = Moved(slots[i], state, slots[i].handle)]
    BY <1>2, <1>3
  <2> HIDE DEF i, state
  <2> QED BY <1>1, <2>1, <2>2, <2>3, OneMove
<1>4. CASE ~Launchable(i)
  <2>1. slots' = slots /\ used' = used
    BY <1>1, <1>2, <1>4
  <2> QED BY <2>1 DEF Implements, RefInv, NobodyIsStopped, PublishedStatus, Taken
<1> QED BY <1>3, <1>4

LEMMA CompleteStartImplements ==
    ASSUME RefInv, RegInv', NEW i \in Index, NEW n \in Name, NEW h \in Handle,
           CompleteStart(i, n, h)
    PROVE  Implements
<1> DEFINE up == Advanced(slots[i])
           t == Moved(up, "Running", h)
<1>1. /\ slots[i] \in Slot /\ slots[i].state \in {"Starting", "Restarting"} /\ i \in Taken
      /\ h \in AnyHandle /\ "Running" \in SlotStates /\ "Running" \notin ExpectedStop
  BY TakenSlots DEF CompleteStart, StartAccepted, RefInv, AnyHandle, SlotStates, ExpectedStop
<1>2. /\ up \in Slot
      /\ up.gen = IF slots[i].state = "Restarting" THEN slots[i].gen + 1 ELSE slots[i].gen
  BY <1>1 DEF Slot, Advanced
<1>3. slots' = [slots EXCEPT ![i] = t] /\ UNCHANGED used
  BY DEF CompleteStart
<1> HIDE DEF up
<1>4. t.state = "Running" /\ t.gen = up.gen
  BY <1>1, <1>2, MovedShows
<1> HIDE DEF t
<1> QED BY <1>1, <1>2, <1>3, <1>4, RecordStep, CycleOfTheStates

LEMMA QueueRestartImplements ==
    ASSUME RefInv, RegInv', NEW i \in Index, NEW n \in Name, NEW g, QueueRestart(i, n, g)
    PROVE  Implements
<1>1. /\ slots[i] \in Slot /\ slots[i].state = "AwaitingBackoff" /\ i \in Taken
      /\ slots[i].handle \in AnyHandle
  BY TakenSlots DEF QueueRestart, TimerMatches, RefInv
<1>2. "AwaitingRestart" \in SlotStates /\ "AwaitingRestart" \notin ExpectedStop
  BY DEF SlotStates, ExpectedStop
<1>3. /\ slots' = [slots EXCEPT ![i] = Moved(slots[i], "AwaitingRestart", slots[i].handle)]
      /\ UNCHANGED used
  BY DEF QueueRestart
<1> QED BY <1>1, <1>2, <1>3, OneMove, CycleOfTheStates

LEMMA LettingGoImplements ==
    ASSUME RefInv, RegInv',
           (\E i \in Index : FailStart(i)) \/ (\E n \in Name : Retire(n))
    PROVE  Implements
<1>1. ASSUME NEW i \in Taken, slots[i].state # "Retired", UNCHANGED used,
             slots' = [slots EXCEPT ![i] = Moved(slots[i], "Retired", NoHandle)]
      PROVE  Implements
  <2>1. /\ slots[i] \in Slot /\ slots[i].state \in SlotStates \ {"Retired"}
        /\ NoHandle \in AnyHandle /\ "Retired" \in SlotStates /\ "Retired" \notin ExpectedStop
    BY <1>1, TakenSlots DEF RefInv, AnyHandle, SlotStates, ExpectedStop
  <2> QED BY <1>1, <2>1, OneMove, CycleOfTheStates
<1>2. ASSUME NEW i \in Index, FailStart(i)
      PROVE  Implements
  <2>1. i \in Taken /\ slots[i].state # "Retired"
    BY <1>2, TakenSlots DEF FailStart, Owed, ExpectedStop, RefInv
  <2> QED BY <1>1, <1>2, <2>1 DEF FailStart
<1>3. ASSUME NEW n \in Name, Retire(n)
      PROVE  Implements
  <2>1. byErn[n] \in Taken /\ slots[byErn[n]].state # "Retired"
    BY <1>3 DEF Retire, RefInv, RegInv, NamesLeadToTheirSlots
  <2> QED BY <1>1, <1>3, <2>1 DEF Retire
<1> QED BY <1>2, <1>3

LEMMA ForgetOrEscalateImplements ==
    ASSUME RefInv, RegInv', NEW n \in Name, NEW reason \in TerminationReasons, NEW kept \in Nat,
           ForgetChild(n, reason) \/ EscalateChild(n, reason, kept)
    PROVE  Implements
<1> DEFINE i == byErn[n]
           s == [slots[i] EXCEPT !.charged = kept]
<1>1. /\ i \in Taken /\ slots[i] \in Slot /\ slots[i].state \in Accepting
      /\ NoHandle \in AnyHandle /\ {"Down", "Escalated"} \subseteq SlotStates \ ExpectedStop
      /\ UNCHANGED used
  BY TakenSlots DEF ForgetChild, EscalateChild, FreshFailure, RefInv, AnyHandle, SlotStates,
       ExpectedStop
<1>2. s \in Slot /\ s.gen = slots[i].gen
  BY <1>1 DEF Slot
<1>3. \/ slots' = [slots EXCEPT ![i] = Moved(slots[i], "Down", NoHandle)]
      \/ slots' = [slots EXCEPT ![i] = Moved(s, "Escalated", NoHandle)]
  BY DEF ForgetChild, EscalateChild
<1> HIDE DEF i, s
<1> QED BY <1>1, <1>2, <1>3, OneMove, CycleOfTheStates

\* Under OneForOne a plan is about the failed child alone.
LEMMA ScheduleRestartImplements ==
    ASSUME Strategy = "OneForOne", RefInv, RegInv',
           NEW n \in Name, NEW reason \in TerminationReasons, NEW kept \in Nat,
           ScheduleRestart(n, reason, kept)
    PROVE  Implements
<1> DEFINE i == byErn[n]
           plan == RestartPlanFor(n)
           s == [slots[i] EXCEPT !.charged = kept + 1]
           t == Moved(s, "AwaitingBackoff", NoHandle)
<1>1. /\ i \in Taken /\ i \in Index /\ slots[i] \in Slot /\ slots[i].state \in Accepting
      /\ slots[i].restartable
      /\ NoHandle \in AnyHandle /\ "AwaitingBackoff" \in SlotStates \ ExpectedStop
      /\ UNCHANGED used
  BY TakenSlots DEF ScheduleRestart, FreshFailure, Restartable, RefInv, AnyHandle, SlotStates,
       ExpectedStop
<1>2. plan.stop = {} /\ plan.restart = {i}
  <2> DEFINE known == {j \in Taken : slots[j].state # "Retired"}
  <2>1. DOMAIN Views = known /\ \A j \in known : Views[j].restartable = slots[j].restartable
    BY DEF Views
  <2>2. i \in known
    BY <1>1 DEF Accepting
  <2>3. Affected(Strategy, i, Views) = {i}
    BY <2>1, <2>2 DEF Affected
  <2>4. /\ plan.stop = {j \in Affected(Strategy, i, Views) \ {i} : Views[j].alive}
        /\ plan.restart = {j \in Affected(Strategy, i, Views) : Views[j].restartable}
    BY DEF RestartPlanFor, PlanRestart
  <2> QED BY <1>1, <2>1, <2>2, <2>3, <2>4
<1>3. slots' = [j \in Index |-> Rearranged(IF j = i THEN s ELSE slots[j],
                                           j \in plan.stop, j \in plan.restart)]
  BY DEF ScheduleRestart
<1>4. s \in Slot /\ s.gen = slots[i].gen
  BY <1>1 DEF Slot
<1>5. slots \in [Index -> Slot]
  BY DEF RefInv, RegInv, RegTypeOK
<1> HIDE DEF i, plan, s
<1>6. slots' = [slots EXCEPT ![i] = t]
  <2>1. ASSUME NEW j \in Index
        PROVE  slots'[j] = IF j = i THEN t ELSE slots[j]
    BY <1>2, <1>3 DEF Rearranged
  <2> HIDE DEF t
  <2> QED BY <1>1, <1>3, <1>5, <2>1
<1> QED BY <1>1, <1>4, <1>6, OneMove, CycleOfTheStates

LEMMA NoticeImplements ==
    ASSUME Strategy = "OneForOne", RefInv, RegInv',
           NEW n \in Name, NEW reason \in TerminationReasons, Notice(n, reason)
    PROVE  Implements
<1>1. CASE IgnoreNotice(n)
  BY <1>1 DEF IgnoreNotice, regVars, Implements, RefInv, NobodyIsStopped, PublishedStatus, Taken
<1>2. ~GroupStopLanded(n)
  BY TakenSlots DEF GroupStopLanded, RefInv, NobodyIsStopped
<1>3. CASE ForgetChild(n, reason)
  BY <1>3, ForgetOrEscalateImplements
<1>4. CASE Escalates(n, reason) \/ Restarts(n, reason)
  <2>1. byErn[n] \in Index /\ slots[byErn[n]].charged \in Nat
    BY <1>4, TakenSlots DEF Escalates, Restarts, FreshFailure, RefInv, Slot
  <2>2. \A kept \in 0..slots[byErn[n]].charged : kept \in Nat
    BY <2>1
  <2> QED BY <1>4, <2>2, ForgetOrEscalateImplements, ScheduleRestartImplements
          DEF Escalates, Restarts
<1> QED BY <1>1, <1>2, <1>3, <1>4 DEF Notice

LEMMA RegistrationImplements ==
    ASSUME RefInv, RegInv', NEW n \in Name,
           \/ \E h \in Handle, restartable \in BOOLEAN : Register(n, h, restartable)
           \/ RegisterPending(n)
    PROVE  Implements
<1> DEFINE i == used + 1
           old == PublishedStatus
           new == PublishedStatus'
<1>1. PICK s \in Slot : /\ AddSlot(n, s) /\ s.gen = 0 /\ s.state \in {"Running", "Pending"}
  <2>1. ASSUME NEW h \in Handle, NEW restartable \in BOOLEAN, Register(n, h, restartable)
        PROVE  \E s \in Slot : AddSlot(n, s) /\ s.gen = 0 /\ s.state \in {"Running", "Pending"}
    <3>1. NewSlot(n, restartable, h, "Running") \in Slot
      BY DEF NewSlot, FirstStatus, Slot, Status, SlotStates, PublishedStates
    <3>2. /\ NewSlot(n, restartable, h, "Running").gen = 0
          /\ NewSlot(n, restartable, h, "Running").state = "Running"
      BY DEF NewSlot
    <3> QED BY <2>1, <3>1, <3>2 DEF Register
  <2>2. CASE RegisterPending(n)
    <3>1. NewSlot(n, TRUE, NoHandle, "Pending") \in Slot
      BY DEF NewSlot, FirstStatus, Slot, Status, SlotStates, PublishedStates
    <3>2. /\ NewSlot(n, TRUE, NoHandle, "Pending").gen = 0
          /\ NewSlot(n, TRUE, NoHandle, "Pending").state = "Pending"
      BY DEF NewSlot
    <3> QED BY <2>2, <3>1, <3>2 DEF RegisterPending
  <2> QED BY <2>1, <2>2
<1>2. Publish(s).gen = 0 /\ Publish(s).state = s.state
  BY <1>1, PublishKeeps DEF Slot
<1>3. /\ i \in Index /\ i \notin Taken /\ Taken' = Taken \cup {i} /\ Taken \subseteq Index
      /\ \A j \in Index : slots'[j] = IF j = i THEN Publish(s) ELSE slots[j]
  BY <1>1, RegistryConstants DEF AddSlot, RefInv, RegInv, RegTypeOK, Taken, Index
<1>4. NobodyIsStopped'
  BY <1>1, <1>2, <1>3 DEF RefInv, NobodyIsStopped, ExpectedStop
<1>5. /\ new = [j \in Index |-> IF j \in Taken' THEN Seen(slots'[j]) ELSE NotYet]
      /\ old = [j \in Index |-> IF j \in Taken THEN Seen(slots[j]) ELSE NotYet]
  BY ChannelsShowTheSlots, ChannelsShowTheSlotsNext DEF RefInv
<1>6. PICK first \in {"Starting", "Running"} : Seen(Publish(s)) = [state |-> first, gen |-> 0]
  BY <1>1, <1>2 DEF Seen, Published, ExpectedStop
<1> HIDE DEF i, old, new
<1>7. old[i] = [state |-> "Unregistered", gen |-> 0]
  BY <1>3, <1>5 DEF NotYet
<1>8. new = [old EXCEPT ![i] = [state |-> first, gen |-> 0]]
  <2>1. ASSUME NEW j \in Index
        PROVE  new[j] = [old EXCEPT ![i] = [state |-> first, gen |-> 0]][j]
    BY <1>3, <1>5, <1>6
  <2> QED BY <1>5, <2>1
<1>9. old \in [Index -> Channel]
  <2>1. \A j \in Index : IF j \in Taken THEN Seen(slots[j]) \in Channel ELSE NotYet \in Channel
    BY TakenSlots, PublishedIsSeen DEF Seen, NotYet, Channel, RefInv
  <2> QED BY <1>5, <2>1
<1>10. [old EXCEPT ![i].state = first] = [old EXCEPT ![i] = [state |-> first, gen |-> old[i].gen]]
  <2>1. first \in PublishedStates
    BY DEF PublishedStates
  <2>2. i \in Index
    BY <1>3
  <2> QED BY ONLY <1>9, <2>1, <2>2, StateOfAnEntry
<1>11. new = [old EXCEPT ![i].state = first] /\ old[i].state = "Unregistered"
  BY <1>7, <1>8, <1>10
<1>12. Watched!IsRegistered(i)
  BY <1>11 DEF Watched!IsRegistered, Watched!Becomes, old, new
<1> QED BY <1>3, <1>4, <1>12 DEF Watched!Next, Implements

LEMMA SettleForShutdownImplements ==
    ASSUME RefInv, RegInv', SettleForShutdown
    PROVE  Implements
<1> DEFINE old == PublishedStatus
           new == PublishedStatus'
           t(i) == IF slots[i].state \in Owed THEN Moved(slots[i], "Retired", NoHandle) ELSE slots[i]
<1>1. Taken' = Taken /\ Taken \subseteq Index
  BY TakenSlots DEF SettleForShutdown, Taken, RefInv
<1>2. \A i \in Index : slots'[i] = t(i)
  BY DEF SettleForShutdown
<1>3. ASSUME NEW i \in Index
      PROVE  /\ slots[i].state \in SlotStates
             /\ t(i).gen = slots[i].gen
             /\ t(i).state = IF slots[i].state \in Owed THEN "Retired" ELSE slots[i].state
  <2>1. slots[i] \in Slot /\ NoHandle \in AnyHandle /\ "Retired" \in SlotStates
    BY TakenSlots DEF RefInv, AnyHandle, SlotStates
  <2>2. Moved(slots[i], "Retired", NoHandle).state = "Retired"
        /\ Moved(slots[i], "Retired", NoHandle).gen = slots[i].gen
    BY <2>1, MovedShows
  <2> QED BY <2>1, <2>2 DEF Slot
<1> HIDE DEF t
<1>4. NobodyIsStopped'
  BY <1>2, <1>3 DEF NobodyIsStopped, RefInv, ExpectedStop
<1>5. /\ new = [i \in Index |-> IF i \in Taken THEN Seen(t(i)) ELSE NotYet]
      /\ old = [i \in Index |-> IF i \in Taken THEN Seen(slots[i]) ELSE NotYet]
  BY <1>1, <1>2, ChannelsShowTheSlots, ChannelsShowTheSlotsNext DEF RefInv
<1>6. \A state \in SlotStates \ {"Unused"} :
          state \in Owed <=> Published(state) \in Watched!Awaited
  BY DEF SlotStates, Owed, ExpectedStop, Published, Watched!Awaited
<1>7. Published("Retired") = "Retired"
  BY DEF Published, ExpectedStop
<1> HIDE DEF old, new
<1>8. \A i \in Index : old[i] \in Channel
  BY <1>1, <1>5, TakenSlots, PublishedIsSeen DEF Seen, NotYet, Channel, RefInv
<1>9. ASSUME NEW i \in Index
      PROVE  new[i] = IF old[i].state \in Watched!Awaited
                      THEN [old[i] EXCEPT !.state = "Retired"] ELSE old[i]
  <2>1. CASE i \notin Taken
    <3>1. new[i] = NotYet /\ old[i] = NotYet
      BY <1>5, <2>1
    <3>2. NotYet.state \notin Watched!Awaited
      BY DEF NotYet, Watched!Awaited
    <3> QED BY <3>1, <3>2
  <2>2. CASE i \in Taken
    <3>1. new[i] = Seen(t(i)) /\ old[i] = Seen(slots[i])
      BY <1>5, <2>2
    <3>2. slots[i].state \in SlotStates \ {"Unused"}
      BY <1>3, <2>2 DEF RefInv, RegInv, NamesLeadToTheirSlots
    <3>3. CASE slots[i].state \in Owed
      <4>1. old[i].state \in Watched!Awaited
        BY <1>6, <3>1, <3>2, <3>3 DEF Seen
      <4>2. new[i] = [state |-> "Retired", gen |-> old[i].gen]
        BY <1>3, <1>7, <3>1, <3>3 DEF Seen
      <4>3. old[i] \in Channel /\ "Retired" \in PublishedStates
        BY <1>8 DEF PublishedStates, Terminal
      <4>4. [old[i] EXCEPT !.state = "Retired"] = [state |-> "Retired", gen |-> old[i].gen]
        BY ONLY <4>3, StateOfARecord
      <4> QED BY <4>1, <4>2, <4>4
    <3>4. CASE slots[i].state \notin Owed
      <4>1. old[i].state \notin Watched!Awaited
        BY <1>6, <3>1, <3>2, <3>4 DEF Seen
      <4>2. new[i] = old[i]
        BY <1>3, <3>1, <3>4 DEF Seen
      <4> QED BY <4>1, <4>2
    <3> QED BY <3>3, <3>4
  <2> QED BY <2>1, <2>2
<1>10. new = [i \in Index |-> IF old[i].state \in Watched!Awaited
                              THEN [old[i] EXCEPT !.state = "Retired"] ELSE old[i]]
  BY <1>5, <1>9
<1>11. Watched!SupervisorStops
  BY <1>10 DEF Watched!SupervisorStops, old, new
<1> QED BY <1>4, <1>11 DEF Watched!Next, Implements

-------------------------------------------------------------------------------
LEMMA InitImplements ==
    ASSUME RegInit
    PROVE  Watched!Init /\ RefInv
<1>1. RegInv
  BY RegInitHolds
<1>2. NobodyIsStopped
  BY DEF RegInit, NobodyIsStopped, Unregistered, NewSlot, ExpectedStop
<1>3. Watched!Init
  <2>1. Taken = {}
    BY DEF RegInit, Taken
  <2> QED BY <2>1 DEF Watched!Init, PublishedStatus
<1> QED BY <1>1, <1>2, <1>3 DEF RefInv

LEMMA NextImplements ==
    ASSUME Strategy = "OneForOne", RefInv, [RegNext]_regVars
    PROVE  RefInv' /\ [Watched!Next]_PublishedStatus
<1>1. RegInv'
  BY RegNextKeeps DEF RefInv
<1> SUFFICES Implements
  BY <1>1 DEF Implements, RefInv
<1>2. CASE UNCHANGED regVars
  BY <1>2 DEF regVars, Implements, RefInv, NobodyIsStopped, PublishedStatus, Taken
<1>3. ASSUME NEW n \in Name, NEW i \in Index, NEW h \in Handle, CompleteStart(i, n, h)
      PROVE  Implements
  BY <1>1, <1>3, CompleteStartImplements
<1>4. ASSUME NEW n \in Name, NEW i \in Index, QueueRestart(i, n, slots[i].gen)
      PROVE  Implements
  BY <1>1, <1>4, QueueRestartImplements
<1>5. ASSUME NEW n \in Name, NEW reason \in TerminationReasons, Notice(n, reason)
      PROVE  Implements
  BY <1>1, <1>5, NoticeImplements
<1>6. CASE (\E i \in Index : FailStart(i)) \/ (\E n \in Name : Retire(n))
  BY <1>1, <1>6, LettingGoImplements
<1>7. CASE BeginStart
  BY <1>1, <1>7, BeginStartImplements
<1>8. CASE SettleForShutdown
  BY <1>1, <1>8, SettleForShutdownImplements
<1>9. ASSUME NEW n \in Name,
             \/ \E h \in Handle, restartable \in BOOLEAN : Register(n, h, restartable)
             \/ RegisterPending(n)
      PROVE  Implements
  BY <1>1, <1>9, RegistrationImplements
<1> QED BY <1>2, <1>3, <1>4, <1>5, <1>6, <1>7, <1>8, <1>9
        DEF RegNext, RegisterDuplicate, RetireUnknown

\* Watchers of a OneForOne supervisor's children see the cycle ChildStatus
\* describes, whatever the order of the registry's operations: a child never
\* comes back from a terminal status, skips a generation, or restarts without
\* having failed (publish, SupervisionState).
THEOREM WatchersAlwaysSeeTheCycle ==
    ASSUME Strategy = "OneForOne"
    PROVE  RegSpec => WatchersSeeTheCycle
<1>1. RegInit => Watched!Init /\ RefInv
  BY InitImplements
<1>2. RefInv /\ [RegNext]_regVars => RefInv' /\ [Watched!Next]_PublishedStatus
  BY NextImplements
<1> QED BY <1>1, <1>2, PTL DEF RegSpec, WatchersSeeTheCycle, Watched!Spec
================================================================================
