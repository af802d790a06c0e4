------------------------------ MODULE IpcNames ------------------------------
(***************************************************************************)
(* The logical names under which actors answer to other processes          *)
(* (common/actor_runtime.rs): one map, read by the IPC listener and        *)
(* changed by whoever exposes or hides a name, by every actor that starts  *)
(* with expose_for_ipc, and by a supervisor that repoints the names of a   *)
(* child it restarted and removes those of a child that is gone.           *)
(***************************************************************************)
EXTENDS Naturals, FiniteSets

CONSTANTS
    Actor,       \* children of one supervisor that expose themselves
    Shared,      \* names callers choose, none of them an actor's own
    MaxLives     \* bound: incarnations of an actor

(* An actor's own name, ipc_name_for, is derived from its identifier.      *)
Name == Actor \union Shared
Incarnation == [who : Actor, life : 1..MaxLives]
Nobody == [who |-> "nobody", life |-> 0]

VARIABLES
    names,       \* ipc_actor_registry
    claims,      \* ipc_expose between its lookup and its insert: [name, to]
    slot,        \* what the supervisor records of an actor
    life,        \* its latest incarnation
    up,          \* whether that one runs
    starter,     \* where the task that starts it is
    upkeep       \* what the supervisor does to the names it has collected

vars == <<names, claims, slot, life, up, starter, upkeep>>

AtRest == [do |-> "nothing", who |-> "nobody", left |-> {}]
Latest(a) == [who |-> a, life |-> life[a]]

Init ==
    /\ names = [n \in Name |-> Nobody] /\ claims = {}
    /\ slot = [a \in Actor |-> "new"] /\ life = [a \in Actor |-> 0]
    /\ up = [a \in Actor |-> FALSE] /\ starter = [a \in Actor |-> "none"]
    /\ upkeep = AtRest

-----------------------------------------------------------------------------
(* ipc_expose looks the name up and inserts the handle under another lock. *)
ExposeLooks(n, i) ==
    /\ names[n] = Nobody /\ claims' = claims \union {[name |-> n, to |-> i]}

ExposeInserts(c) ==
    /\ c \in claims /\ claims' = claims \ {c}
    /\ names' = [names EXCEPT ![c.name] = c.to]
    /\ UNCHANGED <<slot, life, up, starter, upkeep>>

Expose(n, a) ==
    /\ up[a] /\ ExposeLooks(n, Latest(a))
    /\ UNCHANGED <<names, slot, life, up, starter, upkeep>>

Hide(n) ==
    /\ names[n] # Nobody /\ names' = [names EXCEPT ![n] = Nobody]
    /\ UNCHANGED <<claims, slot, life, up, starter, upkeep>>

-----------------------------------------------------------------------------
(* An actor is started by a task of its own: it runs, exposes itself under *)
(* its own name unless that is taken, and the supervisor is told.          *)
Launch(a) ==
    /\ upkeep = AtRest /\ slot[a] \in {"new", "ended"} /\ life[a] < MaxLives
    /\ slot' = [slot EXCEPT ![a] = "starting"]
    /\ starter' = [starter EXCEPT ![a] = "building"]
    /\ UNCHANGED <<names, claims, life, up, upkeep>>

Start(a) ==
    /\ starter[a] = "building"
    /\ life' = [life EXCEPT ![a] = @ + 1] /\ up' = [up EXCEPT ![a] = TRUE]
    /\ starter' = [starter EXCEPT ![a] = "exposing"]
    /\ UNCHANGED <<names, claims, slot, upkeep>>

ExposeOnStart(a) ==
    /\ starter[a] = "exposing" /\ starter' = [starter EXCEPT ![a] = "reporting"]
    /\ ExposeLooks(a, Latest(a)) \/ (names[a] # Nobody /\ UNCHANGED claims)
    /\ UNCHANGED <<names, slot, life, up, upkeep>>

Ends(a) ==
    /\ up[a] /\ up' = [up EXCEPT ![a] = FALSE]
    /\ UNCHANGED <<names, claims, slot, life, starter, upkeep>>

-----------------------------------------------------------------------------
(* The supervisor.  Names are collected first and changed one by one, and  *)
(* what is under them by then is not looked at again.                      *)
Collect(what, a) ==
    upkeep' = [do |-> what, who |-> a, left |-> {n \in Name : names[n].who = a}]

(* The report of a start: a restart repoints the names, and a child whose  *)
(* slot has moved on is stopped.                                           *)
RecordStarted(a) ==
    /\ upkeep = AtRest /\ starter[a] = "reporting" /\ starter' = [starter EXCEPT ![a] = "none"]
    /\ [name |-> a, to |-> Latest(a)] \notin claims
    /\ IF slot[a] = "starting"
       THEN /\ slot' = [slot EXCEPT ![a] = "running"] /\ UNCHANGED up
            /\ IF life[a] > 1 THEN Collect("rebind", a) ELSE UNCHANGED upkeep
       ELSE up' = [up EXCEPT ![a] = FALSE] /\ UNCHANGED <<slot, upkeep>>
    /\ UNCHANGED <<names, claims, life>>

(* A child that ended is to be restarted, or is given up on.               *)
RecordEnded(a) ==
    /\ upkeep = AtRest /\ slot[a] = "running" /\ ~up[a]
    /\ \/ slot' = [slot EXCEPT ![a] = "ended"] /\ UNCHANGED upkeep
       \/ slot' = [slot EXCEPT ![a] = "gone"] /\ Collect("forget", a)
    /\ UNCHANGED <<names, claims, life, up, starter>>

(* unsupervise, in any state of the slot.  The child, if the slot holds     *)
(* one, is stopped by the caller.                                          *)
Release(a) ==
    /\ upkeep = AtRest /\ slot[a] \notin {"new", "gone"}
    /\ slot' = [slot EXCEPT ![a] = "gone"] /\ Collect("forget", a)
    /\ up' = [up EXCEPT ![a] = up[a] /\ slot[a] # "running"]
    /\ UNCHANGED <<names, claims, life, starter>>

Upkeep(n) ==
    /\ n \in upkeep.left
    /\ names' = [names EXCEPT ![n] = IF upkeep.do = "rebind" THEN Latest(upkeep.who) ELSE Nobody]
    /\ upkeep' = [upkeep EXCEPT !.left = @ \ {n}]
    /\ UNCHANGED <<claims, slot, life, up, starter>>

UpkeepEnds ==
    /\ upkeep # AtRest /\ upkeep.left = {} /\ upkeep' = AtRest
    /\ UNCHANGED <<names, claims, slot, life, up, starter>>

Next ==
    \/ \E a \in Actor :
        \/ Launch(a) \/ Start(a) \/ ExposeOnStart(a) \/ Ends(a)
        \/ RecordStarted(a) \/ RecordEnded(a) \/ Release(a)
        \/ \E n \in Shared : Expose(n, a)
    \/ \E n \in Name : Hide(n) \/ Upkeep(n)
    \/ \E c \in claims : ExposeInserts(c)
    \/ UpkeepEnds

Spec == Init /\ [][Next]_vars

-----------------------------------------------------------------------------
(* Properties.                                                             *)

IpcNamesTypeOK ==
    /\ names \in [Name -> Incarnation \union {Nobody}]
    /\ claims \subseteq [name : Name, to : Incarnation]
    /\ slot \in [Actor -> {"new", "starting", "running", "ended", "gone"}]
    /\ life \in [Actor -> 0..MaxLives] /\ up \in [Actor -> BOOLEAN]
    /\ starter \in [Actor -> {"none", "building", "exposing", "reporting"}]
    /\ upkeep \in [do : {"nothing", "rebind", "forget"}, who : Actor \union {"nobody"},
                   left : SUBSET Name]

(* "If name is already registered, the existing registration is kept": a   *)
(* name passes from one actor to another only after it was hidden or       *)
(* forgotten.  Not kept either, between ipc_expose's lookup and insert.    *)
ClaimsAreKept ==
    [][\A n \in Name : names[n] # Nobody /\ names'[n] # Nobody
          => names'[n].who = names[n].who]_vars

(* With nothing in progress, a name leads to the latest incarnation of an  *)
(* actor its supervisor still has: "Removes every IPC name registered for  *)
(* a child that is not coming back" (ipc_forget).  Not kept: a start in    *)
(* flight exposes the child after its release removed the names.           *)
NamesLeadToTheLiving ==
    /\ claims = {} /\ upkeep = AtRest
    /\ \A a \in Actor : starter[a] = "none" /\ slot[a] \notin {"ended", "starting"}
    => \A n \in Name : names[n] # Nobody =>
           slot[names[n].who] = "running" /\ names[n] = Latest(names[n].who)

=============================================================================
