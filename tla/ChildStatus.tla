------------------------------ MODULE ChildStatus ------------------------------
(***************************************************************************)
(* What a supervisor promises whoever watches one of its children: the     *)
(* cycle of SupervisionState and its terminal states, with no word of      *)
(* slots, queues, timers or handles.  A child is registered, comes up,     *)
(* fails, waits, is replaced by its next generation; once it is down or    *)
(* given up on it does not come back, and a retired one never changes      *)
(* again.                                                                  *)
(***************************************************************************)
EXTENDS Naturals

CONSTANT Child

VARIABLE status    \* child |-> what its channel last said

Awaited == {"Starting", "RestartPending", "Restarting"}
Lasting == {"Running", "Down", "Escalated"}

TypeOK ==
    status \in [Child -> [state : {"Unregistered", "Retired"} \cup Awaited \cup Lasting,
                          gen : Nat]]

Becomes(c, from, to) ==
    /\ status[c].state \in from
    /\ status' = [status EXCEPT ![c].state = to]

IsRegistered(c) ==
    \E first \in {"Starting", "Running"} : Becomes(c, {"Unregistered"}, first)
ComesUp(c) == Becomes(c, {"Starting"}, "Running")
Fails(c) == Becomes(c, {"Starting", "Running"}, "RestartPending")
Restarts(c) == Becomes(c, {"RestartPending"}, "Restarting")
IsReplaced(c) ==
    /\ status[c].state = "Restarting"
    /\ status' = [status EXCEPT ![c] = [state |-> "Running", gen |-> @.gen + 1]]
GoesDown(c) ==
    \E end \in {"Down", "Escalated"} : Becomes(c, {"Starting", "Running"}, end)
IsLetGo(c) == Becomes(c, Awaited \cup Lasting, "Retired")

\* The supervisor stops: whoever waits for a child is told it will not come.
SupervisorStops ==
    status' = [c \in Child |-> IF status[c].state \in Awaited
                               THEN [status[c] EXCEPT !.state = "Retired"]
                               ELSE status[c]]

Init == status = [c \in Child |-> [state |-> "Unregistered", gen |-> 0]]

Next ==
    \/ \E c \in Child : IsRegistered(c) \/ ComesUp(c) \/ Fails(c) \/ Restarts(c)
                           \/ IsReplaced(c) \/ GoesDown(c) \/ IsLetGo(c)
    \/ SupervisorStops

Spec == Init /\ [][Next]_status

===============================================================================
