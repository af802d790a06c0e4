------------------------------ MODULE RestartPlan ------------------------------
(***************************************************************************)
(* The pure decision layer of a supervisor: does a termination warrant a   *)
(* restart (RestartPolicy::should_restart), which children does the        *)
(* strategy name (SupervisionStrategy::decide) and what has to be stopped  *)
(* and rebuilt (plan_restart).                                             *)
(*                                                                         *)
(* A plan is a record of two sets of positions.  The code keeps them as    *)
(* vectors, `stop` sorted descending and `restart` ascending; whoever      *)
(* executes a plan here takes the greatest position of `stop` and the      *)
(* least one of `restart` next, which is the same order.                   *)
(***************************************************************************)
EXTENDS Integers

RestartPolicies == {"Permanent", "Temporary", "Transient"}
TerminationReasons == {"Normal", "Panic", "InboxClosed", "ParentShutdown"}
Strategies == {"OneForOne", "OneForAll", "RestForOne"}

\* A parent's own shutdown never warrants a restart; otherwise the policy says.
ShouldRestart(policy, reason) ==
    /\ reason # "ParentShutdown"
    /\ \/ policy = "Permanent"
       \/ policy = "Transient" /\ reason # "Normal"

\* The positions a strategy covers when the child at `failed` terminates.
\* `views` maps the position of every child that is not retired to what the
\* planner is shown of it: whether it can be rebuilt and whether it is alive.
Affected(strategy, failed, views) ==
    {i \in DOMAIN views :
        \/ i = failed
        \/ strategy = "OneForAll"
        \/ strategy = "RestForOne" /\ i > failed}

\* The failed child is never stopped: its view still says alive, because the
\* plan is made before its slot is updated.
PlanRestart(strategy, failed, views) ==
    LET affected == Affected(strategy, failed, views)
    IN  [stop    |-> {i \in affected \ {failed} : views[i].alive},
         restart |-> {i \in affected : views[i].restartable}]

===============================================================================
