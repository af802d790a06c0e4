--------------------------- MODULE RegistryRefinement ---------------------------
(***************************************************************************)
(* The registry of a OneForOne supervisor keeps the promise of ChildStatus *)
(* on every child's status channel.                                        *)
(***************************************************************************)
EXTENDS SupervisionRegistry

\* The last value sent on each position's channel; a position not taken yet has
\* no channel.
PublishedStatus ==
    [i \in Index |-> IF i \in Taken
                     THEN [state |-> slots[i].pub.state, gen |-> slots[i].pub.gen]
                     ELSE [state |-> "Unregistered", gen |-> 0]]

Watched == INSTANCE ChildStatus WITH Child <- Index, status <- PublishedStatus

\* Everything publish() sends, over the life of a supervisor, is a step of the
\* cycle the docs of SupervisionState describe: watchers never see a child come
\* back from a terminal state, skip a generation or restart without failing.
WatchersSeeTheCycle == Watched!Spec

===============================================================================
