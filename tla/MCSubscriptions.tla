--------------------------- MODULE MCSubscriptions ---------------------------
(* Subscriptions with one selector that matches both of two names. *)
EXTENDS Subscriptions

CONSTANTS n1, n2, p1

MCMatches == {<<p1, n1>>, <<p1, n2>>}
=============================================================================
