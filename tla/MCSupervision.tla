----------------------------- MODULE MCSupervision -----------------------------
(* Three names: two children that are always restarted, one only on failure. *)
EXTENDS SupervisionProperties, RegistryRefinement, TLC
CONSTANTS a, b, c
MCName == {a, b, c}
MCPolicy == (a :> "Permanent") @@ (b :> "Permanent") @@ (c :> "Transient")
===============================================================================
