-------------------------- MODULE MCGraphDiscovery ---------------------------
(* Instances of GraphDiscovery for TLC; the model values are in the cfgs. *)
EXTENDS GraphDiscovery
==============================================================================
