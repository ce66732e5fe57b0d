------------------------- MODULE MCEndpointLifecycle -------------------------
(* Model values for checking EndpointLifecycle with TLC. *)
EXTENDS EndpointLifecycle, TLC

CONSTANTS pub, sub, other, client, service

\* A client or a service, made of the same two endpoints, and a subscription
\* beside them.
PairFirst == client :> pub @@ service :> sub
PairSecond == client :> sub @@ service :> pub
==============================================================================
