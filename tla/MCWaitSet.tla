----------------------------- MODULE MCWaitSet -----------------------------
(* Model values for checking WaitSet with TLC. *)
EXTENDS WaitSet, TLC

CONSTANTS w1, w2, g1, g2, c1

\* Both wait for the first guard condition and for the level, the second alone
\* for the other guard condition.
Shared == w1 :> {g1, c1} @@ w2 :> {g1, g2, c1}
=============================================================================
