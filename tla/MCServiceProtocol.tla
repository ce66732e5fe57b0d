------------------------- MODULE MCServiceProtocol -------------------------
(* Model values for checking ServiceProtocol with TLC. *)
EXTENDS ServiceProtocol, TLC

\* Threads and servers are interchangeable; clients are not, as Idle names one.
ServiceSymmetry == Permutations(Threads) \cup Permutations(Takers) \cup Permutations(Servers)
=============================================================================
