------------------------- MODULE MCEventAccounting -------------------------
(* Model values for checking EventAccounting with TLC. *)
EXTENDS EventAccounting, TLC

\* Threads of a kind are interchangeable: nothing in the module compares them.
ThreadSymmetry == Permutations(AppThreads) \cup Permutations(Dispatchers)
============================================================================
