----------------------------- MODULE MCDataPath -----------------------------
(* Model values for checking DataPath with TLC. *)
EXTENDS DataPath
=============================================================================
