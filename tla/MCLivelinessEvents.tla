-------------------------- MODULE MCLivelinessEvents --------------------------
(* Model values for checking LivelinessEvents with TLC. *)
EXTENDS LivelinessEvents
===============================================================================
