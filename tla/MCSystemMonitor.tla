-------------------------- MODULE MCSystemMonitor --------------------------
(* SystemMonitor with the limits of the code.                              *)
EXTENDS SystemMonitor

===========================================================================
