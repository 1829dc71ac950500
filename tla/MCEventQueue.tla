-------------------------- MODULE MCEventQueue ---------------------------
(* A queue of two events that four or more compete for.                  *)
EXTENDS EventQueue
=============================================================================
