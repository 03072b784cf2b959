------------------------- MODULE MCDaemonSupervisor -------------------------
(* DaemonSupervisor with two settings, which are interchangeable for safety. *)
EXTENDS DaemonSupervisor
=============================================================================
