--------------------------- MODULE MCCodexSession ---------------------------
(***************************************************************************)
(* CodexSession for TLC: two turns (a message after one that was stopped,  *)
(* failed or completed), one thread item, and one or two server requests   *)
(* (two that are open together).  The sets are small enough to be given in *)
(* the configurations, and need no definition here.                        *)
(***************************************************************************)
EXTENDS CodexSession
=============================================================================
