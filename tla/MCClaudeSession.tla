--------------------------- MODULE MCClaudeSession ---------------------------
(***************************************************************************)
(* ClaudeSession for TLC: messages that follow one another in a session    *)
(* file and two uses of tools, which may ask at the same time.             *)
(***************************************************************************)
EXTENDS ClaudeSession
=============================================================================
