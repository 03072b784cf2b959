----------------------------- MODULE MCPiSession -----------------------------
(***************************************************************************)
(* PiSession for TLC: four operations, so that messages follow one that    *)
(* was stopped or failed, with the chat loaded before or between.          *)
(***************************************************************************)
EXTENDS PiSession
=============================================================================
