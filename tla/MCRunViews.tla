------------------------------ MODULE MCRunViews ------------------------------
(* RunViews with small bounds. *)
EXTENDS RunViews
=============================================================================
