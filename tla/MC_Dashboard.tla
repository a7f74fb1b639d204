---------------------------- MODULE MC_Dashboard ----------------------------
(* Dashboard for TLC; the configurations give the constants. *)
EXTENDS Dashboard
=============================================================================
