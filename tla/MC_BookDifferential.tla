------------------------- MODULE MC_BookDifferential -------------------------
(* BookDifferential for TLC; the configuration gives the constants. *)
EXTENDS BookDifferential
=============================================================================
