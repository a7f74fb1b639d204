----------------------------- MODULE MC_SpscRing -----------------------------
(* SpscRing for TLC.  Positions wrap at a small PositionModulus, so every    *)
(* run goes round the counter any number of times and needs no other bound. *)
EXTENDS SpscRing
=============================================================================
