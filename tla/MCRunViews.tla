----------------------------- MODULE MCRunViews -----------------------------
(* The instances are given by their bounds. *)
EXTENDS RunViews
=============================================================================
