------------------------- MODULE MCProductExtraction -------------------------
(***************************************************************************)
(* ProductExtraction for TLC: the cfg files give every constant its value. *)
(***************************************************************************)
EXTENDS ProductExtraction, TLC
=============================================================================
