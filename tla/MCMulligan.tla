----------------------------- MODULE MCMulligan -----------------------------
(***************************************************************************)
(* The opening hands of four players for TLC.                              *)
(***************************************************************************)
EXTENDS Mulligan

(* Two of the clients may answer with cards that do not fit.               *)
MCCareless == {1, 3}
=============================================================================
