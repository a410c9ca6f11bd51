----------------------------- MODULE MCCaptions -----------------------------
(***************************************************************************)
(* Captions for TLC: two languages, one of them the system's.              *)
(***************************************************************************)
EXTENDS Captions

McCodes == {"en", "de"}
=============================================================================
