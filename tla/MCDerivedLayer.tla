---------------------------- MODULE MCDerivedLayer ---------------------------
(* Two messages and a third to come. *)
EXTENDS DerivedLayer
=============================================================================
