--------------------------- MODULE MCImportEngine ---------------------------
(* A mailbox of three messages, one of them unreadable. *)
EXTENDS ImportEngine

MCBroken == {2}
=============================================================================
