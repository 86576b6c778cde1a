------------------------------ MODULE MCImapWalk ------------------------------
(* Three folder names, the INBOX in the middle; liveness, so no symmetry. *)
EXTENDS ImapWalk
===============================================================================
