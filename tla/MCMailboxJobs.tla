--------------------------- MODULE MCMailboxJobs ----------------------------
(* Two mailboxes that share their first message. *)
EXTENDS MailboxJobs, TLC

CONSTANTS one, two

MailOf == one :> 2 @@ two :> 1
=============================================================================
