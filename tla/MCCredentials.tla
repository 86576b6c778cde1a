---------------------------- MODULE MCCredentials ----------------------------
(* Two pages and a worker, and an account that may come to name either of   *)
(* two mailboxes.                                                           *)
EXTENDS Credentials, TLC

Interchangeable == Permutations(Mailbox)
==============================================================================
