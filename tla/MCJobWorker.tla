---------------------------- MODULE MCJobWorker ----------------------------
(* Values for the constants of JobWorker.  import names an account and runs *)
(* on the event loop, derive works in a thread, orphan is a kind this build *)
(* knows but no handler is registered for, unheard one it does not know.    *)
EXTENDS JobWorker

CONSTANTS w1, w2, import, derive, orphan, unheard

MCWorker  == {w1, w2}
MCKinds   == {import, derive, orphan, unheard}
MCKnown   == {import, derive, orphan}
MCHandled == {import, derive}
MCMailbox == {import}
MCThread  == {derive}
MCError   == {"none", "unknown_kind", "auth", "transient", "permanent", "other",
              "unhandled"}
=============================================================================
