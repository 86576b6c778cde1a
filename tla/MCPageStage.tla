---------------------------- MODULE MCPageStage -----------------------------
(* A page of up to five references in two slices; the second is unreadable, *)
(* the fifth may be gone by the time it is fetched.                        *)
EXTENDS PageStage

MCBroken == {2}
MCGone   == {5}
MCNone   == {}
=============================================================================
