------------------------- MODULE MCEmbedderSettings -------------------------
(* Two pages and the handlers they have under way.                         *)
EXTENDS EmbedderSettings, TLC

Symmetry == Permutations(Form) \cup Permutations(Task)
=============================================================================
