----------------------------- MODULE MCSnapshot -----------------------------
(* Model-checking instances of the snapshot loader: the snapshot run        *)
EXTENDS CoherentSnapshot
=============================================================================
