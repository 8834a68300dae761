-------------------------------- MODULE MCDash --------------------------------
(* Model-checking instance of the live dashboard: the dashboard run.         *)
EXTENDS DashboardLive, TLC

Symmetry == Permutations(Reqs)
===============================================================================
