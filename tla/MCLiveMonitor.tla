----------------------------- MODULE MCLiveMonitor -----------------------------
(* Small instances of LiveMonitor for TLC.  The safety run uses symmetry;   *)
(* the liveness run must not, and is smaller.                               *)
EXTENDS LiveMonitor, TLC

Symmetry == Permutations(Handlers) \union Permutations(Tables)
===============================================================================
