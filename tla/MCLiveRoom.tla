------------------------------ MODULE MCLiveRoom ------------------------------
(* A small instance of LiveRoom for TLC: no symmetry, as it checks liveness. *)
EXTENDS LiveRoom
===============================================================================
