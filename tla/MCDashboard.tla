---------------------------- MODULE MCDashboard ----------------------------
(* A small instance of Dashboard. *)
EXTENDS Dashboard

CONSTANTS t1, t2, w1, w2, lobby, den
=============================================================================
