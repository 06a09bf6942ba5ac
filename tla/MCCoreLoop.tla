----------------------------- MODULE MCCoreLoop -----------------------------
(* Small instances of CoreLoop. *)
EXTENDS CoreLoop, TLC

\* Connections are only compared with each other.
MCSymmetry == Permutations(Conns)
=============================================================================
