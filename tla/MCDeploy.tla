------------------------------ MODULE MCDeploy ------------------------------
(* A small instance of Deploy: two containers and three tables.            *)
EXTENDS Deploy

CONSTANTS c1, c2
=============================================================================
