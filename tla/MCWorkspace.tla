---------------------------- MODULE MCWorkspace ----------------------------
(* A small instance of Workspace.  A page that was loaded with a session    *)
(* refreshes its statistics after each event, and so has much more to do.   *)
EXTENDS Workspace

CONSTANTS lobby, den

MCMaxOperations == [initial \in 0..1 |-> IF initial = 0 THEN 2 ELSE 1]
=============================================================================
