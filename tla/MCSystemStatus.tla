---------------------------- MODULE MCSystemStatus ----------------------------
(* A small instance of SystemStatus for TLC: one request for the dashboard,  *)
(* one for /health/worker.  The checks that await nothing are left out: one   *)
(* of them that raises is no other than that of Redis.                       *)
EXTENDS SystemStatusProperties

CONSTANTS dashboard, worker

MCAsks == [r \in Requests |-> IF r = dashboard THEN Checks \ {"engine"} ELSE {"worker"}]
=============================================================================
