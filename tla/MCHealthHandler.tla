---------------------------- MODULE MCHealthHandler ----------------------------
(* HealthHandler for one request to a Checker of at most two checks, one of  *)
(* which ignores its context.                                                *)
EXTENDS HealthHandler
=============================================================================
