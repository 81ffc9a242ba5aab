----------------------------- MODULE MCEventLog -----------------------------
(* Three items instead of 128: enough for a list with an item in the middle, *)
(* for a pool that runs empty, and for a list of two freed and taken again.  *)
EXTENDS EventLog
=============================================================================
