---------------------------- MODULE MCSensorLog ----------------------------
(* Three entries: a sensor logged in every row, one in every other row, and *)
(* one, as the Temperature entry, without a source.                         *)
EXTENDS SensorLog

MCRate == [i \in Entries |-> IF i = 0 THEN 1 ELSE 2]
=============================================================================
