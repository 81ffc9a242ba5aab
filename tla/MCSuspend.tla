----------------------------- MODULE MCSuspend -----------------------------
(* Every screen, a panel of two pages: the monitor's row and the rest.      *)
EXTENDS Suspend

\* A sound log thread and a user who may sleep, or a failing log thread and a user
\* who is at the keys.
OneAtATime == {[logFails |-> FALSE, userIdles |-> TRUE], [logFails |-> TRUE, userIdles |-> FALSE]}

\* Both at once.
Both == {[logFails |-> TRUE, userIdles |-> TRUE]}
=============================================================================
